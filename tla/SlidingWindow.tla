--------------------------- MODULE SlidingWindow ---------------------------
(***************************************************************************)
(* What the rate limiter promises: a client is admitted exactly when fewer *)
(* than Limit of its requests were admitted in the last Window seconds.    *)
(* The whole history is kept; core/middleware.py gets by with one deque    *)
(* per client, which Gateway shows to be enough.                           *)
(***************************************************************************)
EXTENDS Integers, Sequences

CONSTANTS Identities, Limit, Window

VARIABLES
    now,    \* time.monotonic()
    log     \* the times at which requests of each identity were admitted

windowVars == <<now, log>>

Init ==
    /\ now = 0
    /\ log = [i \in Identities |-> <<>>]

\* The Limit-th request from the end has left the window.
HasRoom(i) ==
    \/ Len(log[i]) < Limit
    \/ log[i][Len(log[i]) - Limit + 1] <= now - Window

Admit(i) ==
    /\ HasRoom(i)
    /\ log' = [log EXCEPT ![i] = Append(@, now)]
    /\ now' = now

Tick ==
    /\ now' = now + 1
    /\ log' = log

Next == Tick \/ \E i \in Identities : Admit(i)

Spec == Init /\ [][Next]_windowVars

\* Any Limit + 1 admissions of one identity take at least a whole window.
NoWindowExceedsLimit ==
    \A i \in Identities : \A k \in 1..(Len(log[i]) - Limit) :
        log[i][k + Limit] - log[i][k] >= Window

=============================================================================
