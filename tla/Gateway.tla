------------------------------ MODULE Gateway ------------------------------
(***************************************************************************)
(* What every request passes before a handler sees it: the body limit of   *)
(* core/body_limit.py, which reads the whole body, and then the rate limit *)
(* of core/middleware.py.  Requests are served concurrently; the limiter   *)
(* does not await between reading a bucket and writing it, so a dispatch   *)
(* is one step.                                                            *)
(***************************************************************************)
EXTENDS Integers, Sequences

CONSTANTS
    Identities,       \* client addresses
    TrustedProxies,   \* the addresses whose X-Forwarded-For counts
    NoAddress,        \* no X-Forwarded-For, or one that is not an address
    Limit, Window,    \* RATE_LIMIT_REQUESTS, RATE_LIMIT_WINDOW_SECONDS
    MaxBody,          \* REQUEST_MAX_BODY_BYTES
    NoLength,         \* there is no Content-Length header
    NoBody,           \* the client is gone before its body was complete
    NoBucket,         \* the identity is not in the table
    Requests,         \* bound: requests served at the same time
    Calls,            \* bound: the requests that may arrive
    MaxClock          \* bound on the clock

VARIABLES
    now, bucket,      \* the clock and the table of the limiter
    log,              \* history: the times of all admissions
    stage, call, received, body   \* the requests in flight

limiter == <<bucket, log>>
vars == <<now, limiter, stage, call, received, body>>

SlidingWindowLog == INSTANCE SlidingWindow WITH
    Identities <- Identities, Limit <- Limit, Window <- Window, now <- now, log <- log

\* A call names the peer, its X-Forwarded-For, the length it declares (negative
\* when it is malformed) and the length its body has.
AllCalls ==
    [ direct : Identities, forwarded : Identities \cup {NoAddress},
      declared : Int \cup {NoLength}, size : Nat ]

ASSUME GatewayAssumption ==
    /\ TrustedProxies \subseteq Identities
    /\ NoAddress \notin Identities
    /\ Limit \in Nat \ {0} /\ Window \in Nat \ {0} /\ MaxBody \in Nat /\ MaxClock \in Nat
    /\ NoLength \notin Int
    /\ NoBody \notin Nat
    /\ NoBucket \notin Seq(Nat)
    /\ Calls \subseteq AllCalls

NoCall == [direct |-> NoAddress, forwarded |-> NoAddress, declared |-> NoLength, size |-> 0]

Init ==
    /\ now = 0
    /\ bucket = [i \in Identities |-> NoBucket]
    /\ log = [i \in Identities |-> <<>>]
    /\ stage = [r \in Requests |-> "idle"]
    /\ call = [r \in Requests |-> NoCall]
    /\ received = [r \in Requests |-> 0]
    /\ body = [r \in Requests |-> NoBody]

Goes(r, from, to) == stage[r] = from /\ stage' = [stage EXCEPT ![r] = to]

-----------------------------------------------------------------------------
(* RequestBodyLimitMiddleware.                                             *)

Arrive(r, c) ==
    /\ Goes(r, "idle", "declared")
    /\ call' = [call EXCEPT ![r] = c]
    /\ UNCHANGED <<now, limiter, received, body>>

DeclaredFits(c) == c.declared \in {NoLength} \cup 0..MaxBody

\* A length that is malformed or too large is refused before anything is read.
RefuseDeclared(r) ==
    /\ Goes(r, "declared", "refused")
    /\ ~ DeclaredFits(call[r])
    /\ UNCHANGED <<now, limiter, call, received, body>>

StartReading(r) ==
    /\ Goes(r, "declared", "reading")
    /\ DeclaredFits(call[r])
    /\ UNCHANGED <<now, limiter, call, received, body>>

\* Mutant: a body of exactly the limit is refused.
FitsStrictly(r, n) == received[r] + n < MaxBody

\* Mutant: the body is measured before the chunk is added to it.
FitsBeforeChunk(r, n) == received[r] <= MaxBody

Fits(r, n) == received[r] + n <= MaxBody

\* A chunk that does not fit ends the request; what follows is not read.
RefuseChunk(r, n) ==
    /\ Goes(r, "reading", "refused")
    /\ ~ Fits(r, n)
    /\ UNCHANGED <<now, limiter, call, received, body>>

ReceiveChunk(r, n) ==
    /\ stage[r] = "reading"
    /\ Fits(r, n)
    /\ received[r] + n < call[r].size
    /\ received' = [received EXCEPT ![r] = @ + n]
    /\ UNCHANGED <<now, limiter, stage, call, body>>

ReceiveLastChunk(r, n) ==
    /\ Goes(r, "reading", "buffered")
    /\ Fits(r, n)
    /\ received[r] + n = call[r].size
    /\ received' = [received EXCEPT ![r] = @ + n]
    /\ body' = [body EXCEPT ![r] = received[r] + n]
    /\ UNCHANGED <<now, limiter, call>>

\* The application is told that the client is gone, and sees no body.
Disconnect(r) ==
    /\ Goes(r, "reading", "buffered")
    /\ UNCHANGED <<now, limiter, call, received, body>>

-----------------------------------------------------------------------------
(* OperationsMiddleware.                                                   *)

ClientIp(c) ==
    IF c.direct \in TrustedProxies /\ c.forwarded # NoAddress THEN c.forwarded ELSE c.direct

\* Mutant: a time leaves the bucket one tick early.
FreshTooShort(b) ==
    LET kept == {k \in 1..Len(b) : b[k] > now - Window + 1}
    IN  IF kept = {} THEN NoBucket
        ELSE SubSeq(b, CHOOSE k \in kept : \A j \in kept : k <= j, Len(b))

\* Times that left the window are popped from the left; a bucket that empties
\* is dropped from the table.
Fresh(b) ==
    LET kept == {k \in 1..Len(b) : b[k] > now - Window}
    IN  IF kept = {} THEN NoBucket
        ELSE SubSeq(b, CHOOSE k \in kept : \A j \in kept : k <= j, Len(b))

BucketOf(i) ==
    LET fresh == IF bucket[i] = NoBucket THEN NoBucket ELSE Fresh(bucket[i])
    IN  IF fresh = NoBucket THEN <<>> ELSE fresh

\* Mutant: the time of a request that is let through is not kept.
AdmitUncounted(r) ==
    LET i == ClientIp(call[r])
    IN  /\ Goes(r, "buffered", "admitted")
        /\ Len(BucketOf(i)) < Limit
        /\ bucket' = [bucket EXCEPT ![i] = BucketOf(i)]
        /\ log' = [log EXCEPT ![i] = Append(@, now)]
        /\ UNCHANGED <<now, call, received, body>>

Admit(r) ==
    LET i == ClientIp(call[r])
    IN  /\ Goes(r, "buffered", "admitted")
        /\ Len(BucketOf(i)) < Limit
        /\ bucket' = [bucket EXCEPT ![i] = Append(BucketOf(i), now)]
        /\ log' = [log EXCEPT ![i] = Append(@, now)]
        /\ UNCHANGED <<now, call, received, body>>

\* Mutant: a request that is turned away counts.
TurnAwayCounting(r) ==
    LET i == ClientIp(call[r])
    IN  /\ Goes(r, "buffered", "limited")
        /\ Len(BucketOf(i)) >= Limit
        /\ bucket' = [bucket EXCEPT ![i] = Append(BucketOf(i), now)]
        /\ UNCHANGED <<now, log, call, received, body>>

TurnAway(r) ==
    LET i == ClientIp(call[r])
    IN  /\ Goes(r, "buffered", "limited")
        /\ Len(BucketOf(i)) >= Limit
        /\ bucket' = [bucket EXCEPT ![i] = BucketOf(i)]
        /\ UNCHANGED <<now, log, call, received, body>>

-----------------------------------------------------------------------------

\* The response is sent: 413, 429, or what the handler made of it.
Respond(r) ==
    /\ stage[r] \in {"refused", "limited", "admitted"}
    /\ stage' = [stage EXCEPT ![r] = "idle"]
    /\ call' = [call EXCEPT ![r] = NoCall]
    /\ received' = [received EXCEPT ![r] = 0]
    /\ body' = [body EXCEPT ![r] = NoBody]
    /\ UNCHANGED <<now, limiter>>

Tick ==
    /\ now < MaxClock
    /\ now' = now + 1
    /\ UNCHANGED <<limiter, stage, call, received, body>>

Read(r) ==
    \/ \E n \in 0..(call[r].size - received[r]) :
         RefuseChunk(r, n) \/ ReceiveChunk(r, n) \/ ReceiveLastChunk(r, n)
    \/ Disconnect(r)

Step(r) ==
    \/ \E c \in Calls : Arrive(r, c)
    \/ RefuseDeclared(r)
    \/ StartReading(r)
    \/ Read(r)
    \/ Admit(r)
    \/ TurnAway(r)
    \/ Respond(r)

Next == Tick \/ \E r \in Requests : Step(r)

Spec == Init /\ [][Next]_vars

-----------------------------------------------------------------------------

Stages == {"idle", "declared", "reading", "buffered", "refused", "limited", "admitted"}

\* Every variable has its type; no deque in the table is empty.
TypeOK ==
    /\ now \in 0..MaxClock
    /\ bucket \in [Identities -> (Seq(0..MaxClock) \ {<<>>}) \cup {NoBucket}]
    /\ log \in [Identities -> Seq(0..MaxClock)]
    /\ stage \in [Requests -> Stages]
    /\ call \in [Requests -> Calls \cup {NoCall}]
    /\ received \in [Requests -> Nat]
    /\ body \in [Requests -> Nat \cup {NoBody}]

\* Whatever the order of requests, ticks and dropped buckets, no window of the
\* length of the limiter's holds more than Limit admissions of one client.
NoWindowExceedsLimit == SlidingWindowLog!NoWindowExceedsLimit

\* A client is turned away only when Limit of its requests were admitted within
\* the window: neither a request that was turned away nor one that was refused
\* for its size counts, so Retry-After can be relied on.
TurnedAwayOnlyWhenFull ==
    [][ \A r \in Requests :
          stage[r] = "buffered" /\ stage'[r] = "limited"
              => ~ SlidingWindowLog!HasRoom(ClientIp(call[r])) ]_vars

\* The limiter with its deques implements the one that remembers everything.
ImplementsSlidingWindow == SlidingWindowLog!Spec

\* A body that reaches the application is the whole body the client sent, and
\* within the limit, whatever length was declared and however it was cut.
DeliveredBodiesAreWhole ==
    \A r \in Requests :
        body[r] # NoBody => body[r] = call[r].size /\ body[r] <= MaxBody

\* A request is refused for its size only when its body or its declared length
\* is too large, or the declaration is malformed.
RefusedForAReason ==
    \A r \in Requests :
        stage[r] = "refused" => call[r].size > MaxBody \/ ~ DeclaredFits(call[r])

=============================================================================
