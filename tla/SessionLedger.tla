--------------------------- MODULE SessionLedger ---------------------------
(***************************************************************************)
(* What the anonymous-session API promises: every request that is answered *)
(* with success took effect at one instant, on the rows as they were at    *)
(* that instant.  One action per kind of effect; SessionStore implements   *)
(* this specification with transactions that read and write the rows in    *)
(* several steps.                                                          *)
(***************************************************************************)
EXTENDS SessionData

CONSTANTS
    AnswerBatches,   \* bound: the batches a client may submit
    MaxClock,        \* bound on the clock
    MaxEdition       \* bound on the changes of a policy

VARIABLES
    clock,        \* the wall clock, in minutes
    issued,       \* session identities handed out so far
    row,          \* anonymous_session, by identity
    fact,         \* user_fact, by session
    evaluation,   \* policy_evaluation, by session
    catalog       \* policy and policy_rule

ledgerVars == <<clock, issued, row, fact, evaluation, catalog>>

Init ==
    /\ clock = 0
    /\ issued = {}
    /\ row = [s \in Sessions |-> NoRow]
    /\ fact = [s \in Sessions |-> NoFacts]
    /\ evaluation = [s \in Sessions |-> NoEvaluations]
    /\ catalog = [p \in Policies |-> [state |-> "RULED", edition |-> 0]]

-----------------------------------------------------------------------------
\* The idle window a request made at time t leaves behind.  It may leave the
\* window it finds when its own would reach the absolute expiry.
IdleAfter(r, t) ==
    {Refreshed(r, t).idle} \cup {i \in {r.idle} : t + IdleTTL >= r.expires}

\* A request made at time t, and not later than the absolute expiry, uses the
\* session and leaves it with category c.
Touch(s, t, c) ==
    /\ t <= clock
    /\ t < row[s].expires
    /\ \E i \in IdleAfter(row[s], t) :
         row' = [row EXCEPT ![s] = [expires |-> row[s].expires, idle |-> i, category |-> c]]

\* Rows that are gone take their facts and evaluations with them.
Remove(S) ==
    /\ fact' = [s \in Sessions |-> IF s \in S THEN NoFacts ELSE fact[s]]
    /\ evaluation' = [s \in Sessions |-> IF s \in S THEN NoEvaluations ELSE evaluation[s]]

Access(s, t, c) ==
    /\ Touch(s, t, c)
    /\ UNCHANGED <<clock, issued, fact, evaluation, catalog>>

PutFact(s, t, k, v) ==
    /\ Touch(s, t, row[s].category)
    /\ fact' = [fact EXCEPT ![s] = [fact[s] EXCEPT ![k] = v]]
    /\ evaluation' = [evaluation EXCEPT ![s] = MarkedStale(evaluation[s])]
    /\ UNCHANGED <<clock, issued, catalog>>

\* Conflicts are decided on the facts that are replaced.
SubmitAnswers(s, t, c, batch) ==
    LET existing == CategoryFacts(fact[s], c)
    IN  /\ Touch(s, t, row[s].category)
        /\ Conflicts(c, existing, batch) = {}
        /\ fact' = [fact EXCEPT ![s] = FactsAfterAnswers(fact[s], c, existing, batch)]
        /\ evaluation' = [evaluation EXCEPT ![s] = MarkedStale(evaluation[s])]
        /\ UNCHANGED <<clock, issued, catalog>>

\* The evaluations are made from the facts of this instant, and from a catalog
\* that may have been read earlier.
Evaluate(s, t, c, read) ==
    /\ Touch(s, t, row[s].category)
    /\ \A p \in Policies :
         \/ read[p] = catalog[p]
         \/ read[p].edition < catalog[p].edition
    /\ evaluation' = [evaluation EXCEPT ![s] =
           EvaluationsAfterEvaluate(evaluation[s], c, CategoryFacts(fact[s], c), read)]
    /\ UNCHANGED <<clock, issued, fact, catalog>>

Reset(s, t, c) ==
    /\ \E selected \in {c, row[s].category} : Touch(s, t, selected)
    /\ fact' = [fact EXCEPT ![s] = FactsAfterReset(fact[s], c)]
    /\ evaluation' = [evaluation EXCEPT ![s] = EvaluationsAfterReset(evaluation[s], c, catalog)]
    /\ UNCHANGED <<clock, issued, catalog>>

Delete(s) ==
    /\ row[s] # NoRow
    /\ row' = [row EXCEPT ![s] = NoRow]
    /\ Remove({s})
    /\ UNCHANGED <<clock, issued, catalog>>

\* A clean-up at time t may take only sessions that had expired by then.
MaySweep(S, t) ==
    /\ t <= clock
    /\ \A s \in S : row[s] # NoRow /\ Expired(row[s], t)

CleanUp(S, t) ==
    /\ MaySweep(S, t)
    /\ row' = [s \in Sessions |-> IF s \in S THEN NoRow ELSE row[s]]
    /\ Remove(S)
    /\ UNCHANGED <<clock, issued, catalog>>

\* POST /session cleans up first, in the same transaction.
Renew(S, t, s, u) ==
    /\ MaySweep(S, t)
    /\ s \notin S
    /\ row[s] # NoRow
    /\ u <= clock
    /\ u < row[s].expires
    /\ \E i \in IdleAfter(row[s], u) :
         row' = [x \in Sessions |->
                    IF x = s THEN [row[s] EXCEPT !.idle = i]
                    ELSE IF x \in S THEN NoRow ELSE row[x]]
    /\ Remove(S)
    /\ UNCHANGED <<clock, issued, catalog>>

Open(S, t, s, u) ==
    /\ MaySweep(S, t)
    /\ s \notin issued
    /\ u <= clock
    /\ issued' = issued \cup {s}
    /\ row' = [x \in Sessions |->
                  IF x = s THEN NewRow(u) ELSE IF x \in S THEN NoRow ELSE row[x]]
    /\ Remove(S)
    /\ UNCHANGED <<clock, catalog>>

Tick ==
    /\ clock < MaxClock
    /\ clock' = clock + 1
    /\ UNCHANGED <<issued, row, fact, evaluation, catalog>>

\* An operator edits a policy or its rules.
Revise(p, state) ==
    /\ catalog[p].edition < MaxEdition
    /\ catalog' = [catalog EXCEPT ![p] = [state |-> state, edition |-> @.edition + 1]]
    /\ UNCHANGED <<clock, issued, row, fact, evaluation>>

Catalogs == [Policies -> [state : PolicyStates, edition : 0..MaxEdition]]

RequestStep(s, t) ==
    /\ row[s] # NoRow
    /\ \/ \E c \in Categories \cup {row[s].category} : Access(s, t, c)
       \/ \E k \in ConditionKeys, v \in Values : PutFact(s, t, k, v)
       \/ \E c \in Categories, batch \in AnswerBatches : SubmitAnswers(s, t, c, batch)
       \/ \E c \in Categories, read \in Catalogs : Evaluate(s, t, c, read)
       \/ \E c \in Categories : Reset(s, t, c)

CleanUpStep(S, t) ==
    \/ CleanUp(S, t)
    \/ \E s \in Sessions, u \in 0..clock : Renew(S, t, s, u) \/ Open(S, t, s, u)

Next ==
    \/ \E s \in Sessions, t \in 0..clock : RequestStep(s, t)
    \/ \E s \in Sessions : Delete(s)
    \/ \E S \in SUBSET Sessions, t \in 0..clock : CleanUpStep(S, t)
    \/ Tick
    \/ \E p \in Policies, state \in PolicyStates : Revise(p, state)

Spec == Init /\ [][Next]_ledgerVars

=============================================================================
