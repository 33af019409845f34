---------------------------- MODULE SessionStore ----------------------------
(***************************************************************************)
(* The anonymous-session API: concurrent requests, each one transaction of *)
(* PostgreSQL at READ COMMITTED, and the periodic clean-up of core/        *)
(* lifespan.py.                                                            *)
(*                                                                         *)
(* A request reads its session without a lock.  Refreshing the session     *)
(* makes the ORM object dirty, and the next statement (or the commit)      *)
(* flushes an UPDATE first: from there to the commit the request holds the *)
(* row lock of its session.  What a request writes becomes visible with    *)
(* its commit, so the model writes the rows there.                         *)
(***************************************************************************)
EXTENDS SessionData

CONSTANTS
    Requests,     \* bound: requests served at the same time
    Janitor,      \* the background clean-up task
    NoTask,       \* nobody holds the row lock
    Workload,     \* bound: the calls a client may make
    AnswerBatches,
    Revisions,    \* bound: the states an operator may bring a policy into
    MaxClock,     \* bound on the clock
    MaxEdition    \* bound on the changes of a policy

Tasks == Requests \cup {Janitor}

VARIABLES
    clock, issued, row, fact, evaluation, catalog,   \* as in SessionLedger
    holder,     \* the transaction that holds the lock of a session row
    stage,      \* how far a task has come
    job,        \* what it was asked to do
    now,        \* the time it took first
    loaded,     \* the session row it read
    swept,      \* the rows its clean-up deleted
    facts,      \* the facts of the category it read
    offers,     \* the catalog it read
    reply,      \* the status of its answer
    followUps   \* the questions in its answer

rows == <<issued, row, fact, evaluation>>
memory == <<job, now, loaded, swept, facts, offers>>
answer == <<reply, followUps>>
vars == <<clock, catalog, holder, stage, rows, memory, answer>>

Ledger == INSTANCE SessionLedger

Stages == {"idle", "arrived", "swept", "admitted", "inserting", "locked", "loaded", "done"}

Statuses == {"NONE", "OK", "NOT_FOUND", "NO_CATEGORY", "CONFLICTED", "STORED",
            "ERROR", "INTEGRITY_ERROR"}

\* A call names the session of the client's cookie.
ReadCall == [kind : {"read", "next", "evaluate", "delete", "create"}, session : Sessions]
CategoryCall == [kind : {"select", "reset"}, session : Sessions, category : Categories]
PutCall == [kind : {"put"}, session : Sessions, key : ConditionKeys, value : Values]
AnswersCall == [kind : {"answers"}, session : Sessions, batch : AnswerBatches]

Calls == ReadCall \cup CategoryCall \cup PutCall \cup AnswersCall

CleanUpJob == [kind |-> "cleanup"]

ASSUME StoreAssumption ==
    /\ Janitor \notin Requests
    /\ NoTask \notin Tasks
    /\ Workload \subseteq Calls
    /\ AnswerBatches \subseteq Seq(Answer) \ {<<>>}
    /\ Revisions \subseteq PolicyStates
    /\ MaxClock \in Nat /\ MaxEdition \in Nat

NoDict == [key \in FactKeys |-> NoFact]

NoOffers == [p \in Policies |-> [state |-> "RULED", edition |-> 0]]

Init ==
    /\ Ledger!Init
    /\ holder = [s \in Sessions |-> NoTask]
    /\ stage = [r \in Tasks |-> "idle"]
    /\ job = [r \in Tasks |-> CleanUpJob]
    /\ now = [r \in Tasks |-> 0]
    /\ loaded = [r \in Tasks |-> NoRow]
    /\ swept = [r \in Tasks |-> {}]
    /\ facts = [r \in Tasks |-> NoDict]
    /\ offers = [r \in Tasks |-> NoOffers]
    /\ reply = [r \in Tasks |-> "NONE"]
    /\ followUps = [r \in Tasks |-> {}]

-----------------------------------------------------------------------------
(* Helpers for the steps of a task.                                        *)

Goes(r, from, to) == stage[r] = from /\ stage' = [stage EXCEPT ![r] = to]

Kind(r) == job[r].kind
Session(r) == job[r].session
Category(r) == loaded[r].category

\* Mutant: a transaction that ends keeps its locks.
LocksKept(r) == holder

\* The row locks end with their transaction.
Unlocked(r) == [s \in Sessions |-> IF holder[s] = r THEN NoTask ELSE holder[s]]

\* What a task has in memory before a request arrives.
Releases(r) ==
    /\ job' = [job EXCEPT ![r] = CleanUpJob]
    /\ now' = [now EXCEPT ![r] = 0]
    /\ loaded' = [loaded EXCEPT ![r] = NoRow]
    /\ swept' = [swept EXCEPT ![r] = {}]
    /\ facts' = [facts EXCEPT ![r] = NoDict]
    /\ offers' = [offers EXCEPT ![r] = NoOffers]

\* The transaction ends, and the client gets the status and the questions.
Replies(r, status, questions) ==
    /\ reply' = [reply EXCEPT ![r] = status]
    /\ followUps' = [followUps EXCEPT ![r] = questions]
    /\ stage' = [stage EXCEPT ![r] = "done"]
    /\ holder' = Unlocked(r)

\* The task ends with its transaction.
Ends(r, status) == Replies(r, status, {}) /\ Releases(r)

\* The transaction ends without a trace.
RollsBack(r, status) ==
    /\ Ends(r, status)
    /\ UNCHANGED <<clock, catalog, rows>>

-----------------------------------------------------------------------------
(* Arrival of a request, and require_session.                              *)

\* Bound: an identity must be left for every session being created.
IdentitiesLeft ==
    Cardinality({r \in Requests : stage[r] \notin {"idle", "done"} /\ Kind(r) = "create"})
        < Cardinality(Sessions \ issued)

\* A handler starts and takes the time.
Arrive(r, call) ==
    /\ call.kind = "create" => IdentitiesLeft
    /\ Goes(r, "idle", "arrived")
    /\ job' = [job EXCEPT ![r] = call]
    /\ now' = [now EXCEPT ![r] = clock]
    /\ UNCHANGED <<clock, catalog, holder, rows, loaded, swept, facts, offers, answer>>

\* cleanup_sessions_periodically wakes up.
WakeJanitor ==
    /\ Goes(Janitor, "idle", "arrived")
    /\ now' = [now EXCEPT ![Janitor] = clock]
    /\ UNCHANGED <<clock, catalog, holder, rows, job, loaded, swept, facts, offers, answer>>

NeedsCategory(r) == Kind(r) \in {"next", "answers", "evaluate"}

NeedsSession(r) == NeedsCategory(r) \/ Kind(r) \in {"read", "select", "reset", "put"}

Found(r) == row[Session(r)] # NoRow /\ ~Expired(row[Session(r)], now[r])

\* require_session finds a live session, and a category where one is needed.
Admit(r) ==
    /\ NeedsSession(r)
    /\ Goes(r, "arrived", "admitted")
    /\ Found(r)
    /\ NeedsCategory(r) => row[Session(r)].category # NoCategory
    /\ loaded' = [loaded EXCEPT ![r] = row[Session(r)]]
    /\ UNCHANGED <<clock, catalog, holder, rows, job, now, swept, facts, offers, answer>>

\* require_session, or require_category_code, raises before anything is flushed:
\* the refresh of the session is lost with the transaction.
Refuse(r) ==
    /\ stage[r] = "arrived"
    /\ NeedsSession(r)
    /\ \/ ~Found(r) /\ RollsBack(r, "NOT_FOUND")
       \/ /\ Found(r) /\ NeedsCategory(r) /\ row[Session(r)].category = NoCategory
          /\ RollsBack(r, "NO_CATEGORY")

\* delete_current_session does not ask whether the session has expired.
FindForDelete(r) ==
    /\ stage[r] = "arrived"
    /\ Kind(r) = "delete"
    /\ \/ /\ row[Session(r)] # NoRow
          /\ Goes(r, "arrived", "admitted")
          /\ loaded' = [loaded EXCEPT ![r] = row[Session(r)]]
          /\ UNCHANGED <<clock, catalog, holder, rows, job, now, swept, facts, offers, answer>>
       \/ /\ row[Session(r)] = NoRow
          /\ RollsBack(r, "OK")

-----------------------------------------------------------------------------
(* Clean-up, and POST /session.                                            *)

ExpiredRows(t) == {s \in Sessions : row[s] # NoRow /\ Expired(row[s], t)}

\* The DELETE waits for the lock of every expired row and takes it.
Sweep(r) ==
    /\ Kind(r) \in {"create", "cleanup"}
    /\ Goes(r, "arrived", "swept")
    /\ \A s \in ExpiredRows(now[r]) : holder[s] \in {NoTask, r}
    /\ swept' = [swept EXCEPT ![r] = ExpiredRows(now[r])]
    /\ holder' = [s \in Sessions |-> IF s \in ExpiredRows(now[r]) THEN r ELSE holder[s]]
    /\ UNCHANGED <<clock, catalog, rows, job, now, loaded, facts, offers, answer>>

\* create_or_get_session takes the time anew and does not see a row its own
\* clean-up deleted.
Reusable(r) ==
    /\ row[Session(r)] # NoRow
    /\ Session(r) \notin swept[r]
    /\ ~Expired(row[Session(r)], clock)

CreateOrGet(r) ==
    /\ Kind(r) = "create"
    /\ \/ /\ Reusable(r)
          /\ Goes(r, "swept", "admitted")
          /\ loaded' = [loaded EXCEPT ![r] = row[Session(r)]]
       \/ /\ ~Reusable(r)
          /\ Goes(r, "swept", "inserting")
          /\ UNCHANGED loaded
    /\ now' = [now EXCEPT ![r] = clock]
    /\ UNCHANGED <<clock, catalog, holder, rows, job, swept, facts, offers, answer>>

-----------------------------------------------------------------------------
(* The flush of the refreshed session, and the reads after it.             *)

\* Mutant: two transactions update a row at the same time.
FlushWithoutWaiting(r) ==
    /\ Goes(r, "admitted", "locked")
    /\ row[Session(r)] # NoRow
    /\ holder' = [holder EXCEPT ![Session(r)] = r]
    /\ UNCHANGED <<clock, catalog, rows, memory, answer>>

\* The flush waits for the row lock.
Flush(r) ==
    /\ Goes(r, "admitted", "locked")
    /\ row[Session(r)] # NoRow
    /\ holder[Session(r)] = NoTask
    /\ holder' = [holder EXCEPT ![Session(r)] = r]
    /\ UNCHANGED <<clock, catalog, rows, memory, answer>>

\* The row was deleted in the meantime.  An UPDATE that matches no row is an
\* error of the ORM; a DELETE that matches none is a warning.
FlushMisses(r) ==
    /\ stage[r] = "admitted"
    /\ row[Session(r)] = NoRow
    /\ RollsBack(r, IF Kind(r) = "delete" THEN "OK" ELSE "ERROR")

\* Mutant: autoflush is off, and the facts are read without the lock.
LoadBeforeFlush(r) ==
    /\ NeedsCategory(r)
    /\ Goes(r, "admitted", "loaded")
    /\ facts' = [facts EXCEPT ![r] = CategoryFacts(fact[Session(r)], Category(r))]
    /\ offers' = [offers EXCEPT ![r] = catalog]
    /\ UNCHANGED <<clock, catalog, holder, rows, job, now, loaded, swept, answer>>

\* list_session_facts, and list_active_policies_for_category after it.
Load(r) ==
    /\ NeedsCategory(r)
    /\ Goes(r, "locked", "loaded")
    /\ facts' = [facts EXCEPT ![r] = CategoryFacts(fact[Session(r)], Category(r))]
    /\ offers' = [offers EXCEPT ![r] = catalog]
    /\ UNCHANGED <<clock, catalog, holder, rows, job, now, loaded, swept, answer>>

-----------------------------------------------------------------------------
(* Commits.                                                                *)

\* Mutant: the UPDATE writes every column, not the changed ones.
SavedWhole(r, c) == [Refreshed(loaded[r], now[r]) EXCEPT !.category = c]

\* The session the request leaves, which selects category c.
Saved(r, c) ==
    Flushed(row[Session(r)], loaded[r], [Refreshed(loaded[r], now[r]) EXCEPT !.category = c])

SavesRow(r, c) == row' = [row EXCEPT ![Session(r)] = Saved(r, c)]

\* GET /session, /facts, /graph, /evaluations and /evaluations/{policy_id}:
\* a read-only request, but for the refresh.  POST /category stores its choice.
CommitAccess(r) ==
    /\ stage[r] = "locked"
    /\ \/ Kind(r) = "read" /\ SavesRow(r, Category(r))
       \/ Kind(r) = "select" /\ SavesRow(r, job[r].category)
    /\ Ends(r, "OK")
    /\ UNCHANGED <<clock, catalog, issued, fact, evaluation>>

\* GET /questions/next and /questions/progress
CommitNext(r) ==
    /\ stage[r] = "loaded"
    /\ Kind(r) = "next"
    /\ SavesRow(r, Category(r))
    /\ Ends(r, "OK")
    /\ UNCHANGED <<clock, catalog, issued, fact, evaluation>>

\* Mutant: a new fact leaves the evaluations ACTIVE.
CommitPutUnmarked(r) ==
    /\ stage[r] = "locked"
    /\ Kind(r) = "put"
    /\ SavesRow(r, Category(r))
    /\ fact' = [fact EXCEPT ![Session(r)] = [@ EXCEPT ![job[r].key] = job[r].value]]
    /\ Ends(r, "OK")
    /\ UNCHANGED <<clock, catalog, issued, evaluation>>

\* PUT /facts/{key}
CommitPut(r) ==
    /\ stage[r] = "locked"
    /\ Kind(r) = "put"
    /\ SavesRow(r, Category(r))
    /\ fact' = [fact EXCEPT ![Session(r)] = [@ EXCEPT ![job[r].key] = job[r].value]]
    /\ evaluation' = [evaluation EXCEPT ![Session(r)] = MarkedStale(@)]
    /\ Ends(r, "OK")
    /\ UNCHANGED <<clock, catalog, issued>>

\* POST /category/reset
CommitReset(r) ==
    /\ stage[r] = "locked"
    /\ Kind(r) = "reset"
    /\ SavesRow(r, job[r].category)
    /\ fact' = [fact EXCEPT ![Session(r)] = FactsAfterReset(@, job[r].category)]
    /\ evaluation' = [evaluation EXCEPT ![Session(r)] =
                         EvaluationsAfterReset(@, job[r].category, catalog)]
    /\ Ends(r, "OK")
    /\ UNCHANGED <<clock, catalog, issued>>

\* submit_answers finds a conflict: it commits the refresh and stores nothing.
CommitConflict(r) ==
    /\ stage[r] = "loaded"
    /\ Kind(r) = "answers"
    /\ Conflicts(Category(r), facts[r], job[r].batch) # {}
    /\ SavesRow(r, Category(r))
    /\ Ends(r, "CONFLICTED")
    /\ UNCHANGED <<clock, catalog, issued, fact, evaluation>>

\* facts then records, for the properties, what the commit left in the category.
CommitAnswers(r) ==
    /\ stage[r] = "loaded"
    /\ Kind(r) = "answers"
    /\ Conflicts(Category(r), facts[r], job[r].batch) = {}
    /\ SavesRow(r, Category(r))
    /\ fact' = [fact EXCEPT ![Session(r)] =
                   FactsAfterAnswers(@, Category(r), facts[r], job[r].batch)]
    /\ evaluation' = [evaluation EXCEPT ![Session(r)] = MarkedStale(@)]
    /\ Replies(r, "STORED", NextQuestions(Category(r), MergedFacts(facts[r], job[r].batch)))
    /\ facts' = [facts EXCEPT ![r] = CategoryFacts(fact'[Session(r)], Category(r))]
    /\ job' = [job EXCEPT ![r] = CleanUpJob]
    /\ now' = [now EXCEPT ![r] = 0]
    /\ offers' = [offers EXCEPT ![r] = NoOffers]
    /\ UNCHANGED <<clock, catalog, issued, loaded, swept>>

CommitEvaluate(r) ==
    /\ stage[r] = "loaded"
    /\ Kind(r) = "evaluate"
    /\ ~NarrowsRules(offers[r], Category(r))
    /\ SavesRow(r, Category(r))
    /\ evaluation' = [evaluation EXCEPT ![Session(r)] =
                         EvaluationsAfterEvaluate(@, Category(r), facts[r], offers[r])]
    /\ Ends(r, "OK")
    /\ UNCHANGED <<clock, catalog, issued, fact>>

\* The flush of a narrowed relationship violates policy_rule.policy_id.
EvaluateBreaks(r) ==
    /\ stage[r] = "loaded"
    /\ Kind(r) = "evaluate"
    /\ NarrowsRules(offers[r], Category(r))
    /\ RollsBack(r, "INTEGRITY_ERROR")

\* ON DELETE CASCADE
Cascades(S) ==
    /\ fact' = [s \in Sessions |-> IF s \in S THEN NoFacts ELSE fact[s]]
    /\ evaluation' = [s \in Sessions |-> IF s \in S THEN NoEvaluations ELSE evaluation[s]]

\* Mutant: the evaluations do not cascade.
CommitDeleteOfFacts(r) ==
    /\ stage[r] = "locked"
    /\ Kind(r) = "delete"
    /\ row' = [row EXCEPT ![Session(r)] = NoRow]
    /\ fact' = [fact EXCEPT ![Session(r)] = NoFacts]
    /\ Ends(r, "OK")
    /\ UNCHANGED <<clock, catalog, issued, evaluation>>

\* DELETE /session
CommitDelete(r) ==
    /\ stage[r] = "locked"
    /\ Kind(r) = "delete"
    /\ row' = [row EXCEPT ![Session(r)] = NoRow]
    /\ Cascades({Session(r)})
    /\ Ends(r, "OK")
    /\ UNCHANGED <<clock, catalog, issued>>

\* The janitor's clean-up
CommitCleanUp(r) ==
    /\ stage[r] = "swept"
    /\ Kind(r) = "cleanup"
    /\ row' = [s \in Sessions |-> IF s \in swept[r] THEN NoRow ELSE row[s]]
    /\ Cascades(swept[r])
    /\ Ends(r, "OK")
    /\ UNCHANGED <<clock, catalog, issued>>

\* POST /session with the cookie of a live session
CommitRenewal(r) ==
    /\ stage[r] = "locked"
    /\ Kind(r) = "create"
    /\ row' = [s \in Sessions |->
                  IF s = Session(r) THEN Saved(r, Category(r))
                  ELSE IF s \in swept[r] THEN NoRow ELSE row[s]]
    /\ Cascades(swept[r])
    /\ Ends(r, "OK")
    /\ UNCHANGED <<clock, catalog, issued>>

\* POST /session without one: INSERT draws a fresh identity.
CommitInsert(r, s) ==
    /\ stage[r] = "inserting"
    /\ s \notin issued
    /\ issued' = issued \cup {s}
    /\ row' = [x \in Sessions |->
                  IF x = s THEN NewRow(now[r]) ELSE IF x \in swept[r] THEN NoRow ELSE row[x]]
    /\ Cascades(swept[r])
    /\ Ends(r, "OK")
    /\ UNCHANGED <<clock, catalog>>

Commit(r) ==
    \/ CommitAccess(r) \/ CommitNext(r) \/ CommitPut(r) \/ CommitReset(r)
    \/ CommitConflict(r) \/ CommitAnswers(r)
    \/ CommitEvaluate(r) \/ EvaluateBreaks(r)
    \/ CommitDelete(r) \/ CommitCleanUp(r) \/ CommitRenewal(r)
    \/ \E s \in Sessions : CommitInsert(r, s)

-----------------------------------------------------------------------------
(* The rest of the world.                                                  *)

\* An exception, a lost connection, a cancelled request or a crashed process
\* ends the transaction at any point before its commit.
Fail(r) ==
    /\ stage[r] \notin {"idle", "done"}
    /\ RollsBack(r, "ERROR")

\* Mutant: a failed clean-up ends the janitor's loop.
RespondUnlessFailed(r) ==
    /\ r = Janitor => reply[r] = "OK"
    /\ Goes(r, "done", "idle")
    /\ Releases(r)
    /\ reply' = [reply EXCEPT ![r] = "NONE"]
    /\ followUps' = [followUps EXCEPT ![r] = {}]
    /\ UNCHANGED <<clock, catalog, holder, rows>>

\* The client has its answer; the task's memory is gone.
Respond(r) ==
    /\ Goes(r, "done", "idle")
    /\ Releases(r)
    /\ reply' = [reply EXCEPT ![r] = "NONE"]
    /\ followUps' = [followUps EXCEPT ![r] = {}]
    /\ UNCHANGED <<clock, catalog, holder, rows>>

Tick ==
    /\ clock < MaxClock
    /\ clock' = clock + 1
    /\ UNCHANGED <<catalog, holder, stage, rows, memory, answer>>

\* An operator publishes, edits or withdraws a policy.
Revise(p, state) ==
    /\ catalog[p].edition < MaxEdition
    /\ catalog' = [catalog EXCEPT ![p] = [state |-> state, edition |-> @.edition + 1]]
    /\ UNCHANGED <<clock, holder, stage, rows, memory, answer>>

\* The steps a task takes by itself.
Step(r) ==
    \/ Admit(r) \/ Refuse(r) \/ FindForDelete(r)
    \/ Sweep(r) \/ CreateOrGet(r)
    \/ Flush(r) \/ FlushMisses(r) \/ Load(r)
    \/ Commit(r)
    \/ Respond(r)

Next ==
    \/ \E r \in Requests, call \in Workload : Arrive(r, call)
    \/ WakeJanitor
    \/ \E r \in Tasks : Step(r) \/ Fail(r)
    \/ Tick
    \/ \E p \in Policies, state \in Revisions : Revise(p, state)

Spec == Init /\ [][Next]_vars

-----------------------------------------------------------------------------
(* Fairness.  The event loop runs every task, PostgreSQL grants a row lock *)
(* to its waiters in turn, and the janitor's loop outlives a failed        *)
(* clean-up and does not fail for ever.  Clients, operators and time are   *)
(* free, and requests may fail as often as they like.                      *)

Fairness ==
    /\ \A r \in Tasks : WF_vars(Step(r)) /\ SF_vars(Flush(r)) /\ SF_vars(Sweep(r))
    /\ WF_vars(WakeJanitor)
    /\ <>[][~Fail(Janitor)]_vars

FairSpec == Spec /\ Fairness

-----------------------------------------------------------------------------
(* Properties.                                                             *)

TypeOK ==
    /\ clock \in Nat
    /\ issued \subseteq Sessions
    /\ row \in [Sessions -> Row \cup {NoRow}]
    /\ fact \in [Sessions -> FactTable]
    /\ evaluation \in [Sessions -> [Policies -> Evaluation \cup {NoEvaluation}]]
    /\ catalog \in [Policies -> CatalogEntry]
    /\ holder \in [Sessions -> Tasks \cup {NoTask}]
    /\ stage \in [Tasks -> Stages]
    /\ job \in [Tasks -> Calls \cup {CleanUpJob}]
    /\ now \in [Tasks -> Nat]
    /\ loaded \in [Tasks -> Row \cup {NoRow}]
    /\ swept \in [Tasks -> SUBSET Sessions]
    /\ facts \in [Tasks -> CategoryDict]
    /\ offers \in [Tasks -> [Policies -> CatalogEntry]]
    /\ reply \in [Tasks -> Statuses]
    /\ followUps \in [Tasks -> SUBSET Bank]

\* A transaction past its flush holds the row lock of its session, which
\* exists until then, and the locks of the rows its clean-up deleted.  This is
\* what the API has instead of a lock of its own.
SessionsAreLocked ==
    \A r \in Tasks :
        /\ stage[r] \in {"locked", "loaded"} =>
               holder[Session(r)] = r /\ row[Session(r)] # NoRow
        /\ stage[r] \in {"swept", "admitted", "inserting", "locked"} =>
               \A s \in swept[r] : holder[s] = r

\* The facts a handler read are still the facts of the category it works on
\* when it commits: conflicts, questions and evaluations are decided on them.
SnapshotsAreCurrent ==
    \A r \in Tasks :
        stage[r] = "loaded" => facts[r] = CategoryFacts(fact[Session(r)], Category(r))

\* An ACTIVE evaluation was made from the facts the session has now, unless
\* its policy was edited since: put_fact and submit_answers mark evaluations
\* STALE and a reset deletes them, whatever order requests commit in.
ActiveEvaluationsAreCurrent ==
    \A s \in Sessions, p \in Policies :
        LET e == evaluation[s][p]
        IN  (e # NoEvaluation /\ e.state = "ACTIVE" /\ e.edition = catalog[p].edition)
                => e.snapshot = CategoryFacts(fact[s], PolicyCategory[p])

\* A session that was deleted or swept leaves no fact and no evaluation, and no
\* request that was under way brings one back.
NothingOutlivesItsSession ==
    \A s \in Sessions :
        row[s] = NoRow => fact[s] = NoFacts /\ evaluation[s] = NoEvaluations

\* Only PUT /facts may replace one answer by another when nothing depends on it:
\* submit_answers reports a conflict, even against an answer that was stored
\* by a request running at the same time.
LeafAnswersAreKept ==
    [][\A s \in Sessions, c \in Categories, key \in FactKeys :
          LET before == fact[s][<<c, key>>]
              after == fact'[s][<<c, key>>]
          IN  (before # NoFact /\ after \notin {before, NoFact}
                  /\ DependentFactKeys(c, key) = {})
                  => \E r \in Requests :
                        Kind(r) = "put" /\ stage[r] = "locked" /\ stage'[r] = "done"]_vars

\* The questions submit_answers sends back are open in the facts it stored:
\* the client is never asked again what it has just answered.
FollowUpsAreOpen ==
    \A r \in Requests :
        (stage[r] = "done" /\ reply[r] = "STORED")
            => followUps[r] \subseteq UnansweredRequired(Category(r), facts[r])

\* Every successful request takes effect at one instant.
AtomicSessions == Ledger!Spec

\* Every request that arrives is answered, though it waits for a row lock.
RequestsAreAnswered ==
    \A r \in Requests : stage[r] = "arrived" ~> stage[r] = "done"

\* A session is gone some time after its absolute expiry.
ExpiredSessionsAreSwept ==
    \A s \in Sessions : (row[s] # NoRow /\ row[s].expires <= clock) ~> row[s] = NoRow

-----------------------------------------------------------------------------
(* What the documentation and the tests say, and the code does not do.     *)

\* The follow-ups are the next questions of the facts that were stored: a
\* dependent answer that was deleted is asked for again
\* (docs/architecture/api-contracts.md, POST /answers).
FollowUpsAreTheNextQuestions ==
    \A r \in Requests :
        (stage[r] = "done" /\ reply[r] = "STORED")
            => followUps[r] = NextQuestions(Category(r), facts[r])

\* When a parent answer changes in a way that hides a question, its answer is
\* deleted in the same transaction (docs/architecture/api-contracts.md, POST
\* /answers).
HiddenAnswersAreDropped ==
    [][\A r \in Requests :
          (stage[r] = "loaded" /\ Kind(r) = "answers" /\ reply'[r] = "STORED")
              => LET c == Category(r)
                 IN  \A q \in VisibleQuestions(c, facts[r]) \ VisibleQuestions(c, facts'[r]) :
                         facts'[r][q.fact_key] = NoFact]_vars

\* The approved rules of a policy reach the evaluation when it also has
\* unapproved ones (backend/tests/unit/test_repository_approval.py).
ApprovedRulesReachEvaluation ==
    \A r \in Requests : stage[r] = "done" => reply[r] # "INTEGRITY_ERROR"

=============================================================================
