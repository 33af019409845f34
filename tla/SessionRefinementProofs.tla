---------------------- MODULE SessionRefinementProofs ----------------------
(***************************************************************************)
(* SessionStore implements SessionLedger: the transactions of concurrent   *)
(* requests take effect one at a time, each on the rows as they are then.  *)
(***************************************************************************)
EXTENDS SessionStoreProofs

-----------------------------------------------------------------------------
(* The definitions the instance brings along are those of the store.       *)

LEMMA SameConflicts ==
    ASSUME NEW c, NEW existing, NEW batch
    PROVE  Ledger!Conflicts(c, existing, batch) = Conflicts(c, existing, batch)
  BY ZenonT(30)
  DEF Ledger!Cardinality, Cardinality, Ledger!DependentFactKeys, DependentFactKeys,
      Ledger!Descendants, Descendants, Ledger!ChildrenOf, ChildrenOf, Ledger!DependsOn, DependsOn,
      Ledger!Conflicts, Conflicts, Ledger!IsLastFor, IsLastFor, Ledger!IsChange, IsChange

LEMMA SameAnswers ==
    ASSUME NEW table, NEW c, NEW existing, NEW batch
    PROVE  Ledger!FactsAfterAnswers(table, c, existing, batch)
               = FactsAfterAnswers(table, c, existing, batch)
  BY ZenonT(30)
  DEF Ledger!Cardinality, Cardinality, Ledger!DependentFactKeys, DependentFactKeys,
      Ledger!Descendants, Descendants, Ledger!ChildrenOf, ChildrenOf, Ledger!DependsOn, DependsOn,
      Ledger!IsChange, IsChange, Ledger!FactsAfterAnswers, FactsAfterAnswers,
      Ledger!Stores, Stores, Ledger!Decides, Decides, Ledger!Forgets, Forgets,
      Ledger!ConditionKeys, ConditionKeys

LEMMA SameData ==
    /\ Ledger!NoFacts = NoFacts
    /\ Ledger!NoEvaluations = NoEvaluations
    /\ \A r, t : Ledger!Refreshed(r, t) = Refreshed(r, t) /\ Ledger!Expired(r, t) = Expired(r, t)
    /\ \A t : Ledger!NewRow(t) = NewRow(t)
    /\ \A table, c : /\ Ledger!CategoryFacts(table, c) = CategoryFacts(table, c)
                     /\ Ledger!FactsAfterReset(table, c) = FactsAfterReset(table, c)
    /\ \A table : Ledger!MarkedStale(table) = MarkedStale(table)
    /\ \A table, c, dict, read :
           Ledger!EvaluationsAfterEvaluate(table, c, dict, read)
               = EvaluationsAfterEvaluate(table, c, dict, read)
    /\ \A table, c, entries :
           Ledger!EvaluationsAfterReset(table, c, entries) = EvaluationsAfterReset(table, c, entries)
  BY DEF Ledger!NoFacts, NoFacts, Ledger!NoEvaluations, NoEvaluations, Ledger!Refreshed, Refreshed,
         Ledger!Earlier, Earlier, Ledger!Expired, Expired, Ledger!NewRow, NewRow,
         Ledger!CategoryFacts, CategoryFacts, Ledger!FactsAfterReset, FactsAfterReset,
         Ledger!ResetKeys, ResetKeys, Ledger!CategoryQuestions, CategoryQuestions,
         Ledger!ConditionKeys, ConditionKeys, Ledger!MarkedStale, MarkedStale,
         Ledger!EvaluationsAfterEvaluate, EvaluationsAfterEvaluate, Ledger!PoliciesIn, PoliciesIn,
         Ledger!EvaluationsAfterReset, EvaluationsAfterReset

-----------------------------------------------------------------------------
(* Sessions in time.                                                       *)

\* A task that has found its session has not outlived it and did not sweep it;
\* the rows a clean-up swept are expired rows until it ends.
TaskTimesOK(r) ==
    /\ now[r] <= clock
    /\ stage[r] \in {"admitted", "locked", "loaded"} =>
           /\ Session(r) \in issued
           /\ row[Session(r)] # NoRow => row[Session(r)].expires = loaded[r].expires
           /\ Kind(r) # "delete" => now[r] < loaded[r].expires
           /\ Session(r) \notin swept[r]
    /\ stage[r] \in {"swept", "admitted", "inserting", "locked"} =>
           \A s \in swept[r] : row[s] # NoRow /\ Expired(row[s], now[r])

TimesOK ==
    /\ \A s \in Sessions : row[s] # NoRow => s \in issued
    /\ \A p \in Policies : catalog[p].edition <= MaxEdition
    /\ \A r \in Tasks : TaskTimesOK(r)

\* What a step may do to the rows.
RowsEvolve(r) ==
    /\ clock' = clock
    /\ issued \subseteq issued'
    /\ \A s \in Sessions :
          /\ row'[s] # NoRow => s \in issued'
          /\ s \in issued /\ row[s] = NoRow => row'[s] = NoRow
          /\ row[s] # NoRow /\ row'[s] # NoRow => row'[s].expires = row[s].expires
          /\ s \in issued /\ holder[s] # r => row'[s] = row[s]

LEMMA SavedEvolves ==
    ASSUME StoreInv, TimesOK, NEW r \in Tasks, stage[r] \in {"locked", "loaded"},
           NEW c \in Categories \cup {NoCategory}, SavesRow(r, c), issued' = issued, clock' = clock
    PROVE  RowsEvolve(r)
  <1>1. Session(r) \in Sessions /\ holder[Session(r)] = r /\ row[Session(r)] \in Row
    BY Working
  <1>2. row' = [row EXCEPT ![Session(r)] = Saved(r, c)] /\ row \in [Sessions -> Row \cup {NoRow}]
    BY DEF SavesRow, StoreInv, TypeOK
  <1>3. Saved(r, c).expires = row[Session(r)].expires
    BY DEF Saved, Flushed
  <1> QED  BY <1>1, <1>2, <1>3, RowAssumption DEF RowsEvolve, TimesOK

LEMMA StepEvolves ==
    ASSUME StoreInv, TimesOK, NEW r \in Tasks, Step(r) \/ Fail(r)
    PROVE  RowsEvolve(r)
  <1>0. RowsTyped /\ MemoryTyped
    BY TypeParts DEF StoreInv
  <1>1. CASE UNCHANGED <<clock, rows>>
    BY <1>0, <1>1 DEF rows, RowsEvolve, TimesOK
  <1>2. CASE CommitAccess(r)
    <2>1. \E c \in Categories \cup {NoCategory} : SavesRow(r, c)
      BY <1>2, Working, CallTypes DEF CommitAccess, Kind
    <2> QED  BY <1>2, <2>1, SavedEvolves DEF CommitAccess
  <1>3. CASE CommitReset(r)
    <2>1. job[r].category \in Categories
      BY <1>3, Working, CallTypes DEF CommitReset, Kind
    <2> QED  BY <1>3, <2>1, SavedEvolves DEF CommitReset
  <1>4. CASE CommitNext(r) \/ CommitPut(r) \/ CommitConflict(r) \/ CommitAnswers(r)
             \/ CommitEvaluate(r)
    BY <1>4, Working, SavedEvolves
    DEF CommitNext, CommitPut, CommitConflict, CommitAnswers, CommitEvaluate
  <1>5. CASE CommitDelete(r)
    BY <1>0, <1>5, Working DEF CommitDelete, RowsEvolve, RowsTyped, TimesOK
  <1>6. CASE CommitCleanUp(r)
    BY <1>0, <1>6, SweptLocked DEF CommitCleanUp, RowsEvolve, RowsTyped, TimesOK
  <1>7. CASE CommitRenewal(r)
    <2>1. Saved(r, Category(r)).expires = row[Session(r)].expires
      BY DEF Saved, Flushed
    <2>2. row[Session(r)] \in Row /\ holder[Session(r)] = r
      BY <1>7, Working DEF CommitRenewal
    <2> QED
      BY <1>0, <1>7, <2>1, <2>2, SweptLocked, RowAssumption
      DEF CommitRenewal, RowsEvolve, RowsTyped, TimesOK
  <1>8. ASSUME NEW s \in Sessions, CommitInsert(r, s)
        PROVE  RowsEvolve(r)
    <2>1. row[s] = NoRow /\ s \notin issued
      BY <1>8 DEF CommitInsert, TimesOK
    <2> QED
      BY <1>0, <1>8, <2>1, SweptLocked DEF CommitInsert, RowsEvolve, RowsTyped, TimesOK
  <1> QED
    BY <1>1, <1>2, <1>3, <1>4, <1>5, <1>6, <1>7, <1>8
    DEF Step, Fail, Commit, Admit, Refuse, FindForDelete, Sweep, CreateOrGet, Flush,
        FlushMisses, Load, Respond, EvaluateBreaks, RollsBack

\* The steps of one task keep what the others know about their sessions.
LEMMA OthersKeepTimes ==
    ASSUME StoreInv, TimesOK, NEW r \in Tasks, NEW x \in Tasks \ {r}, RowsEvolve(r),
           Untouched(x), swept'[x] = swept[x], now'[x] = now[x]
    PROVE  TaskTimesOK(x)'
  <1>0. /\ Session(x)' = Session(x) /\ Kind(x)' = Kind(x) /\ swept[x] \subseteq Sessions
        /\ stage'[x] = stage[x] /\ loaded'[x] = loaded[x] /\ clock' = clock
        /\ TaskTimesOK(x)
    BY DEF Untouched, Session, Kind, StoreInv, TypeOK, TimesOK, RowsEvolve
  <1>1. ASSUME stage[x] \in {"admitted", "locked", "loaded"}
        PROVE  /\ Session(x) \in issued'
               /\ row'[Session(x)] # NoRow => row'[Session(x)].expires = loaded[x].expires
    <2>1. Session(x) \in Sessions /\ Session(x) \in issued
      BY <1>0, <1>1, CallTypes DEF StoreInv, TasksOK, Session, TaskTimesOK
    <2> QED  BY <1>0, <1>1, <2>1 DEF RowsEvolve, TaskTimesOK
  <1>2. ASSUME stage[x] \in {"swept", "admitted", "inserting", "locked"}, NEW s \in swept[x]
        PROVE  row'[s] # NoRow /\ Expired(row'[s], now[x])
    <2>1. s \in Sessions /\ row[s] # NoRow /\ Expired(row[s], now[x]) /\ s \in issued
      BY <1>0, <1>2 DEF TaskTimesOK, TimesOK
    <2>2. holder[s] = x
      BY <1>2 DEF StoreInv, SessionsAreLocked
    <2> QED  BY <2>1, <2>2 DEF RowsEvolve
  <1> QED  BY <1>0, <1>1, <1>2 DEF TaskTimesOK

\* What a task remembers of its clean-up and of the time is its own.
LEMMA TimesFrame ==
    ASSUME StoreInv, NEW r \in Tasks, Step(r) \/ Fail(r)
    PROVE  \A x \in Tasks \ {r} : swept'[x] = swept[x] /\ now'[x] = now[x]
  <1> DEFINE Frame == \A x \in Tasks \ {r} : swept'[x] = swept[x] /\ now'[x] = now[x]
  <1>0. MemoryTyped
    BY TypeParts DEF StoreInv
  <1>1. CASE Admit(r) \/ Sweep(r) \/ CreateOrGet(r) \/ Flush(r) \/ Load(r) \/ Respond(r)
    BY <1>0, <1>1
    DEF Admit, Sweep, CreateOrGet, Flush, Load, Respond, Releases, memory, MemoryTyped
  <1>2. ASSUME NEW status, Ends(r, status)
        PROVE  Frame
    BY <1>0, <1>2 DEF Ends, Releases, MemoryTyped
  <1>3. CASE Refuse(r) \/ FlushMisses(r) \/ EvaluateBreaks(r) \/ Fail(r)
    BY <1>2, <1>3 DEF Refuse, FlushMisses, EvaluateBreaks, Fail, RollsBack
  <1>4. CASE FindForDelete(r)
    BY <1>0, <1>2, <1>4 DEF FindForDelete, RollsBack, MemoryTyped
  <1>5. CASE CommitAnswers(r)
    BY <1>0, <1>5 DEF CommitAnswers, MemoryTyped
  <1>6. CASE \/ CommitAccess(r) \/ CommitNext(r) \/ CommitPut(r) \/ CommitReset(r)
             \/ CommitConflict(r) \/ CommitEvaluate(r) \/ CommitDelete(r) \/ CommitCleanUp(r)
             \/ CommitRenewal(r) \/ \E s \in Sessions : CommitInsert(r, s)
    BY <1>2, <1>6
    DEF CommitAccess, CommitNext, CommitPut, CommitReset, CommitConflict, CommitEvaluate,
        CommitDelete, CommitCleanUp, CommitRenewal, CommitInsert
  <1> QED
    BY <1>1, <1>3, <1>4, <1>5, <1>6 DEF Step, Commit

LEMMA ExpiredLater ==
    ASSUME NEW entry \in Row, NEW t \in Nat, NEW u \in Nat, t <= u, Expired(entry, t)
    PROVE  Expired(entry, u)
  BY DEF Row, Expired

\* A task that has just found its session, swept, or read knows what it relies on.
LEMMA OwnTimes ==
    ASSUME StoreInv, TimesOK, NEW r \in Tasks, Step(r) \/ Fail(r)
    PROVE  TaskTimesOK(r)'
  <1>0. /\ RowsTyped /\ MemoryTyped /\ clock \in Nat /\ TaskTimesOK(r) /\ now[r] \in Nat
        /\ TasksOK
    BY TypeParts DEF StoreInv, TimesOK, MemoryTyped
  <1>1. clock' = clock
    BY StepEvolves DEF RowsEvolve
  <1>2. ASSUME stage'[r] \in {"done", "idle"}, now'[r] = 0
        PROVE  TaskTimesOK(r)'
    BY <1>0, <1>1, <1>2 DEF TaskTimesOK
  <1>3. ASSUME NEW status, Ends(r, status)
        PROVE  TaskTimesOK(r)'
    BY <1>0, <1>2, <1>3 DEF Ends, Replies, Releases, MemoryTyped
  <1>4. CASE Admit(r)
    <2>1. swept[r] = {} /\ Session(r) \in Sessions /\ row[Session(r)] \in Row
      <3>1. job[r] \in Calls
        BY <1>0, <1>4 DEF Admit, MemoryTyped, CleanUpJob, NeedsSession, NeedsCategory, Kind
      <3> QED
        BY <1>0, <1>4, <3>1, CallTypes DEF Admit, Goes, TasksOK, Found, Session, RowsTyped
    <2>2. Session(r) \in issued /\ now[r] < row[Session(r)].expires
      BY <1>0, <1>4, <2>1 DEF Admit, Found, TimesOK, Expired, Row
    <2>3. /\ row' = row /\ issued' = issued /\ now' = now /\ swept' = swept /\ job' = job
          /\ loaded'[r] = row[Session(r)]
      BY <1>0, <1>4 DEF Admit, rows, MemoryTyped
    <2> QED  BY <1>0, <1>1, <2>1, <2>2, <2>3 DEF TaskTimesOK, Session
  <1>5. CASE FindForDelete(r)
    <2>1. CASE row[Session(r)] = NoRow
      BY <1>3, <1>5, <2>1 DEF FindForDelete, RollsBack
    <2>2. CASE row[Session(r)] # NoRow
      <3>1. swept[r] = {} /\ Session(r) \in Sessions /\ Session(r) \in issued
        <4>1. job[r] \in Calls
          BY <1>0, <1>5 DEF FindForDelete, MemoryTyped, CleanUpJob, Kind
        <4> QED
          BY <1>0, <1>5, <2>2, <4>1, CallTypes DEF FindForDelete, TasksOK, TimesOK, Session
      <3>2. /\ row' = row /\ issued' = issued /\ now' = now /\ swept' = swept /\ job' = job
            /\ loaded'[r] = row[Session(r)] /\ Kind(r) = "delete"
        BY <1>0, <1>5, <2>2 DEF FindForDelete, rows, MemoryTyped
      <3> QED  BY <1>0, <1>1, <3>1, <3>2 DEF TaskTimesOK, Session, Kind
    <2> QED  BY <2>1, <2>2
  <1>6. CASE Sweep(r)
    <2>1. /\ row' = row /\ now' = now /\ swept'[r] = ExpiredRows(now[r])
          /\ stage'[r] = "swept"
      BY <1>0, <1>6 DEF Sweep, Goes, rows, MemoryTyped
    <2> QED  BY <1>0, <1>1, <2>1 DEF TaskTimesOK, ExpiredRows
  <1>7. CASE CreateOrGet(r)
    <2>1. /\ row' = row /\ issued' = issued /\ swept' = swept /\ now'[r] = clock /\ job' = job
          /\ stage[r] = "swept" /\ stage'[r] \in {"admitted", "inserting"}
          /\ Kind(r) = "create"
      BY <1>0, <1>7 DEF CreateOrGet, Goes, rows, MemoryTyped
    <2>2. ASSUME NEW s \in swept[r]
          PROVE  row[s] # NoRow /\ Expired(row[s], clock)
      <3>1. s \in Sessions /\ row[s] # NoRow /\ Expired(row[s], now[r])
        BY <1>0, <2>1, <2>2 DEF TaskTimesOK, MemoryTyped
      <3>2. row[s] \in Row /\ now[r] <= clock
        BY <1>0, <3>1 DEF RowsTyped, TaskTimesOK
      <3> QED  BY <1>0, <3>1, <3>2, ExpiredLater
    <2>3. ASSUME stage'[r] = "admitted"
          PROVE  /\ Session(r) \in issued /\ Session(r) \notin swept[r]
                 /\ loaded'[r] = row[Session(r)] /\ clock < row[Session(r)].expires
      <3>1. Reusable(r) /\ loaded'[r] = row[Session(r)]
        BY <1>0, <1>7, <2>3 DEF CreateOrGet, Goes, MemoryTyped
      <3>2. job[r] \in Calls
        BY <1>0, <2>1 DEF MemoryTyped, CleanUpJob, Kind
      <3>3. row[Session(r)] \in Row /\ Session(r) \in Sessions
        BY <1>0, <3>1, <3>2, CallTypes DEF Reusable, RowsTyped, Session
      <3> QED  BY <1>0, <3>1, <3>3 DEF Reusable, Expired, Row, TimesOK
    <2> QED  BY <1>0, <1>1, <2>1, <2>2, <2>3 DEF TaskTimesOK, Session
  <1>8. CASE Flush(r)
    <2>1. /\ row' = row /\ issued' = issued /\ now' = now /\ swept' = swept /\ job' = job
          /\ loaded' = loaded /\ stage[r] = "admitted" /\ stage'[r] = "locked"
      BY <1>0, <1>8 DEF Flush, Goes, rows, memory, MemoryTyped
    <2> QED  BY <1>0, <1>1, <2>1 DEF TaskTimesOK, Session, Kind
  <1>9. CASE Load(r)
    <2>1. /\ row' = row /\ issued' = issued /\ now' = now /\ swept' = swept /\ job' = job
          /\ loaded' = loaded /\ stage[r] = "locked" /\ stage'[r] = "loaded"
      BY <1>0, <1>9 DEF Load, Goes, rows, MemoryTyped
    <2> QED  BY <1>0, <1>1, <2>1 DEF TaskTimesOK, Session, Kind
  <1>10. CASE Respond(r)
    BY <1>0, <1>2, <1>10 DEF Respond, Goes, Releases, MemoryTyped
  <1>11. CASE CommitAnswers(r)
    BY <1>0, <1>2, <1>11 DEF CommitAnswers, Replies, MemoryTyped
  <1>12. CASE Refuse(r) \/ FlushMisses(r) \/ EvaluateBreaks(r) \/ Fail(r)
    BY <1>3, <1>12 DEF Refuse, FlushMisses, EvaluateBreaks, Fail, RollsBack
  <1>13. CASE \/ CommitAccess(r) \/ CommitNext(r) \/ CommitPut(r) \/ CommitReset(r)
              \/ CommitConflict(r) \/ CommitEvaluate(r) \/ CommitDelete(r) \/ CommitCleanUp(r)
              \/ CommitRenewal(r) \/ \E s \in Sessions : CommitInsert(r, s)
    BY <1>3, <1>13
    DEF CommitAccess, CommitNext, CommitPut, CommitReset, CommitConflict, CommitEvaluate,
        CommitDelete, CommitCleanUp, CommitRenewal, CommitInsert
  <1> QED
    BY <1>4, <1>5, <1>6, <1>7, <1>8, <1>9, <1>10, <1>11, <1>12, <1>13 DEF Step, Commit

LEMMA StepKeepsTimes ==
    ASSUME StoreInv, TimesOK, NEW r \in Tasks, Step(r) \/ Fail(r)
    PROVE  TimesOK'
  <1>1. RowsEvolve(r)
    BY StepEvolves
  <1>2. catalog' = catalog
    BY StepFrame
  <1>3. ASSUME NEW x \in Tasks \ {r}
        PROVE  TaskTimesOK(x)'
    <2>1. Untouched(x) /\ swept'[x] = swept[x] /\ now'[x] = now[x]
      BY StepFrame, TimesFrame
    <2> QED  BY <1>1, <2>1, OthersKeepTimes
  <1>4. TaskTimesOK(r)'
    BY OwnTimes
  <1> QED  BY <1>1, <1>2, <1>3, <1>4 DEF TimesOK, RowsEvolve

\* The steps of clients, of time and of operators.
LEMMA WorldKeepsTimes ==
    ASSUME StoreInv, TimesOK,
           \/ \E r \in Requests, call \in Workload : Arrive(r, call)
           \/ WakeJanitor
           \/ Tick
           \/ \E p \in Policies, state \in Revisions : Revise(p, state)
           \/ UNCHANGED vars
    PROVE  TimesOK'
  <1>0. MemoryTyped /\ clock \in Nat /\ catalog \in [Policies -> CatalogEntry]
    BY TypeParts DEF StoreInv
  <1>1. ASSUME NEW r \in Requests, NEW call \in Workload, Arrive(r, call)
        PROVE  TimesOK'
    BY <1>0, <1>1
    DEF Arrive, Goes, rows, MemoryTyped, Tasks, TimesOK, TaskTimesOK, Session, Kind
  <1>2. CASE WakeJanitor
    BY <1>0, <1>2
    DEF WakeJanitor, Goes, rows, MemoryTyped, Tasks, TimesOK, TaskTimesOK, Session, Kind
  <1>3. CASE Tick
    <2>1. \A r \in Tasks : now[r] \in Nat
      BY <1>0 DEF MemoryTyped
    <2> QED
      BY <1>0, <1>3, <2>1 DEF Tick, rows, memory, TimesOK, TaskTimesOK, Session, Kind
  <1>4. ASSUME NEW p \in Policies, NEW state \in Revisions, Revise(p, state)
        PROVE  TimesOK'
    <2>1. \A q \in Policies : catalog'[q].edition <= MaxEdition
      BY <1>0, <1>4, StoreAssumption DEF Revise, TimesOK, CatalogEntry
    <2> QED
      BY <1>4, <2>1 DEF Revise, rows, memory, TimesOK, TaskTimesOK, Session, Kind
  <1>5. CASE UNCHANGED vars
    BY <1>5 DEF vars, rows, memory, TimesOK, TaskTimesOK, Session, Kind
  <1> QED  BY <1>1, <1>2, <1>3, <1>4, <1>5

-----------------------------------------------------------------------------
(* What a step does, in the words of the ledger.                           *)

RefinementInv == EvaluationInv /\ TimesOK

\* The time a task took is one of those the ledger allows.
LEMMA TaskTime ==
    ASSUME StoreInv, TimesOK, NEW r \in Tasks
    PROVE  now[r] \in 0..clock
  BY DEF StoreInv, TypeOK, TimesOK, TaskTimesOK

\* A flushed session is one the ledger's requests leave behind.
LEMMA SavedTouches ==
    ASSUME StoreInv, TimesOK, NEW r \in Tasks, stage[r] \in {"locked", "loaded"},
           Kind(r) # "delete", NEW c
    PROVE  LET s == Session(r)
               d == IF c = Category(r) THEN row[s].category ELSE c
           IN  /\ now[r] <= clock
               /\ now[r] < row[s].expires
               /\ Saved(r, c) = [expires |-> row[s].expires, idle |-> Saved(r, c).idle, category |-> d]
               /\ Saved(r, c).idle \in Ledger!IdleAfter(row[s], now[r])
  <1> DEFINE s == Session(r)
             u == [Refreshed(loaded[r], now[r]) EXCEPT !.category = c]
  <1>1. row[s] \in Row /\ loaded[r] \in Row /\ row[s] # NoRow
    BY Working, RowAssumption
  <1>2. row[s].expires = loaded[r].expires /\ now[r] < loaded[r].expires /\ now[r] <= clock
        /\ now[r] \in Nat
    BY <1>1, TaskTime DEF TimesOK, TaskTimesOK, StoreInv, TypeOK
  <1>3. u.idle = Earlier(row[s].expires, now[r] + IdleTTL) /\ u.category = c
    BY <1>1, <1>2 DEF Row, Refreshed
  <1>4. Ledger!Refreshed(row[s], now[r]).idle = Earlier(row[s].expires, now[r] + IdleTTL)
    BY <1>1, SameData DEF Row, Refreshed
  <1>5. Saved(r, c).idle \in Ledger!IdleAfter(row[s], now[r])
    <2>1. CASE loaded[r].idle = loaded[r].expires /\ u.idle = loaded[r].expires
      <3>1. now[r] + IdleTTL >= row[s].expires
        BY <1>1, <1>2, <1>3, <2>1, SessionDataAssumption DEF Earlier, Row
      <3>2. Saved(r, c).idle = row[s].idle
        BY <2>1 DEF Saved, Flushed
      <3> QED  BY <3>1, <3>2 DEF Ledger!IdleAfter
    <2>2. CASE ~(loaded[r].idle = loaded[r].expires /\ u.idle = loaded[r].expires)
      <3>1. Saved(r, c).idle = u.idle
        BY <2>2 DEF Saved, Flushed
      <3> QED  BY <1>3, <1>4, <3>1 DEF Ledger!IdleAfter
    <2> QED  BY <2>1, <2>2
  <1>6. Saved(r, c) = [expires |-> row[s].expires, idle |-> Saved(r, c).idle,
                       category |-> IF c = Category(r) THEN row[s].category ELSE c]
    BY <1>3 DEF Saved, Flushed, Category
  <1> QED  BY <1>2, <1>5, <1>6

LEMMA SavedRowTouches ==
    ASSUME StoreInv, TimesOK, NEW r \in Tasks, stage[r] \in {"locked", "loaded"},
           Kind(r) # "delete", NEW c, SavesRow(r, c)
    PROVE  Ledger!Touch(Session(r), now[r], IF c = Category(r) THEN row[Session(r)].category ELSE c)
  BY SavedTouches DEF SavesRow, Ledger!Touch

LEMMA CascadesRemoves ==
    ASSUME NEW S, Cascades(S)
    PROVE  Ledger!Remove(S)
  BY SameData DEF Cascades, Ledger!Remove

\* A commit is one step of the ledger, made by the session's requests ...
LEMMA RequestRefines ==
    ASSUME RefinementInv, NEW r \in Tasks,
           \/ CommitAccess(r) \/ CommitNext(r) \/ CommitConflict(r) \/ CommitPut(r)
           \/ CommitReset(r) \/ CommitAnswers(r) \/ CommitEvaluate(r)
    PROVE  Ledger!RequestStep(Session(r), now[r])
  <1> DEFINE s == Session(r)
             t == now[r]
             Touches(c) == Ledger!Touch(s, t, IF c = Category(r) THEN row[s].category ELSE c)
  <1>0. StoreInv /\ TimesOK /\ RowsTyped /\ MemoryTyped
    BY TypeParts DEF RefinementInv, EvaluationInv, SnapshotInv, StoreInv
  <1>1. stage[r] \in {"locked", "loaded"} /\ Kind(r) # "delete"
    BY DEF CommitAccess, CommitNext, CommitConflict, CommitPut, CommitReset, CommitAnswers,
           CommitEvaluate
  <1>2. /\ s \in Sessions /\ job[r] \in Calls /\ row[s] # NoRow
        /\ Category(r) \in Categories \cup {NoCategory}
    BY <1>0, <1>1, Working, RowAssumption
  <1>3. ASSUME NEW c, SavesRow(r, c)
        PROVE  Touches(c)
    BY <1>0, <1>1, <1>3, SavedRowTouches
  <1>4. stage[r] = "loaded" =>
            Category(r) \in Categories /\ facts[r] = CategoryFacts(fact[s], Category(r))
    BY <1>0 DEF StoreInv, TasksOK, RefinementInv, EvaluationInv, SnapshotInv, SnapshotsAreCurrent
  <1>5. CASE CommitAccess(r) \/ CommitNext(r) \/ CommitConflict(r)
    <2>1. PICK c \in Categories \cup {Category(r)} : SavesRow(r, c)
      <3>1. Kind(r) = "select" => job[r].category \in Categories
        BY <1>2, CallTypes DEF Kind
      <3> QED  BY <1>5, <3>1 DEF CommitAccess, CommitNext, CommitConflict
    <2>2. UNCHANGED <<clock, issued, fact, evaluation, catalog>>
      BY <1>5 DEF CommitAccess, CommitNext, CommitConflict
    <2>3. \E d \in Categories \cup {row[s].category} : Ledger!Access(s, t, d)
      BY <1>3, <2>1, <2>2 DEF Ledger!Access
    <2> QED  BY <1>2, <2>3 DEF Ledger!RequestStep
  <1>6. CASE CommitPut(r)
    <2>1. job[r].key \in Ledger!ConditionKeys /\ job[r].value \in Values
      BY <1>2, <1>6, CallTypes DEF CommitPut, Kind, ConditionKeys, Ledger!ConditionKeys
    <2>2. Ledger!Touch(s, t, row[s].category)
      BY <1>3, <1>6 DEF CommitPut
    <2>3. Ledger!PutFact(s, t, job[r].key, job[r].value)
      BY <1>0, <1>2, <1>6, <2>2, SameData DEF CommitPut, Ledger!PutFact, RowsTyped
    <2> QED  BY <1>2, <2>1, <2>3 DEF Ledger!RequestStep
  <1>7. CASE CommitReset(r)
    <2>1. job[r].category \in Categories
      BY <1>2, <1>7, CallTypes DEF CommitReset, Kind
    <2>2. \E d \in {job[r].category, row[s].category} : Ledger!Touch(s, t, d)
      BY <1>3, <1>7 DEF CommitReset
    <2>3. Ledger!Reset(s, t, job[r].category)
      BY <1>0, <1>2, <1>7, <2>2, SameData DEF CommitReset, Ledger!Reset, RowsTyped
    <2> QED  BY <1>2, <2>1, <2>3 DEF Ledger!RequestStep
  <1>8. CASE CommitAnswers(r)
    <2> DEFINE c == Category(r)
               batch == job[r].batch
    <2>1. /\ batch \in AnswerBatches /\ c \in Categories
          /\ facts[r] = Ledger!CategoryFacts(fact[s], c)
      BY <1>2, <1>4, <1>8, CallTypes, SameData DEF CommitAnswers, Kind
    <2>2. Ledger!Touch(s, t, row[s].category)
      BY <1>3, <1>8 DEF CommitAnswers
    <2>3. Ledger!Conflicts(c, facts[r], batch) = {}
      BY <1>8, SameConflicts DEF CommitAnswers
    <2>4. fact' = [fact EXCEPT ![s] = Ledger!FactsAfterAnswers(fact[s], c, facts[r], batch)]
      BY <1>0, <1>2, <1>8, SameAnswers DEF CommitAnswers, RowsTyped
    <2>5. /\ evaluation' = [evaluation EXCEPT ![s] = Ledger!MarkedStale(evaluation[s])]
          /\ UNCHANGED <<clock, issued, catalog>>
      BY <1>0, <1>2, <1>8, SameData DEF CommitAnswers, RowsTyped
    <2>6. Ledger!SubmitAnswers(s, t, c, batch)
      BY <2>1, <2>2, <2>3, <2>4, <2>5 DEF Ledger!SubmitAnswers
    <2> QED  BY <1>2, <2>1, <2>6 DEF Ledger!RequestStep
  <1>9. CASE CommitEvaluate(r)
    <2> DEFINE c == Category(r)
    <2>1. c \in Categories /\ facts[r] = Ledger!CategoryFacts(fact[s], c) /\ stage[r] = "loaded"
      BY <1>4, <1>9, SameData DEF CommitEvaluate
    <2>2. Ledger!Touch(s, t, row[s].category)
      BY <1>3, <1>9 DEF CommitEvaluate
    <2>3. offers[r] \in [Policies -> CatalogEntry] /\ catalog \in [Policies -> CatalogEntry]
      BY <1>0 DEF MemoryTyped, StoreInv, TypeOK
    <2>4. ASSUME NEW p \in Policies
          PROVE  /\ offers[r][p].edition \in 0..MaxEdition
                 /\ offers[r][p] = catalog[p] \/ offers[r][p].edition < catalog[p].edition
      <3>1. offers[r][p].edition \in Nat /\ catalog[p].edition \in Nat
        BY <2>3 DEF CatalogEntry
      <3>2. /\ offers[r][p].edition <= catalog[p].edition
            /\ offers[r][p].edition = catalog[p].edition => offers[r][p] = catalog[p]
            /\ catalog[p].edition <= MaxEdition
        BY <1>0, <2>1 DEF RefinementInv, EvaluationInv, OffersOK, TimesOK
      <3> QED  BY <3>1, <3>2, StoreAssumption
    <2>5. offers[r] \in Ledger!Catalogs
      BY <2>3, <2>4 DEF Ledger!Catalogs, CatalogEntry, Ledger!PolicyStates, PolicyStates
    <2>6. evaluation' = [evaluation EXCEPT ![s] =
              Ledger!EvaluationsAfterEvaluate(evaluation[s], c, facts[r], offers[r])]
          /\ UNCHANGED <<clock, issued, fact, catalog>>
      BY <1>0, <1>2, <1>9, SameData DEF CommitEvaluate, RowsTyped
    <2>7. Ledger!Evaluate(s, t, c, offers[r])
      BY <2>1, <2>2, <2>4, <2>6 DEF Ledger!Evaluate
    <2> QED  BY <1>2, <2>1, <2>5, <2>7 DEF Ledger!RequestStep
  <1> QED  BY <1>5, <1>6, <1>7, <1>8, <1>9

\* ... or by clean-ups.
LEMMA SweptMayGo ==
    ASSUME RefinementInv, NEW r \in Tasks, stage[r] \in {"swept", "inserting", "locked"}
    PROVE  swept[r] \in SUBSET Sessions /\ Ledger!MaySweep(swept[r], now[r])
  <1>1. swept[r] \in SUBSET Sessions
    BY DEF RefinementInv, EvaluationInv, SnapshotInv, StoreInv, TypeOK
  <1>2. now[r] <= clock /\ \A s \in swept[r] : row[s] # NoRow /\ Expired(row[s], now[r])
    BY DEF RefinementInv, TimesOK, TaskTimesOK
  <1> QED  BY <1>1, <1>2, SameData DEF Ledger!MaySweep

LEMMA CleanUpRefines ==
    ASSUME RefinementInv, NEW r \in Tasks,
           CommitCleanUp(r) \/ CommitRenewal(r) \/ \E s \in Sessions : CommitInsert(r, s)
    PROVE  \E S \in SUBSET Sessions : Ledger!CleanUpStep(S, now[r])
  <1>0. StoreInv /\ TimesOK /\ RowsTyped
    BY TypeParts DEF RefinementInv, EvaluationInv, SnapshotInv, StoreInv
  <1>1. stage[r] \in {"swept", "inserting", "locked"}
    BY DEF CommitCleanUp, CommitRenewal, CommitInsert
  <1>2. swept[r] \in SUBSET Sessions /\ Ledger!MaySweep(swept[r], now[r])
    BY <1>1, SweptMayGo
  <1>3. now[r] \in 0..clock /\ now[r] <= clock
    BY <1>0, TaskTime DEF TimesOK, TaskTimesOK
  <1>4. Ledger!Remove(swept[r])
    BY CascadesRemoves DEF CommitCleanUp, CommitRenewal, CommitInsert
  <1>5. CASE CommitCleanUp(r)
    <2>1. Ledger!CleanUp(swept[r], now[r])
      BY <1>2, <1>4, <1>5 DEF CommitCleanUp, Ledger!CleanUp
    <2> QED  BY <1>2, <2>1 DEF Ledger!CleanUpStep
  <1>6. CASE CommitRenewal(r)
    <2> DEFINE s == Session(r)
    <2>1. stage[r] = "locked" /\ Kind(r) = "create"
      BY <1>6 DEF CommitRenewal
    <2>2. s \in Sessions /\ row[s] \in Row /\ row[s] # NoRow /\ s \notin swept[r]
      BY <1>0, <2>1, Working, RowAssumption DEF TimesOK, TaskTimesOK
    <2>3. PICK i \in Ledger!IdleAfter(row[s], now[r]) :
              /\ Saved(r, Category(r)) = [row[s] EXCEPT !.idle = i]
              /\ now[r] < row[s].expires
      <3>1. /\ now[r] < row[s].expires
            /\ Saved(r, Category(r)) = [expires |-> row[s].expires,
                   idle |-> Saved(r, Category(r)).idle, category |-> row[s].category]
            /\ Saved(r, Category(r)).idle \in Ledger!IdleAfter(row[s], now[r])
        BY <1>0, <2>1, SavedTouches
      <3> QED  BY <2>2, <3>1 DEF Row
    <2>4. row' = [x \in Sessions |-> IF x = s THEN [row[s] EXCEPT !.idle = i]
                                     ELSE IF x \in swept[r] THEN NoRow ELSE row[x]]
      BY <1>6, <2>3 DEF CommitRenewal
    <2>5. Ledger!Renew(swept[r], now[r], s, now[r])
      BY <1>2, <1>3, <1>4, <1>6, <2>2, <2>3, <2>4 DEF CommitRenewal, Ledger!Renew
    <2> QED  BY <1>2, <1>3, <2>2, <2>5 DEF Ledger!CleanUpStep
  <1>7. ASSUME NEW s \in Sessions, CommitInsert(r, s)
        PROVE  Ledger!CleanUpStep(swept[r], now[r])
    <2>1. Ledger!Open(swept[r], now[r], s, now[r])
      BY <1>2, <1>3, <1>4, <1>7, SameData DEF CommitInsert, Ledger!Open
    <2> QED  BY <1>3, <1>7, <2>1 DEF Ledger!CleanUpStep
  <1> QED  BY <1>2, <1>5, <1>6, <1>7

LEMMA DeleteRefines ==
    ASSUME RefinementInv, NEW r \in Tasks, CommitDelete(r)
    PROVE  \E s \in Sessions : Ledger!Delete(s)
  <1>1. StoreInv /\ stage[r] = "locked"
    BY DEF RefinementInv, EvaluationInv, SnapshotInv, CommitDelete
  <1>2. Session(r) \in Sessions /\ row[Session(r)] # NoRow
    BY <1>1, Working, RowAssumption
  <1>3. Ledger!Remove({Session(r)})
    BY CascadesRemoves DEF CommitDelete
  <1>4. Ledger!Delete(Session(r))
    BY <1>2, <1>3 DEF CommitDelete, Ledger!Delete
  <1> QED  BY <1>2, <1>4

\* Whatever else a task does, the ledger does not see.
LEMMA StepRefines ==
    ASSUME RefinementInv, NEW r \in Tasks, Step(r) \/ Fail(r)
    PROVE  Ledger!Next \/ UNCHANGED Ledger!ledgerVars
  <1>1. StoreInv /\ TimesOK
    BY DEF RefinementInv, EvaluationInv, SnapshotInv
  <1>2. CASE \/ CommitAccess(r) \/ CommitNext(r) \/ CommitConflict(r) \/ CommitPut(r)
             \/ CommitReset(r) \/ CommitAnswers(r) \/ CommitEvaluate(r)
    <2>1. Session(r) \in Sessions
      BY <1>1, <1>2, Working
      DEF CommitAccess, CommitNext, CommitConflict, CommitPut, CommitReset, CommitAnswers,
          CommitEvaluate
    <2> QED  BY <1>1, <1>2, <2>1, RequestRefines, TaskTime DEF Ledger!Next
  <1>3. CASE CommitDelete(r)
    BY <1>3, DeleteRefines DEF Ledger!Next
  <1>4. CASE CommitCleanUp(r) \/ CommitRenewal(r) \/ \E s \in Sessions : CommitInsert(r, s)
    BY <1>1, <1>4, CleanUpRefines, TaskTime DEF Ledger!Next
  <1>5. CASE UNCHANGED <<clock, catalog, rows>>
    BY <1>5 DEF rows, Ledger!ledgerVars
  <1> QED
    BY <1>2, <1>3, <1>4, <1>5
    DEF Step, Fail, Commit, Admit, Refuse, FindForDelete, Sweep, CreateOrGet, Flush,
        FlushMisses, Load, Respond, EvaluateBreaks, RollsBack

LEMMA NextRefines ==
    RefinementInv /\ [Next]_vars => RefinementInv' /\ [Ledger!Next]_(Ledger!ledgerVars)
  <1> SUFFICES ASSUME RefinementInv, [Next]_vars
               PROVE  RefinementInv' /\ [Ledger!Next]_(Ledger!ledgerVars)
    OBVIOUS
  <1>0. StoreInv /\ TimesOK /\ EvaluationInv'
    BY NextKeepsEvaluations DEF RefinementInv, EvaluationInv, SnapshotInv
  <1>1. ASSUME NEW r \in Tasks, Step(r) \/ Fail(r)
        PROVE  TimesOK' /\ (Ledger!Next \/ UNCHANGED Ledger!ledgerVars)
    BY <1>0, <1>1, StepKeepsTimes, StepRefines
  <1>2. CASE ~ \E r \in Tasks : Step(r) \/ Fail(r)
    <2>1. TimesOK'
      BY <1>0, <1>2, WorldKeepsTimes DEF Next
    <2>2. ASSUME Tick
          PROVE  Ledger!Next
      <3>1. Ledger!Tick
        BY <2>2 DEF Tick, rows, Ledger!Tick
      <3> QED  BY <3>1 DEF Ledger!Next
    <2>3. ASSUME NEW p \in Policies, NEW state \in Revisions, Revise(p, state)
          PROVE  Ledger!Next
      <3>1. state \in Ledger!PolicyStates
        BY StoreAssumption DEF PolicyStates, Ledger!PolicyStates
      <3>2. Ledger!Revise(p, state)
        BY <2>3 DEF Revise, rows, Ledger!Revise
      <3> QED  BY <3>1, <3>2 DEF Ledger!Next
    <2>4. ASSUME \/ \E r \in Requests, call \in Workload : Arrive(r, call)
                 \/ WakeJanitor \/ UNCHANGED vars
          PROVE  UNCHANGED Ledger!ledgerVars
      BY <2>4 DEF Arrive, WakeJanitor, vars, rows, Ledger!ledgerVars
    <2>5. Ledger!Next \/ UNCHANGED Ledger!ledgerVars
      <3>1. \/ Tick
            \/ \E p \in Policies, state \in Revisions : Revise(p, state)
            \/ \E r \in Requests, call \in Workload : Arrive(r, call)
            \/ WakeJanitor \/ UNCHANGED vars
        BY <1>2 DEF Next
      <3> QED  BY <3>1, <2>2, <2>3, <2>4
    <2> QED  BY <1>0, <2>1, <2>5 DEF RefinementInv
  <1> QED  BY <1>0, <1>1, <1>2 DEF RefinementInv

\* Every transaction takes effect at one instant, on the rows as they are then,
\* or not at all, however requests, failures, clean-ups and edits interleave.
THEOREM SessionsAreAtomic == Spec => AtomicSessions
  <1>1. Init => RefinementInv /\ Ledger!Init
    <2> SUFFICES ASSUME Init PROVE RefinementInv /\ Ledger!Init
      OBVIOUS
    <2>1. Ledger!Init
      BY DEF Init
    <2>2. Ledger!NoEvaluations = NoEvaluations
      BY SameData
    <2>3. EvaluationsOK
      BY <2>1, <2>2 DEF Ledger!Init, EvaluationsOK, EvaluationOK, NoEvaluations
    <2>4. EvaluationInv
      BY StoreInvInit, <2>3
      DEF Init, EvaluationInv, SnapshotInv, SnapshotsAreCurrent, OffersOK
    <2>5. TimesOK
      BY <2>1, StoreAssumption DEF Init, Ledger!Init, TimesOK, TaskTimesOK
    <2> QED  BY <2>1, <2>4, <2>5 DEF RefinementInv
  <1>2. RefinementInv /\ [Next]_vars => RefinementInv' /\ [Ledger!Next]_(Ledger!ledgerVars)
    BY NextRefines
  <1> QED  BY <1>1, <1>2, PTL DEF Spec, AtomicSessions, Ledger!Spec

=============================================================================
