------------------------- MODULE SessionStoreProofs -------------------------
(***************************************************************************)
(* Proofs about SessionStore for every set of sessions, requests, policies *)
(* and questions, every workload and every bound.                          *)
(***************************************************************************)
EXTENDS SessionStore, WellOrder, TLAPS

-----------------------------------------------------------------------------
(* The question engine.                                                    *)

\* S with everything that depends on it.
Reach(S) == S \cup Descendants(S)

LEMMA ChildrenGrow ==
    ASSUME NEW S, NEW K, S \subseteq K
    PROVE  ChildrenOf(S) \subseteq ChildrenOf(K) /\ ChildrenOf(S) \subseteq Bank
  BY DEF ChildrenOf

\* The rounds of the work list of dependent_fact_keys.
LEMMA WorkList ==
    ASSUME NEW S \in SUBSET Bank
    PROVE  \E v : /\ v[0] = S
                  /\ \A n \in Nat : v[n + 1] = v[n] \cup ChildrenOf(v[n])
                  /\ Descendants(S) = v[Cardinality(Bank)] \ S
  <1> DEFINE Rounds(v) == v = [i \in Nat |-> IF i = 0 THEN S
                                             ELSE v[i - 1] \cup ChildrenOf(v[i - 1])]
             visited == CHOOSE v : Rounds(v)
             Round == [V \in SUBSET Bank |-> V \cup ChildrenOf(V)]
             U == SUBSET Bank
  <1>1. Round \in [U -> U] /\ S \in U
    BY DEF ChildrenOf
  <1>2. PICK f : f \in [Nat -> U] /\ Iterates(f, Round, S)
    <2> HIDE DEF Round, U
    <2> QED  BY <1>1, EveryStartIterates
  <1>3. Rounds(f)
    <2>1. ASSUME NEW i \in Nat
          PROVE  f[i] = IF i = 0 THEN S ELSE f[i - 1] \cup ChildrenOf(f[i - 1])
      <3>1. CASE i = 0
        BY <1>2, <3>1 DEF Iterates
      <3>2. CASE i # 0
        <4>1. i - 1 \in Nat /\ (i - 1) + 1 = i
          BY <3>2
        <4>2. f[(i - 1) + 1] = Round[f[i - 1]] /\ f[i - 1] \in SUBSET Bank
          BY <1>2, <4>1 DEF Iterates
        <4> QED  BY <3>2, <4>1, <4>2
      <3> QED  BY <3>1, <3>2
    <2> QED  BY <1>2, <2>1
  <1>4. Rounds(visited)
    BY <1>3
  <1>5. Descendants(S) = visited[Cardinality(Bank)] \ S
    BY DEF Descendants
  <1> HIDE DEF visited
  <1>6. visited[0] = S
    BY <1>4
  <1>7. ASSUME NEW n \in Nat PROVE visited[n + 1] = visited[n] \cup ChildrenOf(visited[n])
    <2>1. n + 1 \in Nat /\ n + 1 # 0 /\ (n + 1) - 1 = n
      OBVIOUS
    <2> QED  BY <1>4, <2>1
  <1> QED  BY <1>5, <1>6, <1>7

\* The work list ends with what depends on S, however indirectly, and with
\* nothing else: as many rounds as there are questions are enough.
THEOREM DependentsAreReachable ==
    ASSUME NEW S \in SUBSET Bank
    PROVE  /\ Reach(S) \subseteq Bank
           /\ ChildrenOf(Reach(S)) \subseteq Reach(S)
           /\ \A K \in SUBSET Bank :
                S \subseteq K /\ ChildrenOf(K) \subseteq K => Reach(S) \subseteq K
  <1> DEFINE N == Cardinality(Bank)
  <1>1. PICK v : /\ v[0] = S
                 /\ \A n \in Nat : v[n + 1] = v[n] \cup ChildrenOf(v[n])
                 /\ Descendants(S) = v[N] \ S
    BY WorkList
  <1>2. N \in Nat /\ IsFiniteSet(Bank)
    BY BankAssumption, FS_CardinalityType
  <1>3. ASSUME NEW K, S \subseteq K, ChildrenOf(K) \subseteq K
        PROVE  \A n \in Nat : S \subseteq v[n] /\ v[n] \subseteq K
    <2> DEFINE T == {n \in Nat : S \subseteq v[n] /\ v[n] \subseteq K}
    <2>1. 0 \in T
      BY <1>1, <1>3
    <2>2. ASSUME NEW n \in Nat, n \in T PROVE n + 1 \in T
      <3>1. v[n + 1] = v[n] \cup ChildrenOf(v[n])
        BY <1>1
      <3>2. ChildrenOf(v[n]) \subseteq ChildrenOf(K)
        BY <2>2, ChildrenGrow
      <3> QED  BY <1>3, <2>2, <3>1, <3>2
    <2> HIDE DEF T
    <2>3. Nat \subseteq T
      BY <2>1, <2>2, AllNumbers
    <2> QED  BY <2>3 DEF T
  <1>4. \A n \in Nat : S \subseteq v[n] /\ v[n] \subseteq Bank
    BY <1>3, ChildrenGrow
  <1>5. \A n \in Nat : v[n + 1] = v[n] \/ (Cardinality(v[n]) \in Nat /\ Cardinality(v[n]) >= n)
    <2> DEFINE T == {n \in Nat : \/ v[n + 1] = v[n]
                                 \/ Cardinality(v[n]) \in Nat /\ Cardinality(v[n]) >= n}
    <2>1. 0 \in T
      <3>1. IsFiniteSet(v[0])
        BY <1>2, <1>4, FS_Subset
      <3>2. Cardinality(v[0]) \in Nat
        BY <3>1, FS_CardinalityType
      <3> QED  BY <3>2
    <2>2. ASSUME NEW n \in Nat, n \in T PROVE n + 1 \in T
      <3>0. n + 1 \in Nat
        OBVIOUS
      <3>1. /\ v[n + 1] = v[n] \cup ChildrenOf(v[n])
            /\ v[(n + 1) + 1] = v[n + 1] \cup ChildrenOf(v[n + 1])
        BY <1>1, <3>0
      <3>2. CASE v[n + 1] = v[n]
        BY <3>0, <3>1, <3>2
      <3>3. CASE v[n + 1] # v[n]
        <4>1. Cardinality(v[n]) \in Nat /\ Cardinality(v[n]) >= n
          BY <2>2, <3>3
        <4>2. IsFiniteSet(v[n + 1])
          BY <1>2, <1>4, <3>0, FS_Subset
        <4>3. v[n] \subseteq v[n + 1]
          BY <3>1
        <4>4. Cardinality(v[n + 1]) \in Nat /\ Cardinality(v[n]) < Cardinality(v[n + 1])
          BY <3>3, <4>2, <4>3, FewerElements
        <4>5. Cardinality(v[n + 1]) >= n + 1
          BY <4>1, <4>4
        <4> QED  BY <3>0, <4>4, <4>5
      <3> QED  BY <3>2, <3>3
    <2> HIDE DEF T
    <2>3. Nat \subseteq T
      BY <2>1, <2>2, AllNumbers
    <2> QED  BY <2>3 DEF T
  <1>6. ChildrenOf(v[N]) \subseteq v[N]
    <2>1. CASE v[N + 1] = v[N]
      BY <1>1, <1>2, <2>1
    <2>2. CASE v[N + 1] # v[N]
      <3>1. Cardinality(v[N]) >= N /\ Cardinality(v[N]) \in Nat
        BY <1>2, <1>5, <2>2
      <3>2. v[N] \subseteq Bank /\ ~ (Cardinality(v[N]) < N)
        BY <1>2, <1>4, <3>1
      <3>3. v[N] = Bank
        BY <1>2, <3>2, FewerElements
      <3> QED  BY <3>3, ChildrenGrow
    <2> QED  BY <2>1, <2>2
  <1>7. Reach(S) = v[N]
    BY <1>1, <1>2, <1>4 DEF Reach
  <1> QED  BY <1>2, <1>3, <1>4, <1>6, <1>7

\* What depends on a question is what depends on its children.
LEMMA ReachUnfolds ==
    ASSUME NEW q \in Bank, NEW x \in Reach({q})
    PROVE  x = q \/ \E y \in ChildrenOf({q}) : x \in Reach({y})
  <1> DEFINE K == {q} \cup {p \in Bank : \E y \in ChildrenOf({q}) : p \in Reach({y})}
  <1>1. {q} \subseteq K /\ K \in SUBSET Bank
    OBVIOUS
  <1>2. ChildrenOf(K) \subseteq K
    <2> SUFFICES ASSUME NEW p \in ChildrenOf(K) PROVE p \in K
      OBVIOUS
    <2>1. PICK a \in K : p \in Bank /\ DependsOn(p, a)
      BY DEF ChildrenOf
    <2>2. CASE a = q
      <3>1. p \in ChildrenOf({q})
        BY <2>1, <2>2 DEF ChildrenOf
      <3>2. p \in Reach({p})
        BY DEF Reach
      <3> QED  BY <2>1, <3>1, <3>2
    <2>3. CASE a # q
      <3>1. PICK y \in ChildrenOf({q}) : a \in Reach({y})
        BY <2>3
      <3>2. y \in Bank
        BY DEF ChildrenOf
      <3>3. ChildrenOf(Reach({y})) \subseteq Reach({y})
        BY <3>2, DependentsAreReachable
      <3>4. p \in ChildrenOf(Reach({y}))
        BY <2>1, <3>1 DEF ChildrenOf
      <3> QED  BY <2>1, <3>1, <3>3, <3>4
    <2> QED  BY <2>2, <2>3
  <1> HIDE DEF K
  <1>3. Reach({q}) \subseteq K
    BY <1>1, <1>2, DependentsAreReachable
  <1> QED  BY <1>3 DEF K

\* validate_question_dag accepts a bank of known parents exactly when it has no cycle:
\* when every set of questions has one that none of the set depends on directly.
THEOREM BanksAreAcyclic ==
    IsQuestionDag <=>
        /\ ParentsAreKnown
        /\ \A C \in SUBSET Bank : C # {} => \E q \in C : ChildrenOf({q}) \cap C = {}
  <1>0. \A q \in Bank : /\ q \in Reach({q}) /\ Reach({q}) \subseteq Bank
                        /\ ChildrenOf(Reach({q})) \subseteq Reach({q})
    BY DependentsAreReachable DEF Reach
  <1>1. ASSUME IsQuestionDag, NEW C \in SUBSET Bank, C # {}
        PROVE  \E q \in C : ChildrenOf({q}) \cap C = {}
    <2> DEFINE R == {e \in Bank \X Bank : e[1] \in ChildrenOf(Reach({e[2]}))}
    <2>1. IsFiniteSet(C)
      BY BankAssumption, FS_Subset
    <2>2. \A x \in C : <<x, x>> \notin R
      BY <1>1 DEF IsQuestionDag, Reach
    <2>3. ASSUME NEW x \in C, NEW y \in C, NEW z \in C, <<x, y>> \in R, <<y, z>> \in R
          PROVE  <<x, z>> \in R
      <3>1. x \in ChildrenOf(Reach({y})) /\ y \in ChildrenOf(Reach({z}))
        BY <2>3
      <3>2. y \in Reach({z})
        BY <1>0, <3>1
      <3>3. Reach({y}) \subseteq Reach({z})
        BY <1>0, <3>2, DependentsAreReachable
      <3> QED  BY <3>1, <3>3, ChildrenGrow
    <2>4. \A x, y \in C : x \in ChildrenOf({y}) => <<x, y>> \in R
      <3> TAKE x, y \in C
      <3>1. {y} \subseteq Reach({y})
        BY <1>0
      <3>2. ChildrenOf({y}) \subseteq ChildrenOf(Reach({y}))
        BY <3>1, ChildrenGrow
      <3> QED  BY <3>2
    <2> HIDE DEF R
    <2>5. PICK q \in C : \A y \in C : <<y, q>> \notin R
      BY <1>1, <2>1, <2>2, <2>3, FirstElement
    <2> QED  BY <2>4, <2>5
  <1>2. ASSUME \A C \in SUBSET Bank : C # {} => \E q \in C : ChildrenOf({q}) \cap C = {},
               NEW q \in Bank, q \in ChildrenOf(Reach({q}))
        PROVE  FALSE
    <2> DEFINE C == {x \in Reach({q}) : q \in ChildrenOf(Reach({x}))}
    <2>1. C \in SUBSET Bank /\ C # {}
      BY <1>0, <1>2
    <2>2. PICK x \in C : ChildrenOf({x}) \cap C = {}
      BY <1>2, <2>1
    <2>3. x \in Bank /\ x \in Reach({q}) /\ q \in ChildrenOf(Reach({x}))
      BY <2>1, <2>2
    <2>4. PICK p \in Reach({x}) : DependsOn(q, p)
      BY <2>3 DEF ChildrenOf
    <2>5. CASE p = x
      <3>1. q \in ChildrenOf({x})
        BY <2>4, <2>5 DEF ChildrenOf
      <3>2. q \in C
        BY <1>0, <1>2
      <3> QED  BY <2>2, <3>1, <3>2
    <2>6. CASE p # x
      <3>1. PICK y \in ChildrenOf({x}) : p \in Reach({y})
        BY <2>3, <2>6, ReachUnfolds
      <3>2. q \in ChildrenOf(Reach({y}))
        BY <2>4, <3>1 DEF ChildrenOf
      <3>3. y \in ChildrenOf(Reach({q}))
        BY <2>3, <3>1 DEF ChildrenOf
      <3>4. y \in C
        BY <1>0, <3>2, <3>3
      <3> QED  BY <2>2, <3>1, <3>4
    <2> QED  BY <2>5, <2>6
  <1> QED  BY <1>1, <1>2 DEF IsQuestionDag, Reach

\* As long as a question is open, next_questions has exactly one to ask.
THEOREM ThereIsANextQuestion ==
    ASSUME NEW c, NEW dict, UnansweredRequired(c, dict) # {}
    PROVE  \E q \in UnansweredRequired(c, dict) : NextQuestions(c, dict) = {q}
  <1> DEFINE open == UnansweredRequired(c, dict)
             ranks == {q.rank : q \in open}
  <1>1. \A q \in open : q \in Bank /\ q.category = c /\ q.rank \in Nat
    BY BankAssumption DEF Questions, UnansweredRequired, VisibleQuestions, CategoryQuestions
  <1>2. NextQuestions(c, dict) = {q \in open : \A p \in open : q.rank <= p.rank}
    BY DEF NextQuestions
  <1> HIDE DEF open
  <1>3. ranks \subseteq Nat /\ ranks # {}
    BY <1>1 DEF open
  <1>4. PICK q \in open : \A p \in open : q.rank <= p.rank
    <2> HIDE DEF ranks
    <2>1. PICK n \in ranks : \A m \in ranks : n <= m
      BY <1>3, LeastNumber
    <2> QED  BY <2>1 DEF ranks
  <1>5. ASSUME NEW p \in NextQuestions(c, dict) PROVE p = q
    <2>1. p \in open /\ p.rank <= q.rank /\ q.rank <= p.rank
      BY <1>2, <1>4
    <2>2. p.rank = q.rank
      BY <1>1, <1>4, <2>1
    <2> QED  BY <1>1, <1>4, <2>1, <2>2, BankAssumption
  <1>6. NextQuestions(c, dict) = {q}
    BY <1>2, <1>4, <1>5
  <1> QED  BY <1>4, <1>6 DEF open

-----------------------------------------------------------------------------
(* What the operators of SessionData return.                               *)

\* A call names a session, and what its kind needs.
LEMMA CallTypes ==
    ASSUME NEW call \in Calls
    PROVE  /\ call.session \in Sessions
           /\ call.kind # "cleanup"
           /\ call.kind \in {"select", "reset"} => call.category \in Categories
           /\ call.kind = "put" => call.key \in ConditionKeys /\ call.value \in Values
           /\ call.kind = "answers" => call.batch \in AnswerBatches
  BY DEF Calls, ReadCall, CategoryCall, PutCall, AnswersCall

\* A refreshed session is a session row.
LEMMA RefreshedType ==
    ASSUME NEW r \in Row, NEW t \in Nat, NEW c \in Categories \cup {NoCategory}
    PROVE  [Refreshed(r, t) EXCEPT !.category = c] \in Row
  <1>1. Earlier(r.expires, t + IdleTTL) \in Nat
    BY SessionDataAssumption DEF Row, Earlier
  <1> QED  BY <1>1 DEF Row, Refreshed

LEMMA FlushedType ==
    ASSUME NEW current \in Row, NEW before \in Row, NEW updated \in Row
    PROVE  Flushed(current, before, updated) \in Row
  BY DEF Row, Flushed

LEMMA NewRowType == \A t \in Nat : NewRow(t) \in Row
  BY SessionDataAssumption DEF Row, NewRow

LEMMA CategoryFactsType ==
    ASSUME NEW table \in FactTable, NEW c \in Categories \cup {NoCategory}
    PROVE  CategoryFacts(table, c) \in CategoryDict
  BY DEF FactTable, CategoryFacts, CategoryDict, ConditionKeys

LEMMA NoFactsType == NoFacts \in FactTable
  BY DEF NoFacts, FactTable

LEMMA FactsAfterResetType ==
    ASSUME NEW table \in FactTable, NEW c
    PROVE  FactsAfterReset(table, c) \in FactTable
  BY DEF FactTable, FactsAfterReset

\* The loop of submit_answers stores answers that were submitted.
LEMMA FactsAfterAnswersType ==
    ASSUME NEW table \in FactTable, NEW c, NEW existing, NEW batch \in Seq(Answer)
    PROVE  FactsAfterAnswers(table, c, existing, batch) \in FactTable
  <1>1. ASSUME NEW k \in ConditionKeys,
               \E i \in DOMAIN batch : Stores(c, existing, batch, i, k[2])
        PROVE  batch[CHOOSE i \in DOMAIN batch : Stores(c, existing, batch, i, k[2])].value
                   \in Values
    <2> DEFINE j == CHOOSE i \in DOMAIN batch : Stores(c, existing, batch, i, k[2])
    <2>1. j \in DOMAIN batch  BY <1>1
    <2>2. batch[j] \in Answer  BY <2>1
    <2> QED  BY <2>2 DEF Answer
  <1> QED  BY <1>1 DEF FactTable, FactsAfterAnswers

LEMMA NextQuestionsType ==
    ASSUME NEW c, NEW dict
    PROVE  NextQuestions(c, dict) \subseteq Bank
  BY DEF NextQuestions, UnansweredRequired, VisibleQuestions, CategoryQuestions

EvaluationTable == [Policies -> Evaluation \cup {NoEvaluation}]

LEMMA NoEvaluationsType == NoEvaluations \in EvaluationTable
  BY DEF NoEvaluations, EvaluationTable

LEMMA MarkedStaleType ==
    ASSUME NEW table \in EvaluationTable
    PROVE  MarkedStale(table) \in EvaluationTable
  BY DEF EvaluationTable, MarkedStale, Evaluation

LEMMA EvaluationsAfterEvaluateType ==
    ASSUME NEW table \in EvaluationTable, NEW c, NEW dict \in CategoryDict,
           NEW read \in [Policies -> CatalogEntry]
    PROVE  EvaluationsAfterEvaluate(table, c, dict, read) \in EvaluationTable
  BY DEF EvaluationTable, EvaluationsAfterEvaluate, Evaluation, CatalogEntry

LEMMA EvaluationsAfterResetType ==
    ASSUME NEW table \in EvaluationTable, NEW c, NEW entries
    PROVE  EvaluationsAfterReset(table, c, entries) \in EvaluationTable
  BY DEF EvaluationTable, EvaluationsAfterReset

-----------------------------------------------------------------------------
(* What a task knows about itself.                                         *)

\* A task that has found its session has a call and the row it read, and one that
\* needs a category has found one in it.  Only a clean-up sweeps rows.
TasksOK ==
    \A r \in Tasks :
        /\ stage[r] \in {"admitted", "locked", "loaded"} =>
               /\ job[r] \in Calls
               /\ loaded[r] \in Row
               /\ NeedsCategory(r) => Category(r) \in Categories
        /\ stage[r] = "loaded" => NeedsCategory(r)
        /\ \/ stage[r] \notin {"idle", "arrived", "done", "loaded"}
              /\ Kind(r) \in {"create", "cleanup"}
           \/ swept[r] = {}

StoreInv == TypeOK /\ TasksOK /\ SessionsAreLocked

RowsTyped ==
    /\ issued \subseteq Sessions
    /\ row \in [Sessions -> Row \cup {NoRow}]
    /\ fact \in [Sessions -> FactTable]
    /\ evaluation \in [Sessions -> EvaluationTable]

MemoryTyped ==
    /\ holder \in [Sessions -> Tasks \cup {NoTask}]
    /\ stage \in [Tasks -> Stages]
    /\ job \in [Tasks -> Calls \cup {CleanUpJob}]
    /\ now \in [Tasks -> Nat]
    /\ loaded \in [Tasks -> Row \cup {NoRow}]
    /\ swept \in [Tasks -> SUBSET Sessions]
    /\ facts \in [Tasks -> CategoryDict]
    /\ offers \in [Tasks -> [Policies -> CatalogEntry]]
    /\ reply \in [Tasks -> Statuses]
    /\ followUps \in [Tasks -> SUBSET Bank]

LEMMA TypeParts ==
    TypeOK <=> /\ clock \in Nat /\ catalog \in [Policies -> CatalogEntry]
               /\ RowsTyped /\ MemoryTyped
  BY DEF TypeOK, RowsTyped, MemoryTyped, EvaluationTable

LEMMA DefaultTypes ==
    /\ NoDict \in CategoryDict
    /\ NoOffers \in [Policies -> CatalogEntry]
  BY DEF NoDict, CategoryDict, NoOffers, CatalogEntry, PolicyStates

LEMMA StoreInvInit == Init => StoreInv
  <1> SUFFICES ASSUME Init PROVE StoreInv
    OBVIOUS
  <1>1. Ledger!NoFacts = NoFacts /\ Ledger!NoEvaluations = NoEvaluations
    BY DEF Ledger!NoFacts, NoFacts, Ledger!NoEvaluations, NoEvaluations, ConditionKeys,
           Ledger!ConditionKeys
  <1>2. clock \in Nat /\ issued \subseteq Sessions /\ row \in [Sessions -> Row \cup {NoRow}]
    BY DEF Init, Ledger!Init
  <1>3. fact \in [Sessions -> FactTable]
    BY <1>1, NoFactsType DEF Init, Ledger!Init
  <1>4. evaluation \in [Sessions -> EvaluationTable]
    BY <1>1, NoEvaluationsType DEF Init, Ledger!Init
  <1>5. catalog \in [Policies -> CatalogEntry] 
    BY DEF Init, Ledger!Init, CatalogEntry, PolicyStates
  <1>6. TypeOK
    BY <1>2, <1>3, <1>4, <1>5, DefaultTypes
    DEF Init, TypeOK, EvaluationTable, Stages, Statuses
  <1>7. TasksOK /\ SessionsAreLocked
    BY DEF Init, TasksOK, SessionsAreLocked
  <1> QED  BY <1>6, <1>7 DEF StoreInv

-----------------------------------------------------------------------------
(* The end of a task.                                                      *)

\* A transaction that ends gives up its own locks only, and removes only rows
\* it has locked: what other tasks rely on stays.
LEMMA EndKeepsLocks ==
    ASSUME StoreInv, NEW r \in Tasks,
           stage' = [stage EXCEPT ![r] = "done"],
           holder' = Unlocked(r),
           job' = [job EXCEPT ![r] = CleanUpJob],
           \A x \in Tasks \ {r} : loaded'[x] = loaded[x] /\ swept'[x] = swept[x],
           swept'[r] = {},
           \A s \in Sessions : row'[s] = NoRow => row[s] = NoRow \/ holder[s] = r
    PROVE  TasksOK' /\ SessionsAreLocked'
  <1>1. stage \in [Tasks -> Stages] /\ holder \in [Sessions -> Tasks \cup {NoTask}]
        /\ job \in [Tasks -> Calls \cup {CleanUpJob}] /\ swept \in [Tasks -> SUBSET Sessions]
    BY DEF StoreInv, TypeOK
  <1>2. \A x \in Tasks \ {r} : stage'[x] = stage[x] /\ job'[x] = job[x]
    BY <1>1
  <1>3. stage'[r] = "done"
    BY <1>1
  <1>4. TasksOK'
    BY <1>2, <1>3 DEF StoreInv, TasksOK, NeedsCategory, Kind, Category
  <1>5. \A s \in Sessions : holder[s] # r => holder'[s] = holder[s]
    BY DEF Unlocked
  <1>6. ASSUME NEW x \in Tasks \ {r}, stage'[x] \in {"locked", "loaded"}
        PROVE  holder'[Session(x)'] = x /\ row'[Session(x)'] # NoRow
    <2>1. Session(x)' = Session(x) /\ Session(x) \in Sessions
      BY <1>2, <1>6, CallTypes DEF Session, StoreInv, TasksOK
    <2>2. holder[Session(x)] = x /\ row[Session(x)] # NoRow
      BY <1>2, <1>6 DEF StoreInv, SessionsAreLocked
    <2> QED  BY <1>5, <2>1, <2>2
  <1>7. ASSUME NEW x \in Tasks \ {r}, stage'[x] \in {"swept", "admitted", "inserting", "locked"},
               NEW s \in swept'[x]
        PROVE  holder'[s] = x
    <2>1. s \in swept[x] /\ s \in Sessions
      BY <1>1, <1>7
    <2>2. holder[s] = x
      BY <1>2, <1>7, <2>1 DEF StoreInv, SessionsAreLocked
    <2> QED  BY <1>5, <2>1, <2>2
  <1>8. SessionsAreLocked'
    BY <1>3, <1>6, <1>7 DEF SessionsAreLocked
  <1> QED  BY <1>4, <1>8

LEMMA UnlockedType ==
    ASSUME NEW r, holder \in [Sessions -> Tasks \cup {NoTask}]
    PROVE  Unlocked(r) \in [Sessions -> Tasks \cup {NoTask}]
  BY DEF Unlocked

\* A task that ends with its memory released keeps the invariant, when what it
\* leaves in the rows is well-typed.
LEMMA EndKeepsStore ==
    ASSUME StoreInv, NEW r \in Tasks, NEW status \in Statuses, Ends(r, status),
           RowsTyped', clock' = clock, catalog' = catalog,
           \A s \in Sessions : row'[s] = NoRow => row[s] = NoRow \/ holder[s] = r
    PROVE  StoreInv'
  <1>1. MemoryTyped
    BY TypeParts DEF StoreInv
  <1>2. MemoryTyped'
    BY <1>1, UnlockedType, DefaultTypes DEF Ends, Replies, Releases, MemoryTyped, Stages
  <1>3. TypeOK'
    BY <1>2, TypeParts DEF StoreInv, TypeOK, RowsTyped, MemoryTyped, EvaluationTable
  <1>4. TasksOK' /\ SessionsAreLocked'
    BY <1>1, EndKeepsLocks DEF Ends, Replies, Releases, MemoryTyped
  <1> QED  BY <1>3, <1>4 DEF StoreInv

LEMMA RollBackKeepsStore ==
    ASSUME StoreInv, NEW r \in Tasks, NEW status \in Statuses, RollsBack(r, status)
    PROVE  StoreInv'
  <1>1. RowsTyped'
    BY DEF RollsBack, rows, StoreInv, TypeOK, RowsTyped, EvaluationTable
  <1> QED  BY <1>1, EndKeepsStore DEF RollsBack, rows

-----------------------------------------------------------------------------
(* Commits.                                                                *)

\* A task past its flush has its session, locked, and the row it read.
LEMMA Working ==
    ASSUME StoreInv, NEW r \in Tasks, stage[r] \in {"locked", "loaded"}
    PROVE  /\ job[r] \in Calls /\ Session(r) \in Sessions
           /\ loaded[r] \in Row /\ row[Session(r)] \in Row
           /\ Category(r) \in Categories \cup {NoCategory}
           /\ holder[Session(r)] = r
  <1>1. job[r] \in Calls /\ loaded[r] \in Row
    BY DEF StoreInv, TasksOK
  <1>2. Session(r) \in Sessions
    BY <1>1, CallTypes DEF Session
  <1>3. holder[Session(r)] = r /\ row[Session(r)] # NoRow
    BY DEF StoreInv, SessionsAreLocked
  <1> QED  BY <1>1, <1>2, <1>3 DEF StoreInv, TypeOK, Category, Row

LEMMA SavedType ==
    ASSUME StoreInv, NEW r \in Tasks, stage[r] \in {"locked", "loaded"},
           NEW c \in Categories \cup {NoCategory}
    PROVE  Saved(r, c) \in Row
  <1>1. now[r] \in Nat
    BY DEF StoreInv, TypeOK
  <1>2. [Refreshed(loaded[r], now[r]) EXCEPT !.category = c] \in Row
    BY <1>1, Working, RefreshedType
  <1> QED  BY <1>2, Working, FlushedType DEF Saved

LEMMA SavedRows ==
    ASSUME StoreInv, NEW r \in Tasks, stage[r] \in {"locked", "loaded"},
           NEW c \in Categories \cup {NoCategory}, SavesRow(r, c)
    PROVE  /\ row' \in [Sessions -> Row \cup {NoRow}]
           /\ \A s \in Sessions : row'[s] = NoRow => row[s] = NoRow
  BY SavedType, Working, RowAssumption DEF SavesRow, StoreInv, TypeOK

LEMMA CascadesType ==
    ASSUME StoreInv, NEW S, Cascades(S)
    PROVE  fact' \in [Sessions -> FactTable] /\ evaluation' \in [Sessions -> EvaluationTable]
  BY NoFactsType, NoEvaluationsType DEF Cascades, StoreInv, TypeOK, EvaluationTable

\* The rows a clean-up swept are locked until the task ends.
LEMMA SweptLocked ==
    ASSUME StoreInv, NEW r \in Tasks, stage[r] \in {"swept", "inserting", "locked"}
    PROVE  \A s \in swept[r] : holder[s] = r
  BY DEF StoreInv, SessionsAreLocked

LEMMA CommitKeepsStore ==
    ASSUME StoreInv, NEW r \in Tasks, Commit(r)
    PROVE  StoreInv'
  <1>0. /\ RowsTyped /\ MemoryTyped
        /\ \A s \in {"OK", "CONFLICTED", "STORED", "INTEGRITY_ERROR"} : s \in Statuses
    BY TypeParts DEF StoreInv, Statuses
  <1>1. CASE CommitAccess(r)
    <2>1. \E c \in Categories \cup {NoCategory} : SavesRow(r, c)
      BY <1>1, Working, CallTypes DEF CommitAccess, Kind
    <2>2. RowsTyped' /\ \A s \in Sessions : row'[s] = NoRow => row[s] = NoRow
      BY <1>0, <1>1, <2>1, SavedRows DEF CommitAccess, RowsTyped
    <2> QED  BY <1>0, <1>1, <2>2, EndKeepsStore DEF CommitAccess
  <1>2. CASE CommitNext(r)
    <2>1. RowsTyped' /\ \A s \in Sessions : row'[s] = NoRow => row[s] = NoRow
      BY <1>0, <1>2, Working, SavedRows DEF CommitNext, RowsTyped
    <2> QED  BY <1>0, <1>2, <2>1, EndKeepsStore DEF CommitNext
  <1>3. CASE CommitPut(r)
    <2>1. stage[r] = "locked" /\ SavesRow(r, Category(r)) /\ Ends(r, "OK")
      BY <1>3 DEF CommitPut
    <2>2. job[r].key \in ConditionKeys /\ job[r].value \in Values
      BY <1>3, <2>1, Working, CallTypes DEF CommitPut, Kind
    <2>3. fact' \in [Sessions -> FactTable]
      BY <1>0, <1>3, <2>2 DEF CommitPut, RowsTyped, FactTable
    <2>4. evaluation' \in [Sessions -> EvaluationTable]
      BY <1>0, <1>3, MarkedStaleType DEF CommitPut, RowsTyped
    <2>5. RowsTyped' /\ \A s \in Sessions : row'[s] = NoRow => row[s] = NoRow
      BY <1>0, <1>3, <2>1, <2>3, <2>4, Working, SavedRows DEF CommitPut, RowsTyped
    <2> QED  BY <1>0, <1>3, <2>5, EndKeepsStore DEF CommitPut
  <1>4. CASE CommitReset(r)
    <2>1. stage[r] = "locked" /\ SavesRow(r, job[r].category) /\ job[r].category \in Categories
      BY <1>4, Working, CallTypes DEF CommitReset, Kind
    <2>2. fact' \in [Sessions -> FactTable]
      BY <1>0, <1>4, FactsAfterResetType DEF CommitReset, RowsTyped
    <2>3. evaluation' \in [Sessions -> EvaluationTable]
      BY <1>0, <1>4, EvaluationsAfterResetType DEF CommitReset, RowsTyped
    <2>4. RowsTyped' /\ \A s \in Sessions : row'[s] = NoRow => row[s] = NoRow
      BY <1>0, <1>4, <2>1, <2>2, <2>3, SavedRows DEF CommitReset, RowsTyped
    <2> QED  BY <1>0, <1>4, <2>4, EndKeepsStore DEF CommitReset
  <1>5. CASE CommitConflict(r)
    <2>1. RowsTyped' /\ \A s \in Sessions : row'[s] = NoRow => row[s] = NoRow
      BY <1>0, <1>5, Working, SavedRows DEF CommitConflict, RowsTyped
    <2> QED  BY <1>0, <1>5, <2>1, EndKeepsStore DEF CommitConflict
  <1>6. CASE CommitAnswers(r)
    <2>1. stage[r] = "loaded" /\ SavesRow(r, Category(r)) /\ job[r].batch \in Seq(Answer)
      BY <1>6, Working, CallTypes, StoreAssumption DEF CommitAnswers, Kind
    <2>2. fact' \in [Sessions -> FactTable]
      BY <1>0, <1>6, <2>1, FactsAfterAnswersType DEF CommitAnswers, RowsTyped
    <2>3. evaluation' \in [Sessions -> EvaluationTable]
      BY <1>0, <1>6, MarkedStaleType DEF CommitAnswers, RowsTyped
    <2>4. RowsTyped' /\ \A s \in Sessions : row'[s] = NoRow => row[s] = NoRow
      BY <1>0, <1>6, <2>1, <2>2, <2>3, Working, SavedRows DEF CommitAnswers, RowsTyped
    <2>5. CategoryFacts(fact'[Session(r)], Category(r)) \in CategoryDict
      BY <2>1, <2>2, Working, CategoryFactsType
    <2>6. MemoryTyped'
      BY <1>0, <1>6, <2>5, UnlockedType, NextQuestionsType, DefaultTypes
      DEF CommitAnswers, Replies, MemoryTyped, Stages
    <2>7. TypeOK'
      BY <1>6, <2>4, <2>6, TypeParts
      DEF CommitAnswers, StoreInv, TypeOK, RowsTyped, MemoryTyped, EvaluationTable
    <2>8. swept[r] = {}
      BY <2>1 DEF StoreInv, TasksOK
    <2>9. TasksOK' /\ SessionsAreLocked'
      BY <1>0, <1>6, <2>4, <2>8, EndKeepsLocks DEF CommitAnswers, Replies
    <2> QED  BY <2>7, <2>9 DEF StoreInv
  <1>7. CASE CommitEvaluate(r)
    <2>1. facts[r] \in CategoryDict /\ offers[r] \in [Policies -> CatalogEntry]
      BY <1>0 DEF MemoryTyped
    <2>2. evaluation' \in [Sessions -> EvaluationTable]
      BY <1>0, <1>7, <2>1, EvaluationsAfterEvaluateType DEF CommitEvaluate, RowsTyped
    <2>3. RowsTyped' /\ \A s \in Sessions : row'[s] = NoRow => row[s] = NoRow
      BY <1>0, <1>7, <2>2, Working, SavedRows DEF CommitEvaluate, RowsTyped
    <2> QED  BY <1>0, <1>7, <2>3, EndKeepsStore DEF CommitEvaluate
  <1>8. CASE EvaluateBreaks(r)
    BY <1>0, <1>8, RollBackKeepsStore DEF EvaluateBreaks
  <1>9. CASE CommitDelete(r)
    <2>1. RowsTyped'
      BY <1>0, <1>9, CascadesType DEF CommitDelete, RowsTyped
    <2>2. \A s \in Sessions : row'[s] = NoRow => row[s] = NoRow \/ holder[s] = r
      BY <1>0, <1>9, Working DEF CommitDelete, RowsTyped
    <2> QED  BY <1>0, <1>9, <2>1, <2>2, EndKeepsStore DEF CommitDelete
  <1>10. CASE CommitCleanUp(r)
    <2>1. RowsTyped'
      BY <1>0, <1>10, CascadesType DEF CommitCleanUp, RowsTyped
    <2>2. \A s \in Sessions : row'[s] = NoRow => row[s] = NoRow \/ holder[s] = r
      BY <1>0, <1>10, SweptLocked DEF CommitCleanUp, RowsTyped
    <2> QED  BY <1>0, <1>10, <2>1, <2>2, EndKeepsStore DEF CommitCleanUp
  <1>11. CASE CommitRenewal(r)
    <2>1. Saved(r, Category(r)) \in Row
      BY <1>11, Working, SavedType DEF CommitRenewal
    <2>2. RowsTyped'
      BY <1>0, <1>11, <2>1, CascadesType DEF CommitRenewal, RowsTyped
    <2>3. \A s \in Sessions : row'[s] = NoRow => row[s] = NoRow \/ holder[s] = r
      BY <1>0, <1>11, <2>1, SweptLocked, RowAssumption DEF CommitRenewal, RowsTyped
    <2> QED  BY <1>0, <1>11, <2>2, <2>3, EndKeepsStore DEF CommitRenewal
  <1>12. ASSUME NEW s \in Sessions, CommitInsert(r, s)
         PROVE  StoreInv'
    <2>1. NewRow(now[r]) \in Row
      BY <1>0, NewRowType DEF MemoryTyped
    <2>2. RowsTyped'
      BY <1>0, <1>12, <2>1, CascadesType DEF CommitInsert, RowsTyped
    <2>3. \A x \in Sessions : row'[x] = NoRow => row[x] = NoRow \/ holder[x] = r
      BY <1>0, <1>12, <2>1, SweptLocked, RowAssumption DEF CommitInsert, RowsTyped
    <2> QED  BY <1>0, <1>12, <2>2, <2>3, EndKeepsStore DEF CommitInsert
  <1> QED
    BY <1>1, <1>2, <1>3, <1>4, <1>5, <1>6, <1>7, <1>8, <1>9, <1>10, <1>11, <1>12 DEF Commit

-----------------------------------------------------------------------------
(* The other steps of a task.                                              *)

\* What a step of one task leaves alone, the other tasks keep relying on.
LEMMA OthersKeepWorking ==
    ASSUME StoreInv, NEW r \in Tasks, row' = row,
           \A x \in Tasks \ {r} : /\ stage'[x] = stage[x] /\ job'[x] = job[x]
                                 /\ loaded'[x] = loaded[x] /\ swept'[x] = swept[x],
           \A s \in Sessions : holder[s] \notin {NoTask, r} => holder'[s] = holder[s]
    PROVE  \A x \in Tasks \ {r} :
             /\ stage'[x] \in {"locked", "loaded"} =>
                    holder'[Session(x)'] = x /\ row'[Session(x)'] # NoRow
             /\ stage'[x] \in {"swept", "admitted", "inserting", "locked"} =>
                    \A s \in swept'[x] : holder'[s] = x
  <1> TAKE x \in Tasks \ {r}
  <1>0. x # NoTask /\ x # r /\ swept[x] \subseteq Sessions
    BY StoreAssumption DEF StoreInv, TypeOK
  <1>1. ASSUME stage'[x] \in {"locked", "loaded"}
        PROVE  holder'[Session(x)'] = x /\ row'[Session(x)'] # NoRow
    <2>1. Session(x)' = Session(x)
      BY DEF Session
    <2>2. Session(x) \in Sessions /\ holder[Session(x)] = x
      BY <1>1, Working
    <2>3. row[Session(x)] # NoRow
      BY <1>1 DEF StoreInv, SessionsAreLocked
    <2> QED  BY <1>0, <2>1, <2>2, <2>3
  <1>2. ASSUME stage'[x] \in {"swept", "admitted", "inserting", "locked"}, NEW s \in swept'[x]
        PROVE  holder'[s] = x
    <2>1. s \in Sessions /\ holder[s] = x
      BY <1>0, <1>2 DEF StoreInv, SessionsAreLocked
    <2> QED  BY <1>0, <2>1
  <1> QED  BY <1>1, <1>2

LEMMA StepKeepsStore ==
    ASSUME StoreInv, NEW r \in Tasks, Step(r)
    PROVE  StoreInv'
  <1>0. /\ RowsTyped /\ MemoryTyped /\ TasksOK /\ clock \in Nat
        /\ catalog \in [Policies -> CatalogEntry]
        /\ \A s \in {"OK", "ERROR", "NOT_FOUND", "NO_CATEGORY"} : s \in Statuses
    BY TypeParts DEF StoreInv, Statuses
  <1>1. CASE Admit(r)
    <2>1. job[r] \in Calls
      BY <1>0, <1>1 DEF Admit, MemoryTyped, CleanUpJob, NeedsSession, NeedsCategory, Kind
    <2>2. row[Session(r)] \in Row /\ loaded' = [loaded EXCEPT ![r] = row[Session(r)]]
      BY <1>0, <1>1, <2>1, CallTypes DEF Admit, Found, Session, RowsTyped
    <2>3. NeedsCategory(r) => row[Session(r)].category \in Categories
      BY <1>1, <2>2 DEF Admit, Row
    <2>4. TypeOK'
      BY <1>0, <1>1, <2>2 DEF Admit, Goes, rows, answer, TypeOK, RowsTyped, MemoryTyped,
                              Stages, EvaluationTable
    <2>5. swept[r] = {}
      BY <1>0, <1>1 DEF Admit, Goes, TasksOK
    <2>6. TasksOK'
      BY <1>0, <1>1, <2>1, <2>2, <2>3, <2>5
      DEF Admit, Goes, TasksOK, MemoryTyped, NeedsCategory, Kind, Category
    <2>7. SessionsAreLocked'
      BY <1>0, <1>1, <2>5, OthersKeepWorking
      DEF Admit, Goes, rows, MemoryTyped, SessionsAreLocked
    <2> QED  BY <2>4, <2>6, <2>7 DEF StoreInv
  <1>2. CASE Refuse(r)
    BY <1>0, <1>2, RollBackKeepsStore DEF Refuse
  <1>3. CASE FindForDelete(r)
    <2>1. CASE row[Session(r)] = NoRow
      BY <1>0, <1>3, <2>1, RollBackKeepsStore DEF FindForDelete
    <2>2. CASE row[Session(r)] # NoRow
      <3>1. job[r] \in Calls
        BY <1>0, <1>3 DEF FindForDelete, MemoryTyped, CleanUpJob, Kind
      <3>2. row[Session(r)] \in Row
        BY <1>0, <2>2, <3>1, CallTypes DEF Session, RowsTyped
      <3>3. TypeOK'
        BY <1>0, <1>3, <2>2, <3>2 DEF FindForDelete, Goes, rows, answer, TypeOK, RowsTyped,
                                      MemoryTyped, Stages, EvaluationTable
      <3>4. swept[r] = {}
        BY <1>0, <1>3 DEF FindForDelete, TasksOK
      <3>5. TasksOK'
        BY <1>0, <1>3, <2>2, <3>1, <3>2, <3>4
        DEF FindForDelete, Goes, TasksOK, MemoryTyped, NeedsCategory, Kind, Category
      <3>6. SessionsAreLocked'
        BY <1>0, <1>3, <2>2, <3>4, OthersKeepWorking
        DEF FindForDelete, Goes, rows, MemoryTyped, SessionsAreLocked
      <3> QED  BY <3>3, <3>5, <3>6 DEF StoreInv
    <2> QED  BY <2>1, <2>2
  <1>4. CASE Sweep(r)
    <2>1. ExpiredRows(now[r]) \subseteq Sessions
      BY DEF ExpiredRows
    <2>2. TypeOK'
      BY <1>0, <1>4, <2>1 DEF Sweep, Goes, rows, answer, TypeOK, RowsTyped, MemoryTyped,
                              Stages, EvaluationTable
    <2>3. TasksOK'
      BY <1>0, <1>4 DEF Sweep, Goes, TasksOK, MemoryTyped, NeedsCategory, Kind, Category
    <2>4. \A s \in Sessions : holder[s] \notin {NoTask, r} => holder'[s] = holder[s]
      BY <1>4 DEF Sweep
    <2>5. /\ row' = row
          /\ \A x \in Tasks \ {r} : /\ stage'[x] = stage[x] /\ job'[x] = job[x]
                                   /\ loaded'[x] = loaded[x] /\ swept'[x] = swept[x]
      BY <1>0, <1>4 DEF Sweep, Goes, rows, MemoryTyped
    <2>6. \A x \in Tasks \ {r} :
             /\ stage'[x] \in {"locked", "loaded"} =>
                    holder'[Session(x)'] = x /\ row'[Session(x)'] # NoRow
             /\ stage'[x] \in {"swept", "admitted", "inserting", "locked"} =>
                    \A s \in swept'[x] : holder'[s] = x
      BY <2>4, <2>5, OthersKeepWorking
    <2>7. stage'[r] = "swept" /\ \A s \in swept'[r] : holder'[s] = r
      BY <1>0, <1>4, <2>1 DEF Sweep, Goes, MemoryTyped
    <2>8. SessionsAreLocked'
      BY <2>6, <2>7 DEF SessionsAreLocked
    <2> QED  BY <2>2, <2>3, <2>8 DEF StoreInv
  <1>5. CASE CreateOrGet(r)
    <2>1. job[r] \in Calls /\ stage[r] = "swept" /\ \A s \in swept[r] : holder[s] = r
      BY <1>0, <1>5, SweptLocked DEF CreateOrGet, Goes, MemoryTyped, CleanUpJob, Kind
    <2>2. CASE Reusable(r) /\ Goes(r, "swept", "admitted")
               /\ loaded' = [loaded EXCEPT ![r] = row[Session(r)]]
      <3>1. row[Session(r)] \in Row
        BY <1>0, <2>1, <2>2, CallTypes DEF Reusable, Session, RowsTyped
      <3>2. TypeOK'
        BY <1>0, <1>5, <2>2, <3>1 DEF CreateOrGet, Goes, rows, answer, TypeOK, RowsTyped,
                                      MemoryTyped, Stages, EvaluationTable
      <3>3. TasksOK'
        BY <1>0, <1>5, <2>1, <2>2, <3>1
        DEF CreateOrGet, Goes, TasksOK, MemoryTyped, NeedsCategory, Kind, Category
      <3>4. SessionsAreLocked'
        BY <1>0, <1>5, <2>1, <2>2, OthersKeepWorking
        DEF CreateOrGet, Goes, rows, MemoryTyped, SessionsAreLocked
      <3> QED  BY <3>2, <3>3, <3>4 DEF StoreInv
    <2>3. CASE Goes(r, "swept", "inserting") /\ UNCHANGED loaded
      <3>1. TypeOK'
        BY <1>0, <1>5, <2>3 DEF CreateOrGet, Goes, rows, answer, TypeOK, RowsTyped,
                                MemoryTyped, Stages, EvaluationTable
      <3>2. TasksOK'
        BY <1>0, <1>5, <2>1, <2>3
        DEF CreateOrGet, Goes, TasksOK, MemoryTyped, NeedsCategory, Kind, Category
      <3>3. SessionsAreLocked'
        BY <1>0, <1>5, <2>1, <2>3, OthersKeepWorking
        DEF CreateOrGet, Goes, rows, MemoryTyped, SessionsAreLocked
      <3> QED  BY <3>1, <3>2, <3>3 DEF StoreInv
    <2> QED  BY <1>5, <2>2, <2>3 DEF CreateOrGet
  <1>6. CASE Flush(r)
    <2>1. job[r] \in Calls /\ Session(r) \in Sessions
      BY <1>0, <1>6, CallTypes DEF Flush, Goes, TasksOK, Session
    <2>2. TypeOK'
      BY <1>0, <1>6, <2>1 DEF Flush, Goes, rows, memory, answer, TypeOK, RowsTyped,
                              MemoryTyped, Stages, EvaluationTable
    <2>3. TasksOK'
      BY <1>0, <1>6 DEF Flush, Goes, memory, TasksOK, MemoryTyped, NeedsCategory, Kind, Category
    <2>4. \A s \in swept[r] : holder[s] = r
      BY <1>6 DEF Flush, Goes, StoreInv, SessionsAreLocked
    <2>5. holder' = [holder EXCEPT ![Session(r)] = r] /\ holder[Session(r)] = NoTask
          /\ row[Session(r)] # NoRow /\ Session(r)' = Session(r)
      BY <1>6 DEF Flush, memory, Session
    <2>6. stage' = [stage EXCEPT ![r] = "locked"] /\ UNCHANGED <<row, job, loaded, swept>>
      BY <1>6 DEF Flush, Goes, memory, rows
    <2>7. \A s \in swept'[r] : holder'[s] = r
      BY <1>0, <2>4, <2>5, <2>6 DEF MemoryTyped
    <2>8. holder'[Session(r)'] = r /\ row'[Session(r)'] # NoRow
      BY <1>0, <2>1, <2>5, <2>6 DEF MemoryTyped
    <2>9. \A x \in Tasks \ {r} :
             /\ stage'[x] \in {"locked", "loaded"} =>
                    holder'[Session(x)'] = x /\ row'[Session(x)'] # NoRow
             /\ stage'[x] \in {"swept", "admitted", "inserting", "locked"} =>
                    \A s \in swept'[x] : holder'[s] = x
      BY <1>0, <2>5, <2>6, OthersKeepWorking DEF MemoryTyped
    <2>10. SessionsAreLocked'
      BY <2>7, <2>8, <2>9 DEF SessionsAreLocked
    <2> QED  BY <2>2, <2>3, <2>10 DEF StoreInv
  <1>7. CASE FlushMisses(r)
    BY <1>0, <1>7, RollBackKeepsStore DEF FlushMisses
  <1>8. CASE Load(r)
    <2>1. stage[r] = "locked" /\ NeedsCategory(r) /\ Category(r) \in Categories
          /\ fact[Session(r)] \in FactTable /\ swept[r] = {}
      BY <1>0, <1>8, Working DEF Load, Goes, TasksOK, NeedsCategory, Kind, RowsTyped
    <2>2. CategoryFacts(fact[Session(r)], Category(r)) \in CategoryDict
      BY <2>1, CategoryFactsType
    <2>3. TypeOK'
      BY <1>0, <1>8, <2>2 DEF Load, Goes, rows, answer, TypeOK, RowsTyped, MemoryTyped,
                              Stages, EvaluationTable
    <2>4. TasksOK'
      BY <1>0, <1>8, <2>1 DEF Load, Goes, TasksOK, MemoryTyped, NeedsCategory, Kind, Category
    <2>5. SessionsAreLocked'
      BY <1>0, <1>8, <2>1 DEF Load, Goes, rows, MemoryTyped, StoreInv, SessionsAreLocked, Session
    <2> QED  BY <2>3, <2>4, <2>5 DEF StoreInv
  <1>9. CASE Commit(r)
    BY <1>9, CommitKeepsStore
  <1>10. CASE Respond(r)
    <2>1. TypeOK'
      BY <1>0, <1>10, DefaultTypes
      DEF Respond, Releases, Goes, rows, TypeOK, RowsTyped, MemoryTyped, Stages, Statuses,
          EvaluationTable
    <2>2. TasksOK'
      BY <1>0, <1>10
      DEF Respond, Releases, Goes, TasksOK, MemoryTyped, NeedsCategory, Kind, Category
    <2>3. SessionsAreLocked'
      BY <1>0, <1>10, OthersKeepWorking
      DEF Respond, Releases, Goes, rows, MemoryTyped, SessionsAreLocked
    <2> QED  BY <2>1, <2>2, <2>3 DEF StoreInv
  <1> QED
    BY <1>1, <1>2, <1>3, <1>4, <1>5, <1>6, <1>7, <1>8, <1>9, <1>10 DEF Step

-----------------------------------------------------------------------------
(* The invariant.                                                          *)

LEMMA NextKeepsStore == StoreInv /\ [Next]_vars => StoreInv'
  <1> SUFFICES ASSUME StoreInv, [Next]_vars PROVE StoreInv'
    OBVIOUS
  <1>0. RowsTyped /\ MemoryTyped /\ clock \in Nat /\ catalog \in [Policies -> CatalogEntry]
    BY TypeParts DEF StoreInv
  <1>1. ASSUME NEW r \in Requests, NEW call \in Workload, Arrive(r, call)
        PROVE  StoreInv'
    <2>1. r \in Tasks /\ call \in Calls /\ job' = [job EXCEPT ![r] = call]
      BY <1>1, StoreAssumption DEF Arrive, Tasks
    <2>2. TypeOK'
      BY <1>0, <1>1, <2>1 DEF Arrive, Goes, rows, answer, TypeOK, RowsTyped, MemoryTyped,
                              Stages, EvaluationTable
    <2>3. swept[r] = {}
      BY <1>1, <2>1 DEF Arrive, Goes, StoreInv, TasksOK
    <2>4. TasksOK'
      BY <1>0, <1>1, <2>1, <2>3
      DEF Arrive, Goes, StoreInv, TasksOK, MemoryTyped, NeedsCategory, Kind, Category
    <2>5. SessionsAreLocked'
      BY <1>0, <1>1, <2>1, OthersKeepWorking
      DEF Arrive, Goes, rows, MemoryTyped, SessionsAreLocked
    <2> QED  BY <2>2, <2>4, <2>5 DEF StoreInv
  <1>2. CASE WakeJanitor
    <2>1. Janitor \in Tasks
      BY DEF Tasks
    <2>2. TypeOK'
      BY <1>0, <1>2, <2>1 DEF WakeJanitor, Goes, rows, answer, TypeOK, RowsTyped, MemoryTyped,
                              Stages, EvaluationTable
    <2>3. swept[Janitor] = {}
      BY <1>2, <2>1 DEF WakeJanitor, Goes, StoreInv, TasksOK
    <2>4. TasksOK'
      BY <1>0, <1>2, <2>1, <2>3
      DEF WakeJanitor, Goes, StoreInv, TasksOK, MemoryTyped, NeedsCategory, Kind, Category
    <2>5. SessionsAreLocked'
      BY <1>0, <1>2, <2>1, OthersKeepWorking
      DEF WakeJanitor, Goes, rows, MemoryTyped, SessionsAreLocked
    <2> QED  BY <2>2, <2>4, <2>5 DEF StoreInv
  <1>3. ASSUME NEW r \in Tasks, Step(r)
        PROVE  StoreInv'
    BY <1>3, StepKeepsStore
  <1>4. ASSUME NEW r \in Tasks, Fail(r)
        PROVE  StoreInv'
    BY <1>4, RollBackKeepsStore DEF Fail, Statuses
  <1>5. CASE Tick
    BY <1>0, <1>5
    DEF Tick, rows, memory, answer, StoreInv, TypeOK, RowsTyped, MemoryTyped, EvaluationTable,
        TasksOK, SessionsAreLocked, NeedsCategory, Kind, Category, Session
  <1>6. ASSUME NEW p \in Policies, NEW state \in Revisions, Revise(p, state)
        PROVE  StoreInv'
    <2>1. catalog' \in [Policies -> CatalogEntry]
      BY <1>0, <1>6, StoreAssumption DEF Revise, CatalogEntry
    <2> QED
      BY <1>0, <1>6, <2>1
      DEF Revise, rows, memory, answer, StoreInv, TypeOK, RowsTyped, MemoryTyped,
          EvaluationTable, TasksOK, SessionsAreLocked, NeedsCategory, Kind, Category, Session
  <1>7. CASE UNCHANGED vars
    BY <1>7
    DEF vars, rows, memory, answer, StoreInv, TypeOK, TasksOK, SessionsAreLocked,
        NeedsCategory, Kind, Category, Session
  <1> QED
    BY <1>1, <1>2, <1>3, <1>4, <1>5, <1>6, <1>7 DEF Next

THEOREM StoreInvariant == Spec => []StoreInv
  <1>1. Init => StoreInv
    BY StoreInvInit
  <1>2. StoreInv /\ [Next]_vars => StoreInv'
    BY NextKeepsStore
  <1> QED  BY <1>1, <1>2, PTL DEF Spec

\* Every reachable state is well-typed: no sequence of calls, failures and
\* clean-ups leaves a row, a fact, an evaluation or a task malformed.
THEOREM TypeCorrect == Spec => []TypeOK
  <1>1. StoreInv => TypeOK
    BY DEF StoreInv
  <1> QED  BY <1>1, StoreInvariant, PTL

\* Whatever requests and clean-ups run at the same time, a transaction past its
\* flush holds the lock of its session, and nobody removes the row under it.
THEOREM LocksAreHeld == Spec => []SessionsAreLocked
  <1>1. StoreInv => SessionsAreLocked
    BY DEF StoreInv
  <1> QED  BY <1>1, StoreInvariant, PTL

-----------------------------------------------------------------------------
(* What the row locks buy: the facts a handler decides on are the facts it *)
(* commits against, and evaluations never outlive the facts or the session *)
(* they were made from.                                                    *)

-----------------------------------------------------------------------------
(* The frame of a step: what it leaves alone.                              *)

Untouched(x) ==
    /\ stage'[x] = stage[x] /\ job'[x] = job[x] /\ loaded'[x] = loaded[x]
    /\ facts'[x] = facts[x] /\ offers'[x] = offers[x]
    /\ reply'[x] = reply[x] /\ followUps'[x] = followUps[x]

\* A step of one task leaves the other tasks alone, the catalog, and the facts
\* and evaluations of every session whose lock the task does not hold.
LEMMA StepFrame ==
    ASSUME StoreInv, NEW r \in Tasks, Step(r) \/ Fail(r)
    PROVE  /\ catalog' = catalog
           /\ \A x \in Tasks \ {r} : Untouched(x)
           /\ \A s \in Sessions : holder[s] # r =>
                  fact'[s] = fact[s] /\ evaluation'[s] = evaluation[s]
  <1> DEFINE Frame == /\ catalog' = catalog
                      /\ \A x \in Tasks \ {r} : Untouched(x)
                      /\ \A s \in Sessions : holder[s] # r =>
                             fact'[s] = fact[s] /\ evaluation'[s] = evaluation[s]
  <1>0. RowsTyped /\ MemoryTyped
    BY TypeParts DEF StoreInv
  <1>1. CASE Admit(r) \/ Sweep(r) \/ CreateOrGet(r) \/ Flush(r) \/ Load(r) \/ Respond(r)
    BY <1>0, <1>1
    DEF Admit, Sweep, CreateOrGet, Flush, Load, Respond, Releases, Goes, rows, memory,
        answer, MemoryTyped, Untouched
  <1>2. ASSUME NEW status, RollsBack(r, status)
        PROVE  Frame
    BY <1>0, <1>2 DEF RollsBack, Ends, Replies, Releases, rows, MemoryTyped, Untouched
  <1>3. CASE Refuse(r) \/ FlushMisses(r) \/ EvaluateBreaks(r) \/ Fail(r)
    BY <1>2, <1>3 DEF Refuse, FlushMisses, EvaluateBreaks, Fail
  <1>4. CASE FindForDelete(r)
    <2>1. CASE row[Session(r)] = NoRow
      BY <1>2, <1>4, <2>1 DEF FindForDelete
    <2>2. CASE row[Session(r)] # NoRow
      BY <1>0, <1>4, <2>2 DEF FindForDelete, Goes, rows, answer, MemoryTyped, Untouched
    <2> QED  BY <2>1, <2>2
  <1>5. ASSUME NEW status, Ends(r, status)
        PROVE  \A x \in Tasks \ {r} : Untouched(x)
    BY <1>0, <1>5 DEF Ends, Replies, Releases, MemoryTyped, Untouched
  <1>6. CASE CommitAccess(r) \/ CommitNext(r) \/ CommitConflict(r)
    BY <1>5, <1>6 DEF CommitAccess, CommitNext, CommitConflict
  <1>7. CASE CommitPut(r) \/ CommitReset(r) \/ CommitEvaluate(r)
    <2>1. holder[Session(r)] = r /\ Session(r) \in Sessions
      BY <1>7, Working DEF CommitPut, CommitReset, CommitEvaluate
    <2> QED
      BY <1>0, <1>5, <1>7, <2>1 DEF CommitPut, CommitReset, CommitEvaluate, RowsTyped
  <1>8. CASE CommitAnswers(r)
    <2>1. holder[Session(r)] = r /\ Session(r) \in Sessions
      BY <1>8, Working DEF CommitAnswers
    <2>2. \A x \in Tasks \ {r} : Untouched(x)
      BY <1>0, <1>8 DEF CommitAnswers, Replies, MemoryTyped, Untouched
    <2> QED  BY <1>0, <1>8, <2>1, <2>2 DEF CommitAnswers, RowsTyped
  <1>9. CASE CommitDelete(r)
    <2>1. holder[Session(r)] = r
      BY <1>9, Working DEF CommitDelete
    <2> QED  BY <1>5, <1>9, <2>1 DEF CommitDelete, Cascades
  <1>10. CASE CommitCleanUp(r) \/ CommitRenewal(r) \/ \E s \in Sessions : CommitInsert(r, s)
    <2>1. Cascades(swept[r]) /\ \A s \in swept[r] : holder[s] = r
      BY <1>10, SweptLocked DEF CommitCleanUp, CommitRenewal, CommitInsert
    <2> QED  BY <1>5, <1>10, <2>1 DEF CommitCleanUp, CommitRenewal, CommitInsert, Cascades
  <1> QED
    BY <1>1, <1>3, <1>4, <1>6, <1>7, <1>8, <1>9, <1>10 DEF Step, Commit

\* The steps of clients, of time and of operators do not touch the rows.
LEMMA WorldFrame ==
    ASSUME StoreInv,
           \/ \E r \in Requests, call \in Workload : Arrive(r, call)
           \/ WakeJanitor
           \/ Tick
           \/ \E p \in Policies, state \in Revisions : Revise(p, state)
           \/ UNCHANGED vars
    PROVE  /\ fact' = fact /\ evaluation' = evaluation /\ row' = row
           /\ \A x \in Tasks : stage'[x] = "loaded" => stage[x] = "loaded" /\ Untouched(x)
  <1>0. MemoryTyped
    BY TypeParts DEF StoreInv
  <1>1. ASSUME NEW r \in Requests, NEW call \in Workload, Arrive(r, call)
        PROVE  \A x \in Tasks : stage'[x] = "loaded" => stage[x] = "loaded" /\ Untouched(x)
    BY <1>0, <1>1 DEF Arrive, Goes, answer, MemoryTyped, Untouched
  <1>2. CASE WakeJanitor
    BY <1>0, <1>2 DEF WakeJanitor, Goes, rows, answer, MemoryTyped, Untouched
  <1> QED
    BY <1>1, <1>2 DEF Arrive, WakeJanitor, Tick, Revise, vars, rows, memory, answer, Untouched

-----------------------------------------------------------------------------
(* Snapshots.                                                              *)

\* The facts of a task past its read are those of its category.
LEMMA StepKeepsSnapshots ==
    ASSUME StoreInv, SnapshotsAreCurrent, NEW r \in Tasks, Step(r) \/ Fail(r)
    PROVE  SnapshotsAreCurrent'
  <1>0. MemoryTyped /\ RowsTyped
    BY TypeParts DEF StoreInv
  <1>1. ASSUME NEW x \in Tasks \ {r}, stage'[x] = "loaded"
        PROVE  facts'[x] = CategoryFacts(fact'[Session(x)'], Category(x)')
    <2>1. Untouched(x) /\ stage[x] = "loaded"
      BY <1>1, StepFrame DEF Untouched
    <2>2. Session(x) \in Sessions /\ holder[Session(x)] = x
      BY <2>1, Working
    <2>3. fact'[Session(x)] = fact[Session(x)]
      BY <1>1, <2>2, StepFrame
    <2> QED  BY <2>1, <2>3 DEF SnapshotsAreCurrent, Untouched, Session, Category
  <1>2. ASSUME stage'[r] = "loaded"
        PROVE  facts'[r] = CategoryFacts(fact'[Session(r)'], Category(r)')
    <2>1. Load(r)
      BY <1>0, <1>2
      DEF Step, Fail, Commit, Admit, Refuse, FindForDelete, Sweep, CreateOrGet, Flush,
          FlushMisses, Respond, CommitAccess, CommitNext, CommitPut, CommitReset,
          CommitConflict, CommitAnswers, CommitEvaluate, EvaluateBreaks, CommitDelete,
          CommitCleanUp, CommitRenewal, CommitInsert, RollsBack, Ends, Replies, Goes,
          MemoryTyped
    <2> QED  BY <1>0, <2>1 DEF Load, rows, Session, Category, MemoryTyped
  <1> QED  BY <1>1, <1>2 DEF SnapshotsAreCurrent

SnapshotInv == StoreInv /\ SnapshotsAreCurrent

LEMMA NextKeepsSnapshots == SnapshotInv /\ [Next]_vars => SnapshotInv'
  <1> SUFFICES ASSUME SnapshotInv, [Next]_vars PROVE SnapshotInv'
    OBVIOUS
  <1>1. StoreInv'
    BY NextKeepsStore DEF SnapshotInv
  <1>2. CASE \E r \in Tasks : Step(r) \/ Fail(r)
    BY <1>2, StepKeepsSnapshots, <1>1 DEF SnapshotInv
  <1>3. CASE ~ \E r \in Tasks : Step(r) \/ Fail(r)
    BY <1>3, WorldFrame, <1>1
    DEF Next, SnapshotInv, SnapshotsAreCurrent, Untouched, Session, Category
  <1> QED  BY <1>2, <1>3

\* What submit_answers, the question endpoints and the evaluations decide on
\* is what they commit against, however requests interleave.
THEOREM SnapshotsStayCurrent == Spec => []SnapshotsAreCurrent
  <1>1. Init => SnapshotInv
    BY StoreInvInit DEF Init, SnapshotInv, SnapshotsAreCurrent
  <1>2. SnapshotInv /\ [Next]_vars => SnapshotInv'
    BY NextKeepsSnapshots
  <1>3. SnapshotInv => SnapshotsAreCurrent
    BY DEF SnapshotInv
  <1> QED  BY <1>1, <1>2, <1>3, PTL DEF Spec

-----------------------------------------------------------------------------
(* Evaluations.                                                            *)

\* An evaluation of p, made from a session with these facts, is not from an
\* edition that is still to come.  One of the present edition was made while the
\* policy could be evaluated, and if it is ACTIVE it was made from these facts.
EvaluationOK(e, p, table, entry) ==
    e # NoEvaluation =>
        /\ e.edition <= entry.edition
        /\ e.edition = entry.edition =>
               /\ entry.state = "RULED"
               /\ e.state = "ACTIVE" => e.snapshot = CategoryFacts(table, PolicyCategory[p])

EvaluationsOK ==
    \A s \in Sessions, p \in Policies :
        EvaluationOK(evaluation[s][p], p, fact[s], catalog[p])

\* The catalog a task read is the present one, or an earlier edition of it.
OffersOK ==
    \A r \in Tasks, p \in Policies :
        stage[r] = "loaded" =>
            /\ offers[r][p].edition <= catalog[p].edition
            /\ offers[r][p].edition = catalog[p].edition => offers[r][p] = catalog[p]

EvaluationInv == SnapshotInv /\ OffersOK /\ EvaluationsOK

\* No STALE evaluation depends on the facts any more.
LEMMA MarkedStaleOK ==
    ASSUME NEW table \in EvaluationTable, NEW p \in Policies, NEW before, NEW after, NEW entry,
           EvaluationOK(table[p], p, before, entry)
    PROVE  EvaluationOK(MarkedStale(table)[p], p, after, entry)
  <1>1. CASE table[p] = NoEvaluation
    BY <1>1 DEF MarkedStale, EvaluationOK
  <1>2. CASE table[p] # NoEvaluation
    <2>1. table[p] \in Evaluation
      BY <1>2 DEF EvaluationTable
    <2> QED  BY <1>2, <2>1 DEF MarkedStale, EvaluationOK, Evaluation
  <1> QED  BY <1>1, <1>2

\* A reset removes the facts of one category, and its evaluations but those of
\* withdrawn policies.
LEMMA ResetOK ==
    ASSUME NEW table \in EvaluationTable, NEW p \in Policies, NEW c \in Categories,
           NEW before \in FactTable, NEW entries \in [Policies -> CatalogEntry],
           EvaluationOK(table[p], p, before, entries[p])
    PROVE  EvaluationOK(EvaluationsAfterReset(table, c, entries)[p], p,
                        FactsAfterReset(before, c), entries[p])
  <1>1. CASE p \in PoliciesIn(c) /\ entries[p].state # "WITHDRAWN"
    BY <1>1 DEF EvaluationsAfterReset, EvaluationOK
  <1>2. CASE p \in PoliciesIn(c) /\ entries[p].state = "WITHDRAWN"
    BY <1>2 DEF EvaluationsAfterReset, EvaluationOK
  <1>3. CASE p \notin PoliciesIn(c)
    <2>1. PolicyCategory[p] # c /\ PolicyCategory[p] \in Categories
          /\ PolicyCategory[p] # NoCategory
      BY <1>3, SessionDataAssumption DEF PoliciesIn
    <2>2. \A key \in FactKeys : <<PolicyCategory[p], key>> \notin ResetKeys(c)
      BY <2>1 DEF ResetKeys
    <2>3. CategoryFacts(FactsAfterReset(before, c), PolicyCategory[p])
              = CategoryFacts(before, PolicyCategory[p])
      BY <2>1, <2>2 DEF CategoryFacts, FactsAfterReset, ConditionKeys
    <2> QED  BY <1>3, <2>3 DEF EvaluationsAfterReset, EvaluationOK
  <1> QED  BY <1>1, <1>2, <1>3

\* New evaluations are made from the facts of their category.
LEMMA EvaluateOK ==
    ASSUME NEW table \in EvaluationTable, NEW p \in Policies, NEW c \in Categories,
           NEW stored \in FactTable, NEW entries \in [Policies -> CatalogEntry],
           NEW read \in [Policies -> CatalogEntry],
           read[p].edition <= entries[p].edition,
           read[p].edition = entries[p].edition => read[p] = entries[p],
           EvaluationOK(table[p], p, stored, entries[p])
    PROVE  EvaluationOK(EvaluationsAfterEvaluate(table, c, CategoryFacts(stored, c), read)[p],
                        p, stored, entries[p])
  <1>1. CASE p \in PoliciesIn(c) /\ read[p].state = "RULED"
    <2>1. PolicyCategory[p] = c
      BY <1>1 DEF PoliciesIn
    <2> QED  BY <1>1, <2>1 DEF EvaluationsAfterEvaluate, EvaluationOK
  <1>2. CASE ~(p \in PoliciesIn(c) /\ read[p].state = "RULED")
    BY <1>2 DEF EvaluationsAfterEvaluate, EvaluationOK
  <1> QED  BY <1>1, <1>2

\* What a step does to the evaluations of a session whose lock it holds.
LEMMA StepEvaluates ==
    ASSUME EvaluationInv, NEW r \in Tasks, Step(r) \/ Fail(r),
           NEW s \in Sessions, NEW p \in Policies, holder[s] = r
    PROVE  EvaluationOK(evaluation'[s][p], p, fact'[s], catalog'[p])
  <1>0. /\ RowsTyped /\ MemoryTyped /\ StoreInv /\ catalog \in [Policies -> CatalogEntry]
        /\ EvaluationOK(evaluation[s][p], p, fact[s], catalog[p])
        /\ catalog' = catalog
    BY TypeParts, StepFrame DEF EvaluationInv, SnapshotInv, StoreInv, EvaluationsOK
  <1>1. CASE UNCHANGED <<fact, evaluation>>
    BY <1>0, <1>1
  <1>2. ASSUME NEW S, Cascades(S)
        PROVE  EvaluationOK(evaluation'[s][p], p, fact'[s], catalog'[p])
    BY <1>0, <1>2 DEF Cascades, NoEvaluations, EvaluationOK
  <1>3. ASSUME stage[r] \in {"locked", "loaded"}, s # Session(r),
               \/ CommitPut(r) \/ CommitReset(r) \/ CommitAnswers(r) \/ CommitEvaluate(r)
        PROVE  EvaluationOK(evaluation'[s][p], p, fact'[s], catalog'[p])
    BY <1>0, <1>3 DEF CommitPut, CommitReset, CommitAnswers, CommitEvaluate, RowsTyped
  <1>4. CASE CommitPut(r)
    BY <1>0, <1>3, <1>4, MarkedStaleOK DEF CommitPut, RowsTyped
  <1>5. CASE CommitAnswers(r)
    BY <1>0, <1>3, <1>5, MarkedStaleOK DEF CommitAnswers, RowsTyped
  <1>6. CASE CommitReset(r)
    <2>1. job[r].category \in Categories
      BY <1>0, <1>6, Working, CallTypes DEF CommitReset, Kind
    <2> QED  BY <1>0, <1>3, <1>6, <2>1, ResetOK DEF CommitReset, RowsTyped
  <1>7. CASE CommitEvaluate(r)
    <2>1. CASE s = Session(r)
      <3>1. Category(r) \in Categories
        BY <1>0, <1>7 DEF CommitEvaluate, StoreInv, TasksOK, NeedsCategory
      <3>2. facts[r] = CategoryFacts(fact[s], Category(r))
        BY <1>7, <2>1 DEF CommitEvaluate, EvaluationInv, SnapshotInv, SnapshotsAreCurrent
      <3>3. offers[r] \in [Policies -> CatalogEntry]
            /\ offers[r][p].edition <= catalog[p].edition
            /\ (offers[r][p].edition = catalog[p].edition => offers[r][p] = catalog[p])
        BY <1>0, <1>7 DEF CommitEvaluate, MemoryTyped, EvaluationInv, OffersOK
      <3>4. evaluation'[s] = EvaluationsAfterEvaluate(evaluation[s], Category(r), facts[r], offers[r])
            /\ fact' = fact
        BY <1>0, <1>7, <2>1 DEF CommitEvaluate, RowsTyped
      <3>5. evaluation[s] \in EvaluationTable /\ fact[s] \in FactTable
        BY <1>0 DEF RowsTyped
      <3>6. EvaluationOK(EvaluationsAfterEvaluate(evaluation[s], Category(r),
                             CategoryFacts(fact[s], Category(r)), offers[r])[p],
                         p, fact[s], catalog[p])
        BY <1>0, <3>1, <3>3, <3>5, EvaluateOK
      <3> QED  BY <1>0, <3>2, <3>4, <3>6
    <2>2. CASE s # Session(r)
      BY <1>3, <1>7, <2>2 DEF CommitEvaluate
    <2> QED  BY <2>1, <2>2
  <1>8. CASE CommitDelete(r) \/ CommitCleanUp(r) \/ CommitRenewal(r)
             \/ \E x \in Sessions : CommitInsert(r, x)
    BY <1>2, <1>8 DEF CommitDelete, CommitCleanUp, CommitRenewal, CommitInsert
  <1> QED
    BY <1>1, <1>4, <1>5, <1>6, <1>7, <1>8
    DEF Step, Fail, Commit, Admit, Refuse, FindForDelete, Sweep, CreateOrGet, Flush,
        FlushMisses, Load, Respond, CommitAccess, CommitNext, CommitConflict, EvaluateBreaks,
        RollsBack, rows

LEMMA StepKeepsOffers ==
    ASSUME EvaluationInv, NEW r \in Tasks, Step(r) \/ Fail(r)
    PROVE  OffersOK'
  <1>0. MemoryTyped /\ StoreInv /\ catalog \in [Policies -> CatalogEntry] /\ catalog' = catalog
    BY TypeParts, StepFrame DEF EvaluationInv, SnapshotInv, StoreInv
  <1>1. ASSUME NEW x \in Tasks \ {r}, stage'[x] = "loaded"
        PROVE  stage[x] = "loaded" /\ offers'[x] = offers[x]
    BY <1>0, <1>1, StepFrame DEF Untouched
  <1>2. ASSUME stage'[r] = "loaded"
        PROVE  offers'[r] = catalog
    <2>1. Load(r)
      BY <1>0, <1>2
      DEF Step, Fail, Commit, Admit, Refuse, FindForDelete, Sweep, CreateOrGet, Flush,
          FlushMisses, Respond, CommitAccess, CommitNext, CommitPut, CommitReset,
          CommitConflict, CommitAnswers, CommitEvaluate, EvaluateBreaks, CommitDelete,
          CommitCleanUp, CommitRenewal, CommitInsert, RollsBack, Ends, Replies, Goes,
          MemoryTyped
    <2> QED  BY <1>0, <2>1 DEF Load, MemoryTyped
  <1>3. \A p \in Policies : catalog[p].edition \in Nat
    BY <1>0 DEF CatalogEntry
  <1> QED  BY <1>0, <1>1, <1>2, <1>3 DEF OffersOK, EvaluationInv

\* An operator's edit makes every evaluation, and every read, an earlier one.
LEMMA ReviseKeepsEvaluations ==
    ASSUME EvaluationInv, NEW q \in Policies, NEW state \in Revisions, Revise(q, state)
    PROVE  OffersOK' /\ EvaluationsOK'
  <1>0. /\ RowsTyped /\ MemoryTyped /\ catalog \in [Policies -> CatalogEntry]
        /\ fact' = fact /\ evaluation' = evaluation /\ stage' = stage /\ offers' = offers
    BY TypeParts DEF EvaluationInv, SnapshotInv, StoreInv, Revise, rows, memory
  <1>1. /\ \A p \in Policies \ {q} : catalog'[p] = catalog[p]
        /\ catalog'[q].edition = catalog[q].edition + 1
    BY <1>0 DEF Revise
  <1>2. \A p \in Policies : catalog[p].edition \in Nat
    BY <1>0 DEF CatalogEntry
  <1>3. \A s \in Sessions, p \in Policies :
            evaluation[s][p] # NoEvaluation => evaluation[s][p].edition \in Nat
    BY <1>0 DEF RowsTyped, EvaluationTable, Evaluation
  <1>4. \A r \in Tasks, p \in Policies : offers[r][p].edition \in Nat
    BY <1>0 DEF MemoryTyped, CatalogEntry
  <1>5. OffersOK'
    BY <1>0, <1>1, <1>2, <1>4 DEF OffersOK, EvaluationInv
  <1>6. EvaluationsOK'
    BY <1>0, <1>1, <1>2, <1>3 DEF EvaluationsOK, EvaluationOK, EvaluationInv
  <1> QED  BY <1>5, <1>6

LEMMA NextKeepsEvaluations == EvaluationInv /\ [Next]_vars => EvaluationInv'
  <1> SUFFICES ASSUME EvaluationInv, [Next]_vars PROVE EvaluationInv'
    OBVIOUS
  <1>1. SnapshotInv'
    BY NextKeepsSnapshots DEF EvaluationInv
  <1>2. ASSUME NEW r \in Tasks, Step(r) \/ Fail(r)
        PROVE  OffersOK' /\ EvaluationsOK'
    <2>1. OffersOK'
      BY <1>2, StepKeepsOffers
    <2>2. ASSUME NEW s \in Sessions, NEW p \in Policies, holder[s] # r
          PROVE  EvaluationOK(evaluation'[s][p], p, fact'[s], catalog'[p])
      BY <1>2, <2>2, StepFrame DEF EvaluationInv, SnapshotInv, EvaluationsOK
    <2>3. EvaluationsOK'
      BY <1>2, <2>2, StepEvaluates DEF EvaluationsOK
    <2> QED  BY <2>1, <2>3
  <1>3. ASSUME NEW p \in Policies, NEW state \in Revisions, Revise(p, state)
        PROVE  OffersOK' /\ EvaluationsOK'
    BY <1>3, ReviseKeepsEvaluations
  <1>4. ASSUME \/ \E r \in Requests, call \in Workload : Arrive(r, call)
               \/ WakeJanitor \/ Tick \/ UNCHANGED vars
        PROVE  OffersOK' /\ EvaluationsOK'
    <2>1. catalog' = catalog
      BY <1>4 DEF Arrive, WakeJanitor, Tick, vars
    <2>2. /\ fact' = fact /\ evaluation' = evaluation
          /\ \A x \in Tasks : stage'[x] = "loaded" => stage[x] = "loaded" /\ Untouched(x)
      BY <1>4, WorldFrame DEF EvaluationInv, SnapshotInv
    <2> QED
      BY <2>1, <2>2 DEF EvaluationInv, OffersOK, EvaluationsOK, EvaluationOK, Untouched
  <1> QED  BY <1>1, <1>2, <1>3, <1>4 DEF Next, EvaluationInv

\* No interleaving of requests, edits, failures and clean-ups leaves an ACTIVE
\* evaluation of the present edition of a policy that was made from facts the
\* session no longer has.
THEOREM ActiveEvaluationsStayCurrent == Spec => []ActiveEvaluationsAreCurrent
  <1>1. Init => EvaluationInv
    <2> SUFFICES ASSUME Init PROVE EvaluationInv
      OBVIOUS
    <2>1. Ledger!NoEvaluations = NoEvaluations
      BY DEF Ledger!NoEvaluations, NoEvaluations
    <2>2. EvaluationsOK
      BY <2>1 DEF Init, Ledger!Init, EvaluationsOK, EvaluationOK, NoEvaluations
    <2> QED
      BY StoreInvInit, <2>2 DEF Init, EvaluationInv, SnapshotInv, SnapshotsAreCurrent, OffersOK
  <1>2. EvaluationInv /\ [Next]_vars => EvaluationInv'
    BY NextKeepsEvaluations
  <1>3. EvaluationInv => ActiveEvaluationsAreCurrent
    BY DEF EvaluationInv, EvaluationsOK, EvaluationOK, ActiveEvaluationsAreCurrent
  <1> QED  BY <1>1, <1>2, <1>3, PTL DEF Spec

-----------------------------------------------------------------------------
(* Sessions that are gone.                                                 *)

\* A commit that saves the session it has locked, and touches what hangs on that
\* session alone, writes under a row.
LEMMA SaveLeavesNothing ==
    ASSUME StoreInv, NothingOutlivesItsSession, NEW r \in Tasks,
           stage[r] \in {"locked", "loaded"},
           NEW c \in Categories \cup {NoCategory}, SavesRow(r, c),
           \A s \in Sessions : s # Session(r) =>
               fact'[s] = fact[s] /\ evaluation'[s] = evaluation[s]
    PROVE  NothingOutlivesItsSession'
  <1>1. Session(r) \in Sessions /\ Saved(r, c) # NoRow
    BY Working, SavedType, RowAssumption
  <1>2. row \in [Sessions -> Row \cup {NoRow}]
    BY DEF StoreInv, TypeOK
  <1>3. /\ row'[Session(r)] # NoRow
        /\ \A s \in Sessions : s # Session(r) => row'[s] = row[s]
    BY <1>1, <1>2 DEF SavesRow
  <1> QED  BY <1>3 DEF NothingOutlivesItsSession

\* A commit that removes rows cascades from every row it removes.
LEMMA CascadeLeavesNothing ==
    ASSUME NothingOutlivesItsSession, NEW S, Cascades(S),
           \A s \in Sessions : row'[s] = NoRow => s \in S \/ row[s] = NoRow
    PROVE  NothingOutlivesItsSession'
  BY DEF NothingOutlivesItsSession, Cascades

LEMMA StepLeavesNothing ==
    ASSUME StoreInv, NothingOutlivesItsSession, NEW r \in Tasks, Step(r) \/ Fail(r)
    PROVE  NothingOutlivesItsSession'
  <1>0. RowsTyped /\ MemoryTyped
    BY TypeParts DEF StoreInv
  <1>1. CASE UNCHANGED <<row, fact, evaluation>>
    BY <1>1 DEF NothingOutlivesItsSession
  <1>2. CASE CommitAccess(r)
    <2>1. stage[r] = "locked" /\ fact' = fact /\ evaluation' = evaluation
      BY <1>2 DEF CommitAccess
    <2>2. \E c \in Categories \cup {NoCategory} : SavesRow(r, c)
      BY <1>2, Working, CallTypes DEF CommitAccess, Kind
    <2> QED  BY <2>1, <2>2, SaveLeavesNothing
  <1>3. CASE CommitNext(r) \/ CommitConflict(r)
    <2>1. stage[r] = "loaded" /\ SavesRow(r, Category(r))
          /\ fact' = fact /\ evaluation' = evaluation
      BY <1>3 DEF CommitNext, CommitConflict
    <2> QED  BY <2>1, Working, SaveLeavesNothing
  <1>4. CASE CommitPut(r) \/ CommitAnswers(r) \/ CommitEvaluate(r)
    <2>1. stage[r] \in {"locked", "loaded"} /\ SavesRow(r, Category(r))
      BY <1>4 DEF CommitPut, CommitAnswers, CommitEvaluate
    <2>2. \A s \in Sessions : s # Session(r) =>
              fact'[s] = fact[s] /\ evaluation'[s] = evaluation[s]
      BY <1>0, <1>4 DEF CommitPut, CommitAnswers, CommitEvaluate, RowsTyped
    <2> QED  BY <2>1, <2>2, Working, SaveLeavesNothing
  <1>5. CASE CommitReset(r)
    <2>1. stage[r] = "locked" /\ SavesRow(r, job[r].category)
          /\ job[r].category \in Categories \cup {NoCategory}
      BY <1>5, Working, CallTypes DEF CommitReset, Kind
    <2>2. \A s \in Sessions : s # Session(r) =>
              fact'[s] = fact[s] /\ evaluation'[s] = evaluation[s]
      BY <1>0, <1>5 DEF CommitReset, RowsTyped
    <2> QED  BY <2>1, <2>2, SaveLeavesNothing
  <1>6. CASE CommitDelete(r)
    <2>1. Cascades({Session(r)})
          /\ \A s \in Sessions : s # Session(r) => row'[s] = row[s]
      BY <1>0, <1>6 DEF CommitDelete, RowsTyped
    <2> QED  BY <2>1, CascadeLeavesNothing
  <1>7. CASE CommitCleanUp(r)
    <2>1. Cascades(swept[r])
          /\ \A s \in Sessions : row'[s] = NoRow => s \in swept[r] \/ row[s] = NoRow
      BY <1>7 DEF CommitCleanUp
    <2> QED  BY <2>1, CascadeLeavesNothing
  <1>8. CASE CommitRenewal(r)
    <2>1. stage[r] = "locked" /\ Saved(r, Category(r)) # NoRow
      BY <1>8, Working, SavedType, RowAssumption DEF CommitRenewal
    <2>2. Cascades(swept[r])
          /\ \A s \in Sessions : row'[s] = NoRow => s \in swept[r] \/ row[s] = NoRow
      BY <1>8, <2>1 DEF CommitRenewal
    <2> QED  BY <2>2, CascadeLeavesNothing
  <1>9. ASSUME NEW x \in Sessions, CommitInsert(r, x)
        PROVE  NothingOutlivesItsSession'
    <2>1. NewRow(now[r]) # NoRow
      BY <1>0, NewRowType, RowAssumption DEF MemoryTyped
    <2>2. Cascades(swept[r])
          /\ \A s \in Sessions : row'[s] = NoRow => s \in swept[r] \/ row[s] = NoRow
      BY <1>9, <2>1 DEF CommitInsert
    <2> QED  BY <2>2, CascadeLeavesNothing
  <1> QED
    BY <1>1, <1>2, <1>3, <1>4, <1>5, <1>6, <1>7, <1>8, <1>9
    DEF Step, Fail, Commit, Admit, Refuse, FindForDelete, Sweep, CreateOrGet, Flush,
        FlushMisses, Load, Respond, EvaluateBreaks, RollsBack, rows

LEMMA NextLeavesNothing ==
    StoreInv /\ NothingOutlivesItsSession /\ [Next]_vars => NothingOutlivesItsSession'
  <1> SUFFICES ASSUME StoreInv, NothingOutlivesItsSession, [Next]_vars
               PROVE  NothingOutlivesItsSession'
    OBVIOUS
  <1>1. CASE \E r \in Tasks : Step(r) \/ Fail(r)
    BY <1>1, StepLeavesNothing
  <1>2. CASE ~ \E r \in Tasks : Step(r) \/ Fail(r)
    BY <1>2, WorldFrame DEF Next, NothingOutlivesItsSession
  <1> QED  BY <1>1, <1>2

\* No request that was under way when its session was deleted or swept brings a
\* fact or an evaluation of it back: what commits late has the row, or writes
\* nothing.
THEOREM NothingOutlives == Spec => []NothingOutlivesItsSession
  <1>1. Init => StoreInv /\ NothingOutlivesItsSession
    <2>1. Ledger!NoFacts = NoFacts /\ Ledger!NoEvaluations = NoEvaluations
      BY DEF Ledger!NoFacts, NoFacts, Ledger!NoEvaluations, NoEvaluations, ConditionKeys,
             Ledger!ConditionKeys
    <2> QED  BY <2>1, StoreInvInit DEF Init, Ledger!Init, NothingOutlivesItsSession
  <1>2. StoreInv /\ NothingOutlivesItsSession /\ [Next]_vars
            => (StoreInv /\ NothingOutlivesItsSession)'
    BY NextKeepsStore, NextLeavesNothing
  <1> QED  BY <1>1, <1>2, PTL DEF Spec

-----------------------------------------------------------------------------
(* Follow-up questions.                                                    *)

\* A fact no answer forgets is stored as the handler's dictionary has it.
LEMMA LastAnswerIsStored ==
    ASSUME NEW c \in Categories, NEW table \in FactTable, NEW batch \in Seq(Answer),
           NEW existing, existing = CategoryFacts(table, c), NEW key \in FactKeys,
           \A i \in DOMAIN batch : ~Forgets(c, existing, batch, i, key)
    PROVE  CategoryFacts(FactsAfterAnswers(table, c, existing, batch), c)[key]
               = MergedFacts(existing, batch)[key]
  <1>1. <<c, key>> \in ConditionKeys
    BY DEF ConditionKeys
  <1>2. \A i \in DOMAIN batch : Stores(c, existing, batch, i, key)
                                  <=> IsLastFor(batch, i, key)
    BY DEF Stores, Decides, IsLastFor
  <1>3. \A i \in DOMAIN batch : Decides(c, existing, batch, i, key)
                                  => IsLastFor(batch, i, key)
    BY DEF Decides, IsLastFor
  <1>4. CategoryFacts(FactsAfterAnswers(table, c, existing, batch), c)[key]
            = FactsAfterAnswers(table, c, existing, batch)[<<c, key>>]
    BY DEF CategoryFacts
  <1>5. CASE \E i \in DOMAIN batch : IsLastFor(batch, i, key)
    <2> DEFINE last == CHOOSE i \in DOMAIN batch : IsLastFor(batch, i, key)
               stored == CHOOSE i \in DOMAIN batch : Stores(c, existing, batch, i, key)
    <2>1. last \in DOMAIN batch /\ IsLastFor(batch, last, key)
      BY <1>5
    <2>2. stored \in DOMAIN batch /\ IsLastFor(batch, stored, key)
      BY <1>2, <1>5
    <2>3. DOMAIN batch \subseteq Nat
      OBVIOUS
    <2>4. stored = last
      BY <2>1, <2>2, <2>3 DEF IsLastFor
    <2>5. FactsAfterAnswers(table, c, existing, batch)[<<c, key>>] = batch[stored].value
      BY <1>1, <1>2, <1>5 DEF FactsAfterAnswers
    <2>6. MergedFacts(existing, batch)[key] = batch[last].value
      BY <1>5 DEF MergedFacts
    <2> QED  BY <1>4, <2>4, <2>5, <2>6
  <1>6. CASE ~ \E i \in DOMAIN batch : IsLastFor(batch, i, key)
    <2>1. FactsAfterAnswers(table, c, existing, batch)[<<c, key>>] = table[<<c, key>>]
      BY <1>1, <1>2, <1>3, <1>6 DEF FactsAfterAnswers
    <2>2. MergedFacts(existing, batch)[key] = existing[key]
      BY <1>6 DEF MergedFacts
    <2> QED  BY <1>4, <2>1, <2>2 DEF CategoryFacts
  <1> QED  BY <1>5, <1>6

\* What the handler's dictionary does not have, the batch did not store.
LEMMA MissingIsNotStored ==
    ASSUME NEW c \in Categories, NEW table \in FactTable, NEW batch \in Seq(Answer),
           NEW existing, existing = CategoryFacts(table, c), NEW key \in FactKeys,
           MergedFacts(existing, batch)[key] = NoFact
    PROVE  CategoryFacts(FactsAfterAnswers(table, c, existing, batch), c)[key] = NoFact
  <1>1. <<c, key>> \in ConditionKeys
    BY DEF ConditionKeys
  <1>2. ASSUME NEW j \in DOMAIN batch, IsLastFor(batch, j, key)
        PROVE  FALSE
    <2> DEFINE last == CHOOSE i \in DOMAIN batch : IsLastFor(batch, i, key)
    <2>1. last \in DOMAIN batch
      BY <1>2
    <2>2. batch[last] \in Answer
      BY <2>1
    <2>3. batch[last].value \in Values
      BY <2>2 DEF Answer
    <2>4. MergedFacts(existing, batch)[key] = batch[last].value
      BY <1>2 DEF MergedFacts
    <2> QED  BY <2>3, <2>4, NoFactAssumption
  <1>3. \A i \in DOMAIN batch : ~Stores(c, existing, batch, i, key)
    BY <1>2 DEF Stores, Decides, IsLastFor
  <1>4. existing[key] = NoFact
    BY <1>2 DEF MergedFacts
  <1>5. table[<<c, key>>] = NoFact
    BY <1>4 DEF CategoryFacts
  <1>6. FactsAfterAnswers(table, c, existing, batch)[<<c, key>>] = NoFact
    BY <1>1, <1>3, <1>5 DEF FactsAfterAnswers
  <1> QED  BY <1>6 DEF CategoryFacts

\* What is open for the handler is open in the facts it stored.
LEMMA OpenStaysOpen ==
    ASSUME ConditionsReadRoots, NEW c \in Categories, NEW table \in FactTable,
           NEW batch \in Seq(Answer), NEW existing, existing = CategoryFacts(table, c)
    PROVE  NextQuestions(c, MergedFacts(existing, batch))
               \subseteq UnansweredRequired(c,
                   CategoryFacts(FactsAfterAnswers(table, c, existing, batch), c))
  <1> DEFINE merged == MergedFacts(existing, batch)
             stored == CategoryFacts(FactsAfterAnswers(table, c, existing, batch), c)
  <1>1. SUFFICES ASSUME NEW q \in NextQuestions(c, merged)
                 PROVE  q \in UnansweredRequired(c, stored)
    OBVIOUS
  <1>2. /\ q \in Bank /\ q.category = c /\ q.required
        /\ ShowConditionMatches(q, merged) /\ merged[q.fact_key] = NoFact
    BY DEF NextQuestions, UnansweredRequired, VisibleQuestions, CategoryQuestions
  <1>3. q.fact_key \in FactKeys
    BY <1>2, BankAssumption DEF Questions
  <1>4. stored[q.fact_key] = NoFact
    BY <1>2, <1>3, MissingIsNotStored
  <1>5. ASSUME q.show # NoCondition
        PROVE  ShowConditionMatches(q, stored)
    <2>1. /\ q.show.fact_key \in FactKeys
          /\ \A key \in FactKeys : q.show.fact_key \notin DependentFactKeys(c, key)
      BY <1>2, <1>5 DEF ConditionsReadRoots
    <2>2. \A i \in DOMAIN batch : batch[i] \in Answer
      OBVIOUS
    <2>3. \A i \in DOMAIN batch : ~Forgets(c, existing, batch, i, q.show.fact_key)
      BY <2>1, <2>2 DEF Forgets, Answer
    <2>4. stored[q.show.fact_key] = merged[q.show.fact_key]
      BY <2>1, <2>3, LastAnswerIsStored
    <2> QED  BY <1>2, <1>5, <2>4 DEF ShowConditionMatches
  <1>6. ShowConditionMatches(q, stored)
    <2>1. CASE q.show = NoCondition
      BY <2>1 DEF ShowConditionMatches
    <2> QED  BY <1>5, <2>1
  <1> QED
    BY <1>2, <1>4, <1>6 DEF UnansweredRequired, VisibleQuestions, CategoryQuestions

\* The questions of an answer that stored something are open in what it stored.
FollowUpsOK ==
    \A r \in Tasks :
        (stage[r] = "done" /\ reply[r] = "STORED")
            => followUps[r] \subseteq UnansweredRequired(Category(r), facts[r])

FollowUpInv == SnapshotInv /\ FollowUpsOK

LEMMA AnswersKeepFollowUps ==
    ASSUME ConditionsReadRoots, FollowUpInv, NEW r \in Tasks, CommitAnswers(r)
    PROVE  followUps'[r] \subseteq UnansweredRequired(Category(r)', facts'[r])
  <1>0. RowsTyped /\ MemoryTyped /\ StoreInv
    BY TypeParts DEF FollowUpInv, SnapshotInv, StoreInv
  <1>1. /\ stage[r] = "loaded" /\ Session(r) \in Sessions /\ job[r] \in Calls
        /\ Category(r)' = Category(r)
    BY <1>0, Working DEF CommitAnswers, Category
  <1>2. Category(r) \in Categories
    BY <1>0, <1>1 DEF StoreInv, TasksOK
  <1>3. job[r].batch \in Seq(Answer)
    BY <1>1, CallTypes, StoreAssumption DEF CommitAnswers, Kind
  <1>4. fact[Session(r)] \in FactTable
        /\ facts[r] = CategoryFacts(fact[Session(r)], Category(r))
    BY <1>0, <1>1 DEF RowsTyped, FollowUpInv, SnapshotInv, SnapshotsAreCurrent
  <1>5. followUps'[r] = NextQuestions(Category(r), MergedFacts(facts[r], job[r].batch))
    BY <1>0 DEF CommitAnswers, Replies, MemoryTyped
  <1>6. fact'[Session(r)]
            = FactsAfterAnswers(fact[Session(r)], Category(r), facts[r], job[r].batch)
    BY <1>0, <1>1 DEF CommitAnswers, RowsTyped
  <1>7. facts'[r] = CategoryFacts(fact'[Session(r)], Category(r))
    BY <1>0 DEF CommitAnswers, MemoryTyped
  <1> QED  BY <1>1, <1>2, <1>3, <1>4, <1>5, <1>6, <1>7, OpenStaysOpen

LEMMA StepKeepsFollowUps ==
    ASSUME ConditionsReadRoots, FollowUpInv, NEW r \in Tasks, Step(r) \/ Fail(r)
    PROVE  FollowUpsOK'
  <1>0. MemoryTyped /\ StoreInv
    BY TypeParts DEF FollowUpInv, SnapshotInv, StoreInv
  <1>1. ASSUME NEW x \in Tasks \ {r}, stage'[x] = "done", reply'[x] = "STORED"
        PROVE  followUps'[x] \subseteq UnansweredRequired(Category(x)', facts'[x])
    <2>1. Untouched(x)
      BY <1>0, StepFrame
    <2> QED  BY <1>1, <2>1 DEF Untouched, Category, FollowUpInv, FollowUpsOK
  <1>2. ASSUME stage'[r] = "done", reply'[r] = "STORED"
        PROVE  followUps'[r] \subseteq UnansweredRequired(Category(r)', facts'[r])
    <2>1. CommitAnswers(r)
      BY <1>0, <1>2
      DEF Step, Fail, Commit, Admit, Refuse, FindForDelete, Sweep, CreateOrGet, Flush,
          FlushMisses, Load, Respond, CommitAccess, CommitNext, CommitPut, CommitReset,
          CommitConflict, CommitEvaluate, EvaluateBreaks, CommitDelete,
          CommitCleanUp, CommitRenewal, CommitInsert, RollsBack, Ends, Replies, Goes,
          MemoryTyped
    <2> QED  BY <2>1, AnswersKeepFollowUps
  <1> QED  BY <1>1, <1>2 DEF FollowUpsOK

LEMMA WorldKeepsFollowUps ==
    ASSUME FollowUpInv,
           \/ \E r \in Requests, call \in Workload : Arrive(r, call)
           \/ WakeJanitor
           \/ Tick
           \/ \E p \in Policies, state \in Revisions : Revise(p, state)
           \/ UNCHANGED vars
    PROVE  FollowUpsOK'
  <1>0. MemoryTyped
    BY TypeParts DEF FollowUpInv, SnapshotInv, StoreInv
  <1>1. /\ \A x \in Tasks : stage'[x] = "done" => stage[x] = "done"
        /\ reply' = reply /\ followUps' = followUps
        /\ loaded' = loaded /\ facts' = facts
    BY <1>0
    DEF Arrive, WakeJanitor, Tick, Revise, vars, memory, answer, Goes, MemoryTyped
  <1> QED  BY <1>1 DEF FollowUpInv, FollowUpsOK, Category

LEMMA NextKeepsFollowUps ==
    ConditionsReadRoots /\ FollowUpInv /\ [Next]_vars => FollowUpInv'
  <1> SUFFICES ASSUME ConditionsReadRoots, FollowUpInv, [Next]_vars
               PROVE  FollowUpInv'
    OBVIOUS
  <1>1. SnapshotInv'
    BY NextKeepsSnapshots DEF FollowUpInv
  <1>2. CASE \E r \in Tasks : Step(r) \/ Fail(r)
    BY <1>1, <1>2, StepKeepsFollowUps DEF FollowUpInv
  <1>3. CASE ~ \E r \in Tasks : Step(r) \/ Fail(r)
    BY <1>1, <1>3, WorldKeepsFollowUps DEF Next, FollowUpInv
  <1> QED  BY <1>2, <1>3

\* As long as no show condition reads a fact that can be forgotten, which is how
\* QUESTION_BANK is written, submit_answers does not ask for what it has just
\* stored, though the facts it chooses the follow-ups from are not the stored ones.
THEOREM FollowUpsStayOpen == ConditionsReadRoots => (Spec => []FollowUpsAreOpen)
  <1> SUFFICES ASSUME ConditionsReadRoots PROVE Spec => []FollowUpsAreOpen
    OBVIOUS
  <1>1. Init => FollowUpInv
    BY StoreInvInit DEF Init, FollowUpInv, SnapshotInv, SnapshotsAreCurrent, FollowUpsOK
  <1>2. FollowUpInv /\ [Next]_vars => FollowUpInv'
    BY NextKeepsFollowUps
  <1>3. FollowUpInv => FollowUpsAreOpen
    BY DEF FollowUpInv, FollowUpsOK, FollowUpsAreOpen, Tasks
  <1> QED  BY <1>1, <1>2, <1>3, PTL DEF Spec

-----------------------------------------------------------------------------
(* Answers that are kept.                                                  *)

\* A batch without conflicts leaves an answer nothing depends on as it is, or
\* forgets it.
LEMMA AnswersKeepLeaves ==
    ASSUME NEW c \in Categories, NEW table \in FactTable, NEW batch \in Seq(Answer),
           NEW existing, existing = CategoryFacts(table, c),
           Conflicts(c, existing, batch) = {},
           NEW d \in Categories, NEW key \in FactKeys,
           table[<<d, key>>] # NoFact, DependentFactKeys(d, key) = {}
    PROVE  FactsAfterAnswers(table, c, existing, batch)[<<d, key>>]
               \in {table[<<d, key>>], NoFact}
  <1>1. <<d, key>> \in ConditionKeys
    BY DEF ConditionKeys
  <1>2. CASE d # c
    BY <1>1, <1>2 DEF FactsAfterAnswers
  <1>3. CASE d = c
    <2>1. ASSUME NEW i \in DOMAIN batch, Stores(c, existing, batch, i, key)
          PROVE  batch[i].value = table[<<c, key>>]
      <3>1. IsLastFor(batch, i, key) /\ batch[i].key = key
        BY <2>1 DEF Stores, Decides, IsLastFor
      <3>2. existing[key] = table[<<c, key>>]
        BY DEF CategoryFacts
      <3>3. ~IsChange(c, existing, batch[i])
        BY <1>3, <3>1 DEF Conflicts
      <3> QED  BY <1>3, <3>1, <3>2, <3>3 DEF IsChange
    <2>2. CASE \E i \in DOMAIN batch : Stores(c, existing, batch, i, key)
      <3> DEFINE stored == CHOOSE i \in DOMAIN batch : Stores(c, existing, batch, i, key)
      <3>1. stored \in DOMAIN batch /\ Stores(c, existing, batch, stored, key)
        BY <2>2
      <3>2. batch[stored].value = table[<<c, key>>]
        BY <2>1, <3>1
      <3>3. FactsAfterAnswers(table, c, existing, batch)[<<c, key>>] = batch[stored].value
        BY <1>1, <1>3, <2>2 DEF FactsAfterAnswers
      <3> QED  BY <1>3, <3>2, <3>3
    <2>3. CASE ~ \E i \in DOMAIN batch : Stores(c, existing, batch, i, key)
      BY <1>1, <1>3, <2>3 DEF FactsAfterAnswers
    <2> QED  BY <2>2, <2>3
  <1> QED  BY <1>2, <1>3

\* The janitor has no request.
JanitorCleans == job[Janitor] = CleanUpJob

KeepingInv == SnapshotInv /\ JanitorCleans

LEMMA NextKeepsJanitor == KeepingInv /\ [Next]_vars => KeepingInv'
  <1> SUFFICES ASSUME KeepingInv, [Next]_vars PROVE KeepingInv'
    OBVIOUS
  <1>0. MemoryTyped /\ SnapshotInv'
    BY TypeParts, NextKeepsSnapshots DEF KeepingInv, SnapshotInv, StoreInv
  <1>1. ASSUME NEW r \in Requests, NEW call \in Workload, Arrive(r, call)
        PROVE  JanitorCleans'
    BY <1>0, <1>1, StoreAssumption DEF Arrive, KeepingInv, JanitorCleans, MemoryTyped, Tasks
  <1>2. ASSUME NEW r \in Tasks, Step(r) \/ Fail(r)
        PROVE  JanitorCleans'
    <2>1. job' = job \/ job' = [job EXCEPT ![r] = CleanUpJob]
      BY <1>2
      DEF Step, Fail, Commit, Admit, Refuse, FindForDelete, Sweep, CreateOrGet, Flush,
          FlushMisses, Load, Respond, CommitAccess, CommitNext, CommitPut, CommitReset,
          CommitConflict, CommitAnswers, CommitEvaluate, EvaluateBreaks, CommitDelete,
          CommitCleanUp, CommitRenewal, CommitInsert, RollsBack, Ends, Releases, memory
    <2> QED  BY <1>0, <2>1 DEF MemoryTyped, KeepingInv, JanitorCleans, Tasks
  <1>3. CASE WakeJanitor \/ Tick \/ UNCHANGED vars
             \/ \E p \in Policies, state \in Revisions : Revise(p, state)
    <2>1. job' = job
      BY <1>3 DEF WakeJanitor, Tick, Revise, vars, memory
    <2> QED  BY <1>0, <2>1 DEF KeepingInv, JanitorCleans
  <1> QED  BY <1>0, <1>1, <1>2, <1>3 DEF Next, KeepingInv

\* One step replaces an answer nothing depends on only as PUT /facts.
LeafKept(s, c, key) ==
    (/\ fact[s][<<c, key>>] # NoFact
     /\ fact'[s][<<c, key>>] \notin {fact[s][<<c, key>>], NoFact}
     /\ DependentFactKeys(c, key) = {})
        => \E r \in Requests : Kind(r) = "put" /\ stage[r] = "locked" /\ stage'[r] = "done"

LEMMA StepKeepsLeaves ==
    ASSUME KeepingInv, NEW r \in Tasks, Step(r) \/ Fail(r),
           NEW s \in Sessions, NEW c \in Categories, NEW key \in FactKeys
    PROVE  LeafKept(s, c, key)
  <1>0. RowsTyped /\ MemoryTyped /\ StoreInv /\ <<c, key>> \in ConditionKeys
    BY TypeParts DEF KeepingInv, SnapshotInv, StoreInv, ConditionKeys
  <1>1. CASE fact' = fact
    BY <1>1 DEF LeafKept
  <1>2. ASSUME NEW S, Cascades(S)
        PROVE  LeafKept(s, c, key)
    BY <1>0, <1>2 DEF Cascades, NoFacts, LeafKept
  <1>3. CASE CommitPut(r)
    <2>1. r \in Requests
      BY <1>3 DEF CommitPut, Kind, KeepingInv, JanitorCleans, CleanUpJob, Tasks
    <2>2. Kind(r) = "put" /\ stage[r] = "locked" /\ stage'[r] = "done"
      BY <1>0, <1>3 DEF CommitPut, Ends, Replies, MemoryTyped
    <2> QED  BY <2>1, <2>2 DEF LeafKept
  <1>4. CASE CommitReset(r)
    <2>1. fact'[s] \in {fact[s], FactsAfterReset(fact[s], job[r].category)}
      BY <1>0, <1>4 DEF CommitReset, RowsTyped
    <2> QED  BY <1>0, <2>1 DEF FactsAfterReset, LeafKept
  <1>5. CASE CommitAnswers(r)
    <2>1. stage[r] = "loaded" /\ Session(r) \in Sessions /\ job[r] \in Calls
      BY <1>0, <1>5, Working DEF CommitAnswers
    <2>2. Category(r) \in Categories
      BY <1>0, <2>1 DEF StoreInv, TasksOK
    <2>3. job[r].batch \in Seq(Answer)
      BY <1>5, <2>1, CallTypes, StoreAssumption DEF CommitAnswers, Kind
    <2>4. facts[r] = CategoryFacts(fact[Session(r)], Category(r))
          /\ fact[Session(r)] \in FactTable
      BY <1>0, <2>1 DEF RowsTyped, KeepingInv, SnapshotInv, SnapshotsAreCurrent
    <2>5. Conflicts(Category(r), facts[r], job[r].batch) = {}
      BY <1>5 DEF CommitAnswers
    <2>6. CASE s = Session(r)
      <3>1. fact'[s] = FactsAfterAnswers(fact[s], Category(r), facts[r], job[r].batch)
        BY <1>0, <1>5, <2>1, <2>6 DEF CommitAnswers, RowsTyped
      <3> QED
        BY <2>2, <2>3, <2>4, <2>5, <2>6, <3>1, AnswersKeepLeaves DEF LeafKept
    <2>7. CASE s # Session(r)
      BY <1>0, <1>5, <2>7 DEF CommitAnswers, RowsTyped, LeafKept
    <2> QED  BY <2>6, <2>7
  <1> QED
    BY <1>1, <1>2, <1>3, <1>4, <1>5
    DEF Step, Fail, Commit, Admit, Refuse, FindForDelete, Sweep, CreateOrGet, Flush,
        FlushMisses, Load, Respond, CommitAccess, CommitNext, CommitConflict, CommitEvaluate,
        EvaluateBreaks, CommitDelete, CommitCleanUp, CommitRenewal, CommitInsert,
        RollsBack, rows

LEMMA NextKeepsLeaves ==
    ASSUME KeepingInv, [Next]_vars,
           NEW s \in Sessions, NEW c \in Categories, NEW key \in FactKeys
    PROVE  LeafKept(s, c, key)
  <1>1. CASE \E r \in Tasks : Step(r) \/ Fail(r)
    BY <1>1, StepKeepsLeaves
  <1>2. CASE ~ \E r \in Tasks : Step(r) \/ Fail(r)
    <2>1. fact' = fact
      BY <1>2, WorldFrame DEF Next, KeepingInv, SnapshotInv
    <2> QED  BY <2>1 DEF LeafKept
  <1> QED  BY <1>1, <1>2

\* Two submissions that run at the same time never overwrite one another's
\* answers unseen: an answer nothing depends on changes by PUT /facts alone.
THEOREM LeafAnswersStay == Spec => LeafAnswersAreKept
  <1>1. Init => KeepingInv
    BY StoreInvInit
    DEF Init, KeepingInv, SnapshotInv, SnapshotsAreCurrent, JanitorCleans, Tasks
  <1>2. KeepingInv /\ [Next]_vars => KeepingInv'
    BY NextKeepsJanitor
  <1>3. KeepingInv /\ [Next]_vars =>
          [ \A s \in Sessions, c \in Categories, key \in FactKeys :
              LET before == fact[s][<<c, key>>]
                  after == fact'[s][<<c, key>>]
              IN  (before # NoFact /\ after \notin {before, NoFact}
                      /\ DependentFactKeys(c, key) = {})
                      => \E r \in Requests :
                            Kind(r) = "put" /\ stage[r] = "locked" /\ stage'[r] = "done"]_vars
    BY NextKeepsLeaves DEF LeafKept
  <1> QED  BY <1>1, <1>2, <1>3, PTL DEF Spec, LeafAnswersAreKept

-----------------------------------------------------------------------------
(* Hidden answers.                                                         *)

\* The batch of a request answers key.
IsAnswered(batch, key) == \E i \in DOMAIN batch : batch[i].key = key

\* Questions for key, in category c.
Asking(c, key) == {p \in Bank : p.category = c /\ p.fact_key = key}

\* A question whose condition reads a fact that is forgotten with the answer for
\* key, or that answer itself, asks for that answer or is forgotten too.
LEMMA ConditionsDepend ==
    ASSUME NEW c, NEW key, NEW q \in Bank, q.category = c, q.show # NoCondition,
           \/ q.show.fact_key = key /\ DependentFactKeys(c, key) # {}
           \/ q.show.fact_key \in DependentFactKeys(c, key)
    PROVE  q.fact_key = key \/ q.fact_key \in DependentFactKeys(c, key)
  <1> DEFINE S == Asking(c, key)
  <1>1. S \in SUBSET Bank
    BY DEF Asking
  <1>2. DependentFactKeys(c, key) = {p.fact_key : p \in Descendants(S)}
    BY DEF DependentFactKeys, Asking
  <1>3. /\ Descendants(S) \subseteq Bank /\ ChildrenOf(Reach(S)) \subseteq Reach(S)
        /\ S = {} => Descendants(S) = {}
    <2>1. ChildrenOf({}) = {}
      BY DEF ChildrenOf
    <2>2. S = {} => Reach(S) \subseteq {}
      BY <1>1, <2>1, DependentsAreReachable
    <2> QED  BY <1>1, <2>2, DependentsAreReachable DEF Reach
  <1>4. \A p \in Descendants(S) : p.category = c
    <2> DEFINE K == {p \in Bank : p.category = c}
    <2>1. S \subseteq K /\ K \in SUBSET Bank /\ ChildrenOf(K) \subseteq K
      BY DEF Asking, ChildrenOf, DependsOn
    <2> HIDE DEF K
    <2>2. Reach(S) \subseteq K
      BY <1>1, <2>1, DependentsAreReachable
    <2> QED  BY <2>2 DEF Reach, K
  <1>5. \E p \in Reach(S) : p.category = c /\ p.fact_key = q.show.fact_key
    <2>1. CASE q.show.fact_key = key /\ DependentFactKeys(c, key) # {}
      <3>1. S # {}
        BY <1>2, <1>3, <2>1
      <3> QED  BY <2>1, <3>1 DEF Reach, Asking
    <2>2. CASE q.show.fact_key \in DependentFactKeys(c, key)
      BY <1>2, <1>4, <2>2 DEF Reach
    <2> QED  BY <2>1, <2>2
  <1>6. q \in Reach(S)
    BY <1>3, <1>5 DEF ChildrenOf, DependsOn
  <1> QED  BY <1>2, <1>6 DEF Reach, Asking

\* Of the answers that leave a mark on key, the last decides.
LEMMA TheLastDecides ==
    ASSUME NEW c, NEW existing, NEW batch \in Seq(Answer), NEW key,
           NEW i \in DOMAIN batch, Forgets(c, existing, batch, i, key)
    PROVE  \E j \in DOMAIN batch : Decides(c, existing, batch, j, key)
  <1> DEFINE touches(j) == batch[j].key = key \/ Forgets(c, existing, batch, j, key)
             marks == {j \in DOMAIN batch : touches(j)}
             later == {e \in (DOMAIN batch) \X (DOMAIN batch) : e[1] > e[2]}
  <1>1. DOMAIN batch = 1..Len(batch) /\ Len(batch) \in Nat
    OBVIOUS
  <1>2. IsFiniteSet(marks) /\ marks # {}
    <2>1. IsFiniteSet(1..Len(batch))
      BY <1>1, FS_Interval
    <2>2. marks \subseteq 1..Len(batch)
      BY <1>1
    <2> QED  BY <2>1, <2>2, FS_Subset
  <1>3. \A x \in marks : <<x, x>> \notin later
    BY <1>1
  <1>4. \A x, y, z \in marks : <<x, y>> \in later /\ <<y, z>> \in later => <<x, z>> \in later
    BY <1>1
  <1>5. \A x, y \in marks : x > y => <<x, y>> \in later
    OBVIOUS
  <1>6. PICK j \in marks : \A x \in marks : <<x, j>> \notin later
    <2> HIDE DEF marks, later
    <2> QED  BY <1>2, <1>3, <1>4, FirstElement
  <1>7. j \in DOMAIN batch /\ touches(j) /\ \A x \in DOMAIN batch : x > j => ~touches(x)
    BY <1>5, <1>6
  <1> QED  BY <1>7 DEF Decides

\* A batch without conflicts that hides a question forgets its answer, unless it
\* answers it itself.
LEMMA HiddenIsForgotten ==
    ASSUME NEW c \in Categories, NEW table \in FactTable, NEW batch \in Seq(Answer),
           NEW existing, existing = CategoryFacts(table, c),
           Conflicts(c, existing, batch) = {},
           NEW stored, stored = CategoryFacts(FactsAfterAnswers(table, c, existing, batch), c),
           NEW q \in VisibleQuestions(c, existing) \ VisibleQuestions(c, stored),
           ~ IsAnswered(batch, q.fact_key)
    PROVE  stored[q.fact_key] = NoFact
  <1> DEFINE k == q.show.fact_key
             after == FactsAfterAnswers(table, c, existing, batch)
  <1>1. /\ q \in Bank /\ q.category = c /\ q.show # NoCondition
        /\ existing[k] = q.show.equals /\ stored[k] # q.show.equals
    BY DEF VisibleQuestions, CategoryQuestions, ShowConditionMatches
  <1>2. q.fact_key \in FactKeys /\ k \in FactKeys /\ q.show.equals \in Values
    BY <1>1, BankAssumption DEF Questions, Conditions
  <1>3. <<c, k>> \in ConditionKeys /\ <<c, q.fact_key>> \in ConditionKeys
    BY <1>2 DEF ConditionKeys
  <1>4. /\ stored[k] = after[<<c, k>>] /\ existing[k] = table[<<c, k>>]
        /\ stored[q.fact_key] = after[<<c, q.fact_key>>]
    BY <1>2 DEF CategoryFacts
  <1>5. PICK i \in DOMAIN batch : /\ IsChange(c, existing, batch[i])
                                  /\ \/ batch[i].key = k /\ DependentFactKeys(c, k) # {}
                                     \/ k \in DependentFactKeys(c, batch[i].key)
    <2>1. CASE \E i \in DOMAIN batch : Stores(c, existing, batch, i, k)
      <3> DEFINE i == CHOOSE j \in DOMAIN batch : Stores(c, existing, batch, j, k)
      <3>1. i \in DOMAIN batch /\ Stores(c, existing, batch, i, k)
        BY <2>1
      <3>2. after[<<c, k>>] = batch[i].value
        BY <1>3, <2>1 DEF FactsAfterAnswers
      <3> HIDE DEF i
      <3>3. batch[i].key = k /\ IsLastFor(batch, i, k)
        BY <3>1 DEF Stores, Decides, IsLastFor
      <3>4. IsChange(c, existing, batch[i])
        BY <1>1, <1>2, <1>4, <3>2, <3>3, NoFactAssumption DEF IsChange
      <3>5. DependentFactKeys(c, k) # {}
        BY <1>2, <3>1, <3>3, <3>4 DEF Conflicts
      <3> QED  BY <3>1, <3>3, <3>4, <3>5
    <2>2. CASE ~ \E i \in DOMAIN batch : Stores(c, existing, batch, i, k)
      <3>1. \E i \in DOMAIN batch : Decides(c, existing, batch, i, k)
        BY <1>1, <1>3, <1>4, <2>2 DEF FactsAfterAnswers
      <3> QED  BY <2>2, <3>1 DEF Stores, Decides, Forgets
    <2> QED  BY <2>1, <2>2
  <1>6. q.fact_key \in DependentFactKeys(c, batch[i].key)
    <2>1. q.fact_key = batch[i].key \/ q.fact_key \in DependentFactKeys(c, batch[i].key)
      BY <1>1, <1>5, ConditionsDepend
    <2> QED  BY <2>1 DEF IsAnswered
  <1>7. Forgets(c, existing, batch, i, q.fact_key)
    BY <1>5, <1>6 DEF Forgets
  <1>8. \E j \in DOMAIN batch : Decides(c, existing, batch, j, q.fact_key)
    BY <1>7, TheLastDecides
  <1>9. ~ \E j \in DOMAIN batch : Stores(c, existing, batch, j, q.fact_key)
    BY DEF Stores, IsAnswered
  <1>10. after[<<c, q.fact_key>>] = NoFact
    BY <1>3, <1>8, <1>9 DEF FactsAfterAnswers
  <1> QED  BY <1>4, <1>10

Stored(r) == stage[r] = "loaded" /\ stage'[r] = "done" /\ reply'[r] = "STORED"

\* What a request that stores answers works on, and what it leaves.
LEMMA StoringStep ==
    ASSUME SnapshotInv, [Next]_vars, NEW r \in Requests, Stored(r)
    PROVE  \E table \in FactTable :
             /\ Category(r) \in Categories /\ job[r].batch \in Seq(Answer)
             /\ facts[r] = CategoryFacts(table, Category(r))
             /\ Conflicts(Category(r), facts[r], job[r].batch) = {}
             /\ facts'[r] = CategoryFacts(FactsAfterAnswers(table, Category(r), facts[r],
                                                            job[r].batch), Category(r))
             /\ followUps'[r] = NextQuestions(Category(r), MergedFacts(facts[r], job[r].batch))
  <1>0. RowsTyped /\ MemoryTyped /\ StoreInv /\ r \in Tasks
    BY TypeParts DEF SnapshotInv, StoreInv, Tasks
  <1>1. \E x \in Tasks : Step(x) \/ Fail(x)
    <2>1. CASE ~ \E x \in Tasks : Step(x) \/ Fail(x)
      BY <1>0, <2>1
      DEF Stored, Next, Arrive, WakeJanitor, Tick, Revise, vars, Goes, MemoryTyped
    <2> QED  BY <2>1
  <1>2. Step(r) \/ Fail(r)
    <2>1. PICK x \in Tasks : Step(x) \/ Fail(x)
      BY <1>1
    <2>2. x = r
      BY <1>0, <2>1, StepFrame DEF Untouched, Stored
    <2> QED  BY <2>1, <2>2
  <1>3. CommitAnswers(r)
    BY <1>0, <1>2
    DEF Stored, Step, Fail, Commit, Admit, Refuse, FindForDelete, Sweep, CreateOrGet, Flush,
        FlushMisses, Load, Respond, CommitAccess, CommitNext, CommitPut, CommitReset,
        CommitConflict, CommitEvaluate, EvaluateBreaks, CommitDelete,
        CommitCleanUp, CommitRenewal, CommitInsert, RollsBack, Ends, Replies, Goes,
        MemoryTyped
  <1>4. Session(r) \in Sessions /\ job[r] \in Calls
    BY <1>0, Working DEF Stored
  <1>5. Category(r) \in Categories
    BY <1>0 DEF Stored, StoreInv, TasksOK
  <1>6. job[r].batch \in Seq(Answer)
    BY <1>3, <1>4, CallTypes, StoreAssumption DEF CommitAnswers, Kind
  <1>7. fact[Session(r)] \in FactTable
        /\ facts[r] = CategoryFacts(fact[Session(r)], Category(r))
    BY <1>0, <1>4 DEF Stored, RowsTyped, SnapshotInv, SnapshotsAreCurrent
  <1>8. Conflicts(Category(r), facts[r], job[r].batch) = {}
    BY <1>3 DEF CommitAnswers
  <1>9. fact'[Session(r)]
            = FactsAfterAnswers(fact[Session(r)], Category(r), facts[r], job[r].batch)
    BY <1>0, <1>3, <1>4 DEF CommitAnswers, RowsTyped
  <1>10. facts'[r] = CategoryFacts(fact'[Session(r)], Category(r))
    BY <1>0, <1>3 DEF CommitAnswers, MemoryTyped
  <1>11. followUps'[r] = NextQuestions(Category(r), MergedFacts(facts[r], job[r].batch))
    BY <1>0, <1>3 DEF CommitAnswers, Replies, MemoryTyped
  <1> QED  BY <1>5, <1>6, <1>7, <1>8, <1>9, <1>10, <1>11

\* submit_answers deletes the answer of every question it hides, as the
\* documentation says, unless the same batch answers that question: only then
\* may an answer stay whose question is gone.
THEOREM HiddenAnswersAreForgotten ==
    Spec => [][\A r \in Requests :
                 (stage[r] = "loaded" /\ stage'[r] = "done" /\ reply'[r] = "STORED")
                     => \A q \in VisibleQuestions(Category(r), facts[r])
                                     \ VisibleQuestions(Category(r), facts'[r]) :
                          \/ facts'[r][q.fact_key] = NoFact
                          \/ IsAnswered(job[r].batch, q.fact_key)]_vars
  <1>1. Init => SnapshotInv
    BY StoreInvInit DEF Init, SnapshotInv, SnapshotsAreCurrent
  <1>2. SnapshotInv /\ [Next]_vars => SnapshotInv'
    BY NextKeepsSnapshots
  <1>3. ASSUME SnapshotInv, [Next]_vars, NEW r \in Requests, Stored(r)
        PROVE  \A q \in VisibleQuestions(Category(r), facts[r])
                            \ VisibleQuestions(Category(r), facts'[r]) :
                 facts'[r][q.fact_key] = NoFact \/ IsAnswered(job[r].batch, q.fact_key)
    BY <1>3, StoringStep, HiddenIsForgotten
  <1>4. SnapshotInv /\ [Next]_vars =>
          [\A r \in Requests :
             (stage[r] = "loaded" /\ stage'[r] = "done" /\ reply'[r] = "STORED")
                 => \A q \in VisibleQuestions(Category(r), facts[r])
                                 \ VisibleQuestions(Category(r), facts'[r]) :
                      \/ facts'[r][q.fact_key] = NoFact
                      \/ IsAnswered(job[r].batch, q.fact_key)]_vars
    BY <1>3 DEF Stored
  <1> QED  BY <1>1, <1>2, <1>4, PTL DEF Spec

\* A batch that forgets nothing: no answer changes one that others depend on.
ForgetsNothing(c, existing, batch) ==
    \A key \in FactKeys : \A i \in DOMAIN batch : ~ Forgets(c, existing, batch, i, key)

\* The follow-ups of a batch that forgets nothing are the next questions of the
\* facts it stored, as the documentation says of every batch: choosing them from
\* merged_facts goes wrong with forgotten answers only.
THEOREM FollowUpsAreNextQuestions ==
    Spec => [][\A r \in Requests :
                 (stage[r] = "loaded" /\ stage'[r] = "done" /\ reply'[r] = "STORED")
                     => (ForgetsNothing(Category(r), facts[r], job[r].batch)
                           => followUps'[r] = NextQuestions(Category(r), facts'[r]))]_vars
  <1>1. Init => SnapshotInv
    BY StoreInvInit DEF Init, SnapshotInv, SnapshotsAreCurrent
  <1>2. SnapshotInv /\ [Next]_vars => SnapshotInv'
    BY NextKeepsSnapshots
  <1>3. ASSUME SnapshotInv, [Next]_vars, NEW r \in Requests, Stored(r),
               ForgetsNothing(Category(r), facts[r], job[r].batch)
        PROVE  followUps'[r] = NextQuestions(Category(r), facts'[r])
    <2> DEFINE c == Category(r)
               batch == job[r].batch
    <2>1. PICK table \in FactTable :
            /\ c \in Categories /\ batch \in Seq(Answer)
            /\ facts[r] = CategoryFacts(table, c)
            /\ facts'[r] = CategoryFacts(FactsAfterAnswers(table, c, facts[r], batch), c)
            /\ followUps'[r] = NextQuestions(c, MergedFacts(facts[r], batch))
      BY <1>3, StoringStep
    <2>2. \A key \in FactKeys : facts'[r][key] = MergedFacts(facts[r], batch)[key]
      BY <1>3, <2>1, LastAnswerIsStored DEF ForgetsNothing
    <2>3. facts'[r] = MergedFacts(facts[r], batch)
      BY <2>1, <2>2 DEF CategoryFacts, MergedFacts
    <2> QED  BY <2>1, <2>3
  <1>4. SnapshotInv /\ [Next]_vars =>
          [\A r \in Requests :
             (stage[r] = "loaded" /\ stage'[r] = "done" /\ reply'[r] = "STORED")
                 => (ForgetsNothing(Category(r), facts[r], job[r].batch)
                       => followUps'[r] = NextQuestions(Category(r), facts'[r]))]_vars
    BY <1>3 DEF Stored
  <1> QED  BY <1>1, <1>2, <1>4, PTL DEF Spec

=============================================================================
