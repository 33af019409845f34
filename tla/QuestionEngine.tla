--------------------------- MODULE QuestionEngine ---------------------------
(***************************************************************************)
(* The deterministic question engine of                                    *)
(* backend/src/app/modules/questions/engine.py, as operators on a question *)
(* bank.  A question is a record; its rank stands for the sort key         *)
(* (priority, -discriminator_score, question_id), which is a total order.  *)
(* The facts of one category are a function from fact keys to values, with *)
(* NoFact for a key that is not in the dictionary.                         *)
(***************************************************************************)
EXTENDS Naturals, FiniteSets

CONSTANTS
    Categories,   \* the category codes of the bank
    FactKeys,     \* fact keys as they appear in questions, without a scope
    Values,       \* answer values
    Bank,         \* QUESTION_BANK
    NoFact,       \* the key is absent from the dictionary
    NoQuestion,   \* parent_question_id is None
    NoCondition   \* show_condition is None

Conditions == [fact_key : FactKeys, equals : Values]

Questions ==
    [ id : STRING,
      category : Categories,
      fact_key : FactKeys,
      required : BOOLEAN,
      rank : Nat,
      parent : STRING \cup {NoQuestion},
      show : Conditions \cup {NoCondition} ]

CategoryDict == [FactKeys -> Values \cup {NoFact}]

ASSUME NoFactAssumption == NoFact \notin Values

\* The bank of the code: identifiers are unique, and so are the sort keys of
\* two questions of one category.
ASSUME BankAssumption ==
    /\ IsFiniteSet(Bank)
    /\ Bank \subseteq Questions
    /\ \A p, q \in Bank : (p.id = q.id) => (p = q)
    /\ \A p, q \in Bank : (p.category = q.category /\ p.rank = q.rank) => (p = q)

-----------------------------------------------------------------------------
(* Dependencies between questions.                                         *)

\* q depends directly on p: p is its parent question, or p asks for the fact
\* its show condition reads, and both are of the same category.
DependsOn(q, p) ==
    /\ p.category = q.category
    /\ \/ q.parent = p.id
       \/ q.show # NoCondition /\ q.show.fact_key = p.fact_key

\* dependency_edges: the questions that depend directly on one of S.
ChildrenOf(S) == {q \in Bank : \E p \in S : DependsOn(q, p)}

\* The work list of dependent_fact_keys, run to its end: after i rounds it has
\* visited everything at most i edges away.
Descendants(S) ==
    LET visited[i \in Nat] ==
            IF i = 0 THEN S ELSE visited[i - 1] \cup ChildrenOf(visited[i - 1])
    IN  visited[Cardinality(Bank)] \ S

\* The facts that must be forgotten when the answer for key changes.
DependentFactKeys(c, key) ==
    {q.fact_key : q \in Descendants({p \in Bank : p.category = c /\ p.fact_key = key})}

\* dependency_edges raises for a parent that is no question of the bank.
ParentsAreKnown == \A q \in Bank : q.parent # NoQuestion => \E p \in Bank : q.parent = p.id

\* validate_question_dag raises unless this holds: every parent is known, and no
\* question is a child of itself or of one of its descendants.
IsQuestionDag ==
    /\ ParentsAreKnown
    /\ \A q \in Bank : q \notin ChildrenOf({q} \cup Descendants({q}))

\* QUESTION_BANK is flat: what a show condition reads is never forgotten
\* itself.  validate_question_dag does not ask for it.
ConditionsReadRoots ==
    \A q \in Bank : q.show # NoCondition =>
        /\ q.show.fact_key \in FactKeys
        /\ \A key \in FactKeys : q.show.fact_key \notin DependentFactKeys(q.category, key)

-----------------------------------------------------------------------------
(* Selection of the next question.                                         *)

CategoryQuestions(c) == {q \in Bank : q.category = c}

ShowConditionMatches(q, dict) ==
    q.show = NoCondition \/ dict[q.show.fact_key] = q.show.equals

VisibleQuestions(c, dict) == {q \in CategoryQuestions(c) : ShowConditionMatches(q, dict)}

UnansweredRequired(c, dict) ==
    {q \in VisibleQuestions(c, dict) : q.required /\ dict[q.fact_key] = NoFact}

\* next_questions with its default limit of one: the first open question.
NextQuestions(c, dict) ==
    LET open == UnansweredRequired(c, dict)
    IN  {q \in open : \A p \in open : q.rank <= p.rank}

=============================================================================
