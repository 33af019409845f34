----------------------------- MODULE MCSessions -----------------------------
(***************************************************************************)
(* Instances of SessionStore for TLC.  The bank has the shape of the cash  *)
(* and loan categories of QUESTION_BANK: a parent question whose answer    *)
(* shows a dependent one, and a category with a single question.           *)
(***************************************************************************)
EXTENDS SessionStore, TLC

CONSTANTS s1, s2, r1, r2, p1, p2

MCCategories == {"cash", "loan"}
MCFactKeys == {"registered", "date", "purpose"}
MCValues == {"yes", "no"}

MCBank ==
    { [id |-> "cash_registered", category |-> "cash", fact_key |-> "registered",
       required |-> TRUE, rank |-> 1, parent |-> NoQuestion, show |-> NoCondition],
      [id |-> "cash_date", category |-> "cash", fact_key |-> "date",
       required |-> TRUE, rank |-> 2, parent |-> "cash_registered",
       show |-> [fact_key |-> "registered", equals |-> "yes"]],
      [id |-> "loan_purpose", category |-> "loan", fact_key |-> "purpose",
       required |-> TRUE, rank |-> 1, parent |-> NoQuestion, show |-> NoCondition] }

\* validate_question_dag accepts the bank, and it is flat.
ASSUME IsQuestionDag /\ ConditionsReadRoots

MCPolicyCategory == [p \in Policies |-> IF p = p1 THEN "cash" ELSE "loan"]

RequestSymmetry == Permutations(Requests)

-----------------------------------------------------------------------------
(* Calls.                                                                  *)

Call(kind, s) == [kind |-> kind, session |-> s]
SelectCall(s, c) == [kind |-> "select", session |-> s, category |-> c]
ResetCall(s, c) == [kind |-> "reset", session |-> s, category |-> c]
PutCallFor(s, c, key, value) ==
    [kind |-> "put", session |-> s, key |-> <<c, key>>, value |-> value]
AnswersCallFor(s, batch) == [kind |-> "answers", session |-> s, batch |-> batch]

Reply(key, value) == [key |-> key, value |-> value]

\* The answers of the cash dialogue: both at once, another value of the parent,
\* and another value of the dependent question.
CashBatches ==
    { <<Reply("registered", "yes"), Reply("date", "yes")>>,
      <<Reply("registered", "no")>>,
      <<Reply("date", "no")>> }

\* Calls that read, write and remove the facts of one session.
RaceCalls ==
    { Call(kind, s1) : kind \in {"create", "next", "delete"} }
    \cup { SelectCall(s1, "cash"), SelectCall(s1, "loan"), ResetCall(s1, "cash") }
    \cup { PutCallFor(s1, "cash", "date", "yes") }
    \cup { AnswersCallFor(s1, batch) : batch \in CashBatches }

\* Calls that make, age and remove the evaluations of one session.
EvaluationBatches ==
    { <<Reply("registered", "yes"), Reply("date", "yes")>>, <<Reply("registered", "no")>> }

EvaluationCalls ==
    { Call(kind, s1) : kind \in {"create", "evaluate", "delete"} }
    \cup { SelectCall(s1, "cash"), ResetCall(s1, "cash") }
    \cup { PutCallFor(s1, "cash", "date", "yes") }
    \cup { AnswersCallFor(s1, batch) : batch \in EvaluationBatches }

\* The dialogue of a client that answers one question at a time and changes the
\* parent answer back.
SingleBatches ==
    { <<Reply("date", "no")>>, <<Reply("registered", "no")>>, <<Reply("registered", "yes")>> }

SingleCalls ==
    { Call("create", s1), SelectCall(s1, "cash") }
    \cup { AnswersCallFor(s1, batch) : batch \in SingleBatches }

\* The dialogue of a client that repeats an answer it has given.
RepeatedBatches ==
    { <<Reply("registered", "yes"), Reply("date", "yes")>>,
      <<Reply("registered", "no"), Reply("date", "yes")>> }

RepeatingCalls ==
    { Call("create", s1), SelectCall(s1, "cash") }
    \cup { AnswersCallFor(s1, batch) : batch \in RepeatedBatches }

\* Calls on one session that wait for its lock.
WaitingCalls == { Call(kind, s1) : kind \in {"create", "read", "delete"} }

=============================================================================
