-------------------------- MODULE EligibilityRules --------------------------
(***************************************************************************)
(* The deterministic eligibility rules of modules/eligibility: a policy's  *)
(* rules are conditions on the answers, its application period is a window *)
(* of days, and an evaluation is a status, a score and the evidence for    *)
(* it.  Conditions are told apart by their rule; evidence is kept in sets, *)
(* since only its size and its emptiness are ever used.                    *)
(***************************************************************************)
EXTENDS Integers, FiniteSets, Sequences

CONSTANTS
    NoAnswer,   \* the answer is None or the empty string
    NoGroup,    \* group_id is None
    NoDate,     \* an end of a window that is not given
    National    \* the text "National", in any case

\* A JSON value: numbers, and texts that read as a number, as a date, or as
\* neither.  The position orders values of one reading.
Value == [type : {"number", "text"}, reads : {"number", "date", "word"}, at : Int]

Operators == {"EQ", "NE", "IN", "NOT_IN", "LTE", "GTE", "BETWEEN", "BEFORE", "AFTER", "EXISTS"}

\* A condition; `expected` is a sequence with one element but for the
\* operators on collections.
IsCondition(c) ==
    /\ DOMAIN c = {"rule", "field", "operator", "expected", "required", "group", "official"}
    /\ c.expected \in Seq(Value)
    /\ c.required \in BOOLEAN
    /\ c.official \in BOOLEAN

-----------------------------------------------------------------------------
(* Conditions of a stored rule.                                            *)

\* The text of a threshold becomes a number when it reads as one.
ParseExpectedValue(texts, operator) ==
    IF operator \in {"LTE", "GTE"} /\ texts[1].reads = "number"
    THEN << [texts[1] EXCEPT !.type = "number"] >>
    ELSE texts

\* A rule that accepts the whole nation only asks for some region.
ConditionFromPolicyRule(rule) ==
    LET national == rule.field = "region" /\ rule.expected = <<National>>
        operator == IF national THEN "EXISTS" ELSE rule.operator
    IN  [ rule |-> rule.id, field |-> rule.field, operator |-> operator,
          expected |-> IF national THEN << [type |-> "number", reads |-> "number", at |-> 1] >>
                       ELSE ParseExpectedValue(rule.expected, operator),
          required |-> rule.required, group |-> NoGroup, official |-> FALSE ]

\* The seed writes a period with both of its ends, with one, or with neither;
\* only the first form is read as a window.
ParseApplicationPeriod(start, end) ==
    IF start # NoDate /\ end # NoDate THEN [starts |-> start, ends |-> end]
    ELSE [starts |-> NoDate, ends |-> NoDate]

-----------------------------------------------------------------------------
(* Comparisons.                                                            *)

Comparable(v, w) == v.reads = w.reads

\* _compare raises: an operator it does not know, bounds that are not two, or
\* values without an order between them.
Raises(operator, v, expected) ==
    \/ operator \notin Operators
    \/ operator = "BETWEEN" /\ Len(expected) # 2
    \/ operator \in {"LTE", "GTE", "BETWEEN", "BEFORE", "AFTER"} /\ ~ Comparable(v, expected[1])
    \/ operator = "BETWEEN" /\ expected[1].at <= v.at /\ ~ Comparable(v, expected[2])

\* Equality is that of Python: a number never equals a text.
Compare(operator, v, expected) ==
    CASE operator = "EQ"      -> v = expected[1]
      [] operator = "NE"      -> v # expected[1]
      [] operator = "IN"      -> \E i \in DOMAIN expected : v = expected[i]
      [] operator = "NOT_IN"  -> \A i \in DOMAIN expected : v # expected[i]
      [] operator = "LTE"     -> v.at <= expected[1].at
      [] operator = "GTE"     -> v.at >= expected[1].at
      [] operator = "BETWEEN" -> expected[1].at <= v.at /\ v.at <= expected[2].at
      [] operator = "BEFORE"  -> v.at < expected[1].at
      [] operator = "AFTER"   -> v.at > expected[1].at
      [] operator = "EXISTS"  -> TRUE

-----------------------------------------------------------------------------
(* Evidence.                                                               *)

NoEvidence == [satisfied |-> {}, unsatisfied |-> {}, needs |-> {}, official |-> {}]

\* Mutant: an optional condition without an answer is asked for.
EvaluateSingleAsked(c, answers) ==
    LET v == answers[c.field]
    IN  IF c.official THEN [NoEvidence EXCEPT !.official = {c}]
        ELSE IF v = NoAnswer THEN [NoEvidence EXCEPT !.needs = {c}]
        ELSE IF Compare(c.operator, v, c.expected)
        THEN [NoEvidence EXCEPT !.satisfied = {c}]
        ELSE [NoEvidence EXCEPT !.unsatisfied = IF c.required THEN {c} ELSE {}]

\* An official condition is never decided; a missing answer matters, and so
\* does a wrong one, when the condition is required.
EvaluateSingle(c, answers) ==
    LET v == answers[c.field]
    IN  IF c.official THEN [NoEvidence EXCEPT !.official = {c}]
        ELSE IF v = NoAnswer
        THEN [NoEvidence EXCEPT !.needs = IF c.required THEN {c} ELSE {}]
        ELSE IF Compare(c.operator, v, c.expected)
        THEN [NoEvidence EXCEPT !.satisfied = {c}]
        ELSE [NoEvidence EXCEPT !.unsatisfied = IF c.required THEN {c} ELSE {}]

ConditionResult(result) ==
    IF result.unsatisfied # {} THEN "UNMET"
    ELSE IF result.needs # {} THEN "UNKNOWN"
    ELSE IF result.official # {} THEN "OFFICIAL"
    ELSE "MET"

MergeAnd(results) ==
    [ satisfied |-> UNION {r.satisfied : r \in results},
      unsatisfied |-> UNION {r.unsatisfied : r \in results},
      needs |-> UNION {r.needs : r \in results},
      official |-> UNION {r.official : r \in results} ]

\* Mutant: a member that fails decides before one without an answer.
MergeOrUnmetFirst(results) ==
    LET With(s) == {r \in results : ConditionResult(r) = s}
    IN  IF With("MET") # {}
        THEN [NoEvidence EXCEPT !.satisfied = UNION {r.satisfied : r \in With("MET")}]
        ELSE IF With("UNMET") # {}
        THEN [NoEvidence EXCEPT !.unsatisfied = UNION {r.unsatisfied : r \in results}]
        ELSE MergeAnd(results)

\* The best results of the group decide, and theirs is the only evidence kept.
MergeOr(results) ==
    LET With(s) == {r \in results : ConditionResult(r) = s}
    IN  IF With("MET") # {}
        THEN [NoEvidence EXCEPT !.satisfied = UNION {r.satisfied : r \in With("MET")}]
        ELSE IF With("UNKNOWN") # {}
        THEN [NoEvidence EXCEPT !.needs = UNION {r.needs : r \in With("UNKNOWN")}]
        ELSE IF With("OFFICIAL") # {}
        THEN [NoEvidence EXCEPT !.official = UNION {r.official : r \in With("OFFICIAL")}]
        ELSE [NoEvidence EXCEPT !.unsatisfied = UNION {r.unsatisfied : r \in results}]

\* The conditions that carry a group are alternatives, all else is required.
EvaluateGroup(conditions, answers) ==
    LET Members(g) == {EvaluateSingle(c, answers) : c \in {d \in conditions : d.group = g}}
        groups == {c.group : c \in conditions} \ {NoGroup}
    IN  MergeAnd(Members(NoGroup) \cup {MergeOr(Members(g)) : g \in groups})

-----------------------------------------------------------------------------
(* Status and score.                                                       *)

RuleStatuses == {"LIKELY_ELIGIBLE", "OFFICIAL_CONFIRMATION_REQUIRED",
                 "NEEDS_CONFIRMATION", "LIKELY_INELIGIBLE"}

EligibilityStatuses == RuleStatuses \cup {"AVAILABLE_LATER"}

StatusFromEvidence(result) ==
    IF result.unsatisfied # {} THEN "LIKELY_INELIGIBLE"
    ELSE IF result.needs # {} THEN "NEEDS_CONFIRMATION"
    ELSE IF result.official # {} THEN "OFFICIAL_CONFIRMATION_REQUIRED"
    ELSE "LIKELY_ELIGIBLE"

Base(status) ==
    CASE status = "LIKELY_ELIGIBLE" -> 1000
      [] status = "OFFICIAL_CONFIRMATION_REQUIRED" -> 850
      [] status = "NEEDS_CONFIRMATION" -> 600
      [] status = "AVAILABLE_LATER" -> 400
      [] status = "LIKELY_INELIGIBLE" -> 0

Points(status, satisfied, unsatisfied, needs, official) ==
    Base(status) + 10 * satisfied - 5 * needs - 3 * official - 50 * unsatisfied

\* Mutant: the score counts the evidence and forgets the status.
ScoreOfEvidence(status, result) ==
    Points("LIKELY_ELIGIBLE", Cardinality(result.satisfied), Cardinality(result.unsatisfied),
           Cardinality(result.needs), Cardinality(result.official))

Score(status, result) ==
    Points(status, Cardinality(result.satisfied), Cardinality(result.unsatisfied),
           Cardinality(result.needs), Cardinality(result.official))

Evaluation(status, score, result) == [status |-> status, score |-> score, evidence |-> result]

EvaluateConditionGroup(conditions, answers) ==
    LET result == EvaluateGroup(conditions, answers)
        status == StatusFromEvidence(result)
    IN  Evaluation(status, Score(status, result), result)

\* Mutant: the last day of the window is taken for the day after it.
EndedOnItsLastDay(window, today) == window.ends # NoDate /\ today >= window.ends

Ended(window, today) == window.ends # NoDate /\ today > window.ends
NotStarted(window, today) == window.starts # NoDate /\ today < window.starts

\* Outside its window a policy is not compared with the answers at all.
EvaluateConditions(conditions, answers, window, today) ==
    IF Ended(window, today) THEN Evaluation("LIKELY_INELIGIBLE", -1000, NoEvidence)
    ELSE IF NotStarted(window, today) THEN Evaluation("AVAILABLE_LATER", -100, NoEvidence)
    ELSE EvaluateConditionGroup(conditions, answers)

EvaluationRaises(conditions, answers, window, today) ==
    /\ ~ Ended(window, today)
    /\ ~ NotStarted(window, today)
    /\ \E c \in conditions :
         /\ ~ c.official
         /\ answers[c.field] # NoAnswer
         /\ Raises(c.operator, answers[c.field], c.expected)

=============================================================================
