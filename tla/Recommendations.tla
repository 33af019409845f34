-------------------------- MODULE Recommendations --------------------------
(***************************************************************************)
(* What one user gets to see of the policies of a category while answers,  *)
(* days and the catalog change: stored evaluations, made by the rules of   *)
(* EligibilityRules when they are asked for, and the graph projected from  *)
(* them.  Races between requests are the subject of SessionStore; here a   *)
(* request is one step.                                                    *)
(***************************************************************************)
EXTENDS EligibilityRules, GraphProjection

CONSTANTS
    Policies,
    Category,       \* the category of the dialogue
    Fields,         \* the fact keys of its questions
    Options,        \* bound: the values an answer for each field may have
    Withdrawable,   \* bound: the policies an operator may withdraw
    Period,         \* the first and the last day of a policy's application period
    PolicyRules,    \* the approved rules of each policy
    ConditionSets,  \* bound: lists of conditions a caller of the rules hands in
    Requests,       \* bound: the queries of GET /session/graph
    LastDay         \* bound on the days

VARIABLES
    today,     \* date.today() of the server
    answers,   \* the facts of the session in the category
    stored,    \* policy_evaluation of the session
    active     \* the approved and active policies

vars == <<today, answers, stored, active>>

ASSUME RecommendationsAssumption ==
    /\ Policies \subseteq Nat /\ IsFiniteSet(Policies)
    /\ PolicyCategory \in [Policies -> STRING]
    /\ \A f \in Fields : Options[f] \subseteq Value /\ NoAnswer \notin Options[f]
    /\ Withdrawable \subseteq Policies
    /\ NoPolicy \notin Policies
    /\ IsFiniteSet(Fields)
    /\ \A request \in Requests : request.limit \in Int \cup {NoLimit}
    /\ LastDay \in Nat
    /\ \A S \in ConditionSets : IsFiniteSet(S) /\ \A c \in S : IsCondition(c) /\ c.field \in Fields
    /\ Period \in [Policies -> [starts : Nat \cup {NoDate}, ends : Nat \cup {NoDate}]]
    /\ \A p \in Policies :
         IsFiniteSet(PolicyRules[p]) /\ \A r \in PolicyRules[p] : r.field \in Fields

-----------------------------------------------------------------------------
(* evaluate_policy.                                                        *)

Conditions(p) == {ConditionFromPolicyRule(r) : r \in PolicyRules[p]}

PolicyWindow(p) == ParseApplicationPeriod(Period[p].starts, Period[p].ends)

EvaluatePolicy(p) == EvaluateConditions(Conditions(p), answers, PolicyWindow(p), today)

EvaluatePolicyRaises(p) == EvaluationRaises(Conditions(p), answers, PolicyWindow(p), today)

\* Policies without an approved rule are not evaluated.
Evaluable == {p \in active : PolicyCategory[p] = Category /\ PolicyRules[p] # {}}

StoredEvaluation(state, e) ==
    [state |-> state, status |-> e.status, score |-> e.score, evidence |-> e.evidence]

-----------------------------------------------------------------------------

Init ==
    /\ today = 0
    /\ answers = [f \in Fields |-> NoAnswer]
    /\ stored = [p \in Policies |-> NoEvaluation]
    /\ active = Policies

\* Mutant: an evaluation is marked with a state of its own.
Superseded(e) == IF e = NoEvaluation THEN e ELSE [e EXCEPT !.state = "CONFLICTED"]

Stale(e) == IF e = NoEvaluation THEN e ELSE [e EXCEPT !.state = "STALE"]

\* Mutant: an answer that was missing leaves the evaluations as they are.
PutAnswerQuietly(f, v) ==
    /\ answers' = [answers EXCEPT ![f] = v]
    /\ stored' = [p \in Policies |-> IF answers[f] = NoAnswer THEN stored[p] ELSE Stale(stored[p])]
    /\ UNCHANGED <<today, active>>

\* POST /session/answers and PUT /session/facts: what was evaluated is stale.
PutAnswer(f, v) ==
    /\ answers' = [answers EXCEPT ![f] = v]
    /\ stored' = [p \in Policies |-> Stale(stored[p])]
    /\ UNCHANGED <<today, active>>

\* POST /session/evaluations.  One rule that raises fails the whole request.
Evaluate ==
    /\ \A p \in Evaluable : ~ EvaluatePolicyRaises(p)
    /\ stored' = [p \in Policies |->
           IF p \in Evaluable THEN StoredEvaluation("ACTIVE", EvaluatePolicy(p)) ELSE stored[p]]
    /\ UNCHANGED <<today, answers, active>>

\* POST /session/category/reset.
Reset ==
    /\ answers' = [f \in Fields |-> NoAnswer]
    /\ stored' = [p \in Policies |->
           IF p \in active /\ PolicyCategory[p] = Category THEN NoEvaluation ELSE stored[p]]
    /\ UNCHANGED <<today, active>>

NextDay ==
    /\ today < LastDay
    /\ today' = today + 1
    /\ UNCHANGED <<answers, stored, active>>

\* An operator withdraws a policy.
Withdraw(p) ==
    /\ active' = active \ {p}
    /\ UNCHANGED <<today, answers, stored>>

Next ==
    \/ \E f \in Fields : \E v \in Options[f] : PutAnswer(f, v)
    \/ Evaluate
    \/ Reset
    \/ NextDay
    \/ \E p \in Withdrawable : Withdraw(p)

Spec == Init /\ [][Next]_vars

-----------------------------------------------------------------------------
(* GET /session/graph.                                                     *)

\* The facts of the category that is asked for, by key.
FactKeysOf(request) ==
    IF request.category = Category THEN {f \in Fields : answers[f] # NoAnswer} ELSE {}

SessionGraphs(request) == BuildSessionGraph(request, active, FactKeysOf(request), stored)

PoliciesShown(g) == {n[2] : n \in {m \in g.nodes : m[1] = "POLICY"}}

-----------------------------------------------------------------------------
(* Properties of the rules.                                                *)

EvidenceFrom(C) ==
    [satisfied : SUBSET C, unsatisfied : SUBSET C, needs : SUBSET C, official : SUBSET C]

StoredEvaluations(p) ==
    [ state : {"ACTIVE", "STALE"}, status : EligibilityStatuses, score : Int,
      evidence : EvidenceFrom(Conditions(p)) ]

\* Answers, evaluations and the day have their types; an evaluation's evidence
\* names conditions of its own policy.
TypeOK ==
    /\ today \in 0..LastDay
    /\ answers \in [Fields -> Value \cup {NoAnswer}]
    /\ \A f \in Fields : answers[f] \in Options[f] \cup {NoAnswer}
    /\ active \subseteq Policies
    /\ DOMAIN stored = Policies
    /\ \A p \in Policies : stored[p] \in StoredEvaluations(p) \cup {NoEvaluation}

\* The reference: what is open may turn out either way.  A required condition
\* is open without an answer, an official one always; an optional one never
\* counts against the user.
Open(c) == c.official \/ (c.required /\ answers[c.field] = NoAnswer)

Fails(c) == c.required /\ ~ Open(c) /\ ~ Compare(c.operator, answers[c.field], c.expected)

\* The policy's conditions hold when those in S are taken to fail.
HoldsWithout(conditions, S) ==
    \A c \in conditions :
        IF c.group = NoGroup THEN c \notin S
        ELSE \E d \in conditions : d.group = c.group /\ d \notin S

Failing(conditions) == {c \in conditions : Fails(c)}
OpenOf(conditions) == {c \in conditions : Open(c)}

\* Some outcome of the other open conditions makes the answer for c decisive.
Matters(c, conditions) ==
    \E S \in SUBSET (OpenOf(conditions) \ {c}) :
        HoldsWithout(conditions, Failing(conditions) \cup S)
            # HoldsWithout(conditions, Failing(conditions) \cup S \cup {c})

ReferenceStatus(conditions) ==
    LET asked == {c \in conditions : Open(c) /\ ~ c.official}
    IN  IF ~ HoldsWithout(conditions, Failing(conditions)) THEN "LIKELY_INELIGIBLE"
        ELSE IF HoldsWithout(conditions, Failing(conditions) \cup OpenOf(conditions))
        THEN "LIKELY_ELIGIBLE"
        ELSE IF \E c \in asked : Matters(c, conditions) THEN "NEEDS_CONFIRMATION"
        ELSE "OFFICIAL_CONFIRMATION_REQUIRED"

Decides(conditions) ==
    \A c \in conditions :
        c.official \/ answers[c.field] = NoAnswer
                   \/ ~ Raises(c.operator, answers[c.field], c.expected)

\* The three-valued merging of AND and OR groups (rules.py, _merge_and and
\* _merge_or) decides what the answers decide, and nothing else: eligible when
\* every outcome of the open conditions satisfies the policy, ineligible when
\* none does, and in need of confirmation when a missing answer can matter.
RulesAgreeWithReference ==
    \A conditions \in ConditionSets :
        Decides(conditions) =>
            EvaluateConditionGroup(conditions, answers).status = ReferenceStatus(conditions)

\* The conditions listed as unknown (needsConfirmation), when the outcome is
\* open, are the ones whose answer can still matter: the user is never asked
\* for an answer that no longer plays a part, nor spared one that does.
OnlyWhatMattersIsAsked ==
    \A conditions \in ConditionSets :
        Decides(conditions) /\ ReferenceStatus(conditions) = "NEEDS_CONFIRMATION" =>
            EvaluateConditionGroup(conditions, answers).evidence.needs =
                {c \in conditions : Open(c) /\ ~ c.official /\ Matters(c, conditions)}

\* Further answers never overturn a decided status: once the rules say more
\* than NEEDS_CONFIRMATION, answering a question that was open changes nothing.
OpenAnswersOnly == \A f \in Fields : answers[f] \in {NoAnswer, answers'[f]}

DecidedStatusesAreFinal ==
    [][ \A conditions \in ConditionSets :
          LET status == EvaluateConditionGroup(conditions, answers).status
          IN  OpenAnswersOnly /\ Decides(conditions) /\ Decides(conditions)'
              /\ status # "NEEDS_CONFIRMATION"
              => EvaluateConditionGroup(conditions, answers').status = status ]_vars

Band(status) ==
    CASE status = "LIKELY_ELIGIBLE" -> 3
      [] status = "OFFICIAL_CONFIRMATION_REQUIRED" -> 2
      [] status = "NEEDS_CONFIRMATION" -> 1
      [] status = "LIKELY_INELIGIBLE" -> 0

\* Evaluations are listed by recommendation score: evidence never carries one
\* that was compared with the answers past another with a better status.
Compared(p) == stored[p] # NoEvaluation /\ stored[p].evidence # NoEvidence

ScoresRankByStatus ==
    \A p, q \in Policies :
        Compared(p) /\ Compared(q) /\ Band(stored[p].status) > Band(stored[q].status)
            => stored[p].score > stored[q].score

\* The points of 42 conditions that are met do not make up for the difference
\* between two statuses; those of 43 do.
FewRules == \A p \in Policies : Cardinality(PolicyRules[p]) <= 42

\* On every day of a period with two ends, the first and the last included, a
\* policy is evaluated by its conditions, and on no other day.
PeriodsIncludeBothEnds ==
    \A p \in Policies :
        Period[p].starts # NoDate /\ Period[p].ends # NoDate =>
            (today \in Period[p].starts..Period[p].ends
                <=> EvaluatePolicy(p) = EvaluateConditionGroup(Conditions(p), answers))

-----------------------------------------------------------------------------
(* Properties of the graph.                                                *)

\* What an ACTIVE evaluation shows as missing is not among the facts, and what
\* it shows as met or failed is: graph and answers tell the same story.
MissingConditionsAreUnanswered ==
    \A request \in Requests : \A g \in SessionGraphs(request) :
        \A e \in g.edges :
            /\ e.type \in {"MATCHES", "MISSING_CONDITION", "FAILED_CONDITION"}
            /\ stored[e.target[2]].state = "ACTIVE"
            => (e.type = "MISSING_CONDITION" <=> answers[e.source[2]] = NoAnswer)

\* The user, and the policy the graph is centred on when it can be shown at
\* all, survive the cut to the most important nodes.
TheCentreIsShown ==
    \A request \in Requests : \A g \in SessionGraphs(request) :
        /\ UserNode \in g.nodes
        /\ /\ request.policy \in active
           /\ InCategory(request.policy, request.category)
           /\ NormalizeMaxNodes(request.limit) >= 2
           => PolicyNode(request.policy) \in g.nodes

\* Every policy of a centred graph is at most two relations from the centre,
\* by way of policies that may be shown.
ShownPoliciesAreNear ==
    \A request \in Requests : \A g \in SessionGraphs(request) :
        request.policy # NoPolicy =>
            \A p \in PoliciesShown(g) :
                \/ p = request.policy
                \/ \E q \in {p} \cup active :
                     /\ InCategory(q, request.category)
                     /\ p \in Neighbours({q}, Relations) \cup {q}
                     /\ q \in Neighbours({request.policy}, Relations)

\* A graph that was not cut leaves nothing unattached: every node is at most
\* three edges from the user.
WithLinked(g, S) ==
    S \cup {n \in g.nodes : \E e \in g.edges : \/ e.source \in S /\ n = e.target
                                               \/ e.target \in S /\ n = e.source}

WholeGraphsAreConnected ==
    \A request \in Requests : \A g \in SessionGraphs(request) :
        ~ g.truncated =>
            g.nodes \subseteq WithLinked(g, WithLinked(g, WithLinked(g, {UserNode})))

=============================================================================
