-------------------------- MODULE GraphProjection --------------------------
(***************************************************************************)
(* The policy graph of GET /session/graph: the policies around the user,   *)
(* the conditions that were met, missed or failed, the next steps, and the *)
(* relations between policies; cut to the most important nodes.            *)
(* Policies are numbers, so that their identifiers sort as the code's do.  *)
(***************************************************************************)
EXTENDS Integers, FiniteSets, FiniteSetsExt

CONSTANTS
    PolicyCategory,   \* the category code of each policy
    Relations,        \* policy_relation: pairs of policies
    NoEvaluation,     \* the session has no evaluation of a policy
    NoCategory, NoPolicy, NoLimit   \* a query parameter that is not given

DefaultMaxGraphNodes == 80
MaxGraphNodes == 120
CenteredGraphMaxDepth == 2

NormalizeMaxNodes(limit) ==
    IF limit = NoLimit THEN DefaultMaxGraphNodes
    ELSE IF limit < 1 THEN 1 ELSE IF limit > MaxGraphNodes THEN MaxGraphNodes ELSE limit

InCategory(p, category) == category = NoCategory \/ PolicyCategory[p] = category

Neighbours(S, relations) ==
    {r[2] : r \in {x \in relations : x[1] \in S}} \cup {r[1] : r \in {x \in relations : x[2] \in S}}

\* Breadth-first search from one policy, to a given depth.
Around(p, relations, depth) ==
    LET visited[i \in 0..depth] ==
            IF i = 0 THEN {p} ELSE visited[i - 1] \cup Neighbours(visited[i - 1], relations)
    IN  visited[depth]

-----------------------------------------------------------------------------
(* What is read from the database for a request.                           *)

\* The search follows every relation, also through policies that are not shown.
CenteredGraphPolicyIds(request, active) ==
    LET found == Around(request.policy, Relations, CenteredGraphMaxDepth)
    IN  IF request.category = NoCategory THEN found
        ELSE {p \in found \cap active : InCategory(p, request.category)}

GraphPolicies(request, active) ==
    IF request.policy = NoPolicy
    THEN {p \in active : InCategory(p, request.category)}
    ELSE active \cap CenteredGraphPolicyIds(request, active)

GraphRelations(policies) == {r \in Relations : r[1] \in policies /\ r[2] \in policies}

\* Mutant: the policies that were read are shown as they are.
VisibleAsRead(request, active) == GraphPolicies(request, active)

\* The projection searches again, among the policies it was given.
VisiblePolicyIds(request, active) ==
    LET policies == {p \in GraphPolicies(request, active) : InCategory(p, request.category)}
    IN  IF request.policy = NoPolicy THEN policies
        ELSE IF request.policy \notin policies THEN {}
        ELSE Around(request.policy, GraphRelations(policies), CenteredGraphMaxDepth)

\* Evaluations are read only for a session that has facts.
GraphEvaluations(request, active, facts, stored) ==
    [p \in active |->
        IF facts # {} /\ p \in VisiblePolicyIds(request, active) THEN stored[p] ELSE NoEvaluation]

-----------------------------------------------------------------------------
(* Nodes and edges.  A fact stands for its key.                            *)

UserNode == <<"USER", 0>>
CategoryNode(c) == <<"CATEGORY", c>>
PolicyNode(p) == <<"POLICY", p>>
ConditionNode(f) == <<"CONDITION", f>>
ActionNode(p) == <<"ACTION", p>>

Edge(type, source, target) == [type |-> type, source |-> source, target |-> target]

\* The buckets of an evaluation's evidence that are drawn, with their edges.
DrawnEvidence(e) ==
    IF e = NoEvaluation THEN {}
    ELSE {<<"MATCHES", c.field>> : c \in e.evidence.satisfied}
         \cup {<<"MISSING_CONDITION", c.field>> : c \in e.evidence.needs}
         \cup {<<"FAILED_CONDITION", c.field>> : c \in e.evidence.unsatisfied}

EvaluationEdges(p, e) ==
    {Edge(d[1], ConditionNode(d[2]), PolicyNode(p)) : d \in DrawnEvidence(e)}

NodesOf(visible, facts, evaluations) ==
    LET evaluated == {p \in visible : evaluations[p] # NoEvaluation}
    IN  {UserNode}
        \cup {CategoryNode(PolicyCategory[p]) : p \in visible}
        \cup {PolicyNode(p) : p \in visible}
        \cup {ConditionNode(f) : f \in facts}
        \cup {e.source : e \in UNION {EvaluationEdges(p, evaluations[p]) : p \in evaluated}}
        \cup {ActionNode(p) : p \in evaluated}

\* Mutant: a policy that was not evaluated is left without its category.
EdgesOfEvaluated(visible, facts, evaluations) ==
    LET evaluated == {p \in visible : evaluations[p] # NoEvaluation}
    IN  {Edge("SELECTED", UserNode, CategoryNode(PolicyCategory[p])) : p \in visible}
        \cup {Edge("HAS_FACT", UserNode, ConditionNode(f)) : f \in facts}
        \cup {Edge("RECOMMENDS", CategoryNode(PolicyCategory[p]), PolicyNode(p)) : p \in evaluated}
        \cup (UNION {EvaluationEdges(p, evaluations[p]) : p \in evaluated})
        \cup {Edge("NEXT_ACTION", PolicyNode(p), ActionNode(p)) : p \in evaluated}

EdgesOf(visible, facts, evaluations) ==
    LET evaluated == {p \in visible : evaluations[p] # NoEvaluation}
    IN  {Edge("SELECTED", UserNode, CategoryNode(PolicyCategory[p])) : p \in visible}
        \cup {Edge("HAS_FACT", UserNode, ConditionNode(f)) : f \in facts}
        \cup {Edge("RECOMMENDS", CategoryNode(PolicyCategory[p]), PolicyNode(p)) : p \in visible}
        \cup (UNION {EvaluationEdges(p, evaluations[p]) : p \in evaluated})
        \cup {Edge("NEXT_ACTION", PolicyNode(p), ActionNode(p)) : p \in evaluated}
        \cup {Edge("RELATED", PolicyNode(r[1]), PolicyNode(r[2])) : r \in GraphRelations(visible)}

\* Mutant: the policy the user asked for is one among others.
PolicyPriorityOfAny(p, request, e) == <<50, IF e = NoEvaluation THEN 0 ELSE -e.score, p>>

PolicyPriority(p, request, e) ==
    << IF p = request.policy THEN 10
       ELSE IF e # NoEvaluation /\ e.status = "LIKELY_ELIGIBLE" THEN 20 ELSE 50,
       IF e = NoEvaluation THEN 0 ELSE -e.score,
       p >>

NodePriority(node, request, evaluations) ==
    CASE node[1] = "USER" -> <<0, 0, 0>>
      [] node[1] = "POLICY" -> PolicyPriority(node[2], request, evaluations[node[2]])
      [] node[1] = "CONDITION" -> <<30, 0, 0>>
      [] node[1] = "ACTION" -> IF node[2] = request.policy THEN <<30, 0, node[2]>> ELSE <<70, 0, 0>>
      [] node[1] = "CATEGORY" -> <<IF node[2] = request.category THEN 40 ELSE 60, 0, 0>>

Before(a, b) ==
    \/ a[1] < b[1]
    \/ a[1] = b[1] /\ a[2] < b[2]
    \/ a[1] = b[1] /\ a[2] = b[2] /\ a[3] < b[3]

\* The first nodes in order of priority.  Nodes of equal priority stay in the
\* order they were added in, partly that of a Python set: any order is allowed.
MostImportant(nodes, limit, request, evaluations) ==
    IF Cardinality(nodes) <= limit THEN {nodes}
    ELSE {S \in kSubset(limit, nodes) :
             \A n \in S, m \in nodes \ S :
                 ~ Before(NodePriority(m, request, evaluations), NodePriority(n, request, evaluations))}

\* The graphs a request may be answered with.
BuildSessionGraph(request, active, facts, stored) ==
    LET visible == VisiblePolicyIds(request, active)
        evaluations == GraphEvaluations(request, active, facts, stored)
        candidates == NodesOf(visible, facts, evaluations)
        edges == EdgesOf(visible, facts, evaluations)
    IN  { [ nodes |-> S,
            edges |-> {e \in edges : e.source \in S /\ e.target \in S},
            truncated |-> S # candidates ] :
          S \in MostImportant(candidates, NormalizeMaxNodes(request.limit), request, evaluations) }

=============================================================================
