-------------------------- MODULE MCRecommendations --------------------------
(***************************************************************************)
(* Instances of Recommendations for TLC: three questions, policies with    *)
(* the kinds of periods the seed writes, lists of conditions with and      *)
(* without groups, and a graph that two relations and a cut make           *)
(* interesting.                                                            *)
(***************************************************************************)
EXTENDS Recommendations

Number(n) == [type |-> "number", reads |-> "number", at |-> n]
NumberText(n) == [type |-> "text", reads |-> "number", at |-> n]
Word(n) == [type |-> "text", reads |-> "word", at |-> n]

MCNational == Word(0)

MCPolicies == {1, 2, 3}
MCFields == {"region", "income", "children"}
MCPolicyCategory == <<"housing", "housing", "loan">>
MCRelations == {<<1, 3>>, <<3, 2>>}

MCOptions ==
    [f \in MCFields |-> CASE f = "region" -> {Word(1)}
                          [] f = "income" -> {Number(1), Number(2)}
                          [] f = "children" -> {Number(1), Word(2)}]

MCPeriod == << [starts |-> 1, ends |-> 1], [starts |-> NoDate, ends |-> NoDate],
               [starts |-> 2, ends |-> NoDate] >>

Rule(id, field, operator, expected, required) ==
    [id |-> id, field |-> field, operator |-> operator, expected |-> expected, required |-> required]

MCPolicyRules ==
    << { Rule("r1", "income", "LTE", <<NumberText(1)>>, TRUE) },
       { Rule("r2", "region", "IN", <<MCNational>>, TRUE),
         Rule("r3", "income", "BETWEEN", <<NumberText(1), NumberText(1)>>, TRUE),
         Rule("r4", "children", "GTE", <<NumberText(1)>>, TRUE),
         Rule("r5", "region", "NE", <<Word(1)>>, FALSE) },
       { Rule("r6", "children", "GTE", <<NumberText(2)>>, TRUE) } >>

\* Every way to make two conditions of one group and one beside it official, required
\* or optional; each may be met, fail or be open.
Condition(rule, field, operator, expected, group, kind) ==
    [ rule |-> rule, field |-> field, operator |-> operator, expected |-> <<expected>>,
      required |-> kind # "optional", group |-> group, official |-> kind = "official" ]

Kinds == {"required", "optional", "official"}

MCConditionSets ==
    { { Condition("a", "income", "EQ", Number(1), "one", k1),
        Condition("b", "children", "EQ", Number(1), "one", k2),
        Condition("c", "region", "EQ", Word(1), NoGroup, k3) } : k1, k2, k3 \in Kinds }
    \cup { { Condition("d", "income", "AFTER", Number(1), NoGroup, k),
             Condition("e", "children", "BEFORE", Number(2), NoGroup, "required") } : k \in Kinds }

Query(category, policy, limit) == [category |-> category, policy |-> policy, limit |-> limit]

MCRequests ==
    { Query("housing", NoPolicy, NoLimit), Query("housing", NoPolicy, 3), Query("housing", 2, 2),
      Query("housing", 2, NoLimit), Query(NoCategory, 2, 0), Query(NoCategory, 1, 3),
      Query(NoCategory, NoPolicy, NoLimit) }

ASSUME FewRules

=============================================================================
