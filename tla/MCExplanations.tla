--------------------------- MODULE MCExplanations ---------------------------
(***************************************************************************)
(* Instances of Explanations for TLC: four policies, one of them hidden,   *)
(* one without an address and one with a draft of a rule; an edition of    *)
(* the seed, one that moves a chunk to another document, one that does not *)
(* load and one whose upserts clash.                                       *)
(***************************************************************************)
EXTENDS Explanations, TLC

CONSTANTS r1, r2, s1, d1, d2, m1, m2

Chunk(c, d, p, place, approved) ==
    [ chunk |-> c, document |-> d, policy |-> p, place |-> place,
      approved |-> approved, consistent |-> TRUE ]

FirstEdition == {Chunk(1, d1, 1, "a", TRUE), Chunk(2, d1, 1, "b", TRUE)}
SecondEdition == {Chunk(1, d1, 1, "b", TRUE), Chunk(2, d2, 1, "b", TRUE), Chunk(3, d2, 2, "a", FALSE)}
BrokenEdition == {[Chunk(1, d1, 1, "a", TRUE) EXCEPT !.consistent = FALSE]}
ClashingEdition == {Chunk(1, d1, 1, "a", TRUE), Chunk(2, d1, 1, "a", TRUE)}

MCSeeds == {FirstEdition, SecondEdition, BrokenEdition, ClashingEdition}
\* A catalogue that keeps the ids of the files, so that searches find something.
MCCatalogId == [p \in SeedPolicies |-> p]

\* The ids of the files are 1, 2, ..., those of the database "policy_housing_001", ...
DeployedSeeds == {{Chunk(1, d1, 11, "a", TRUE)}}
DeployedCatalogId == [p \in SeedPolicies |-> 1]

MCScore == [s \in {"LIKELY_ELIGIBLE", "LIKELY_INELIGIBLE"} |->
              IF s = "LIKELY_ELIGIBLE" THEN 100 ELSE 0]
MCPolicyCategory == [p \in 1..4 |-> IF p = 1 THEN "HOUSING" ELSE "WEDDING"]

MCOutcomes ==
    [p \in Visible |->
       CASE p = 1 -> Evaluation
         [] p = 4 -> {}
         [] OTHER -> {[status |-> "LIKELY_ELIGIBLE", state |-> "ACTIVE"]}]

MCQuestions ==
    { [kind |-> "policy", policy |-> 1], [kind |-> "policy", policy |-> 3],
      [kind |-> "policy", policy |-> 4],
      [kind |-> "text", mentions |-> {4}, recommends |-> FALSE, category |-> NoCategory],
      [kind |-> "rank", rank |-> 2, category |-> "HOUSING"],
      [kind |-> "text", mentions |-> {2}, recommends |-> FALSE, category |-> "HOUSING"],
      [kind |-> "text", mentions |-> {}, recommends |-> TRUE, category |-> NoCategory],
      [kind |-> "text", mentions |-> {}, recommends |-> FALSE, category |-> "WEDDING"] }

RequestSymmetry == Permutations(Requests)

=============================================================================
