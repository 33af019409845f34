---------------------------- MODULE MCSeedImport ----------------------------
(***************************************************************************)
(* An instance of SeedImport for TLC: two policies of two categories, each *)
(* with a rule, a document and a chunk; reviews of the first policy whose  *)
(* baseline wrongly names the rule of the second.                          *)
(***************************************************************************)
EXTENDS SeedImport, TLC

CONSTANTS d0, d1, r1, r2, i1, i2

Policy(p, category, summary, end) ==
    [ id |-> p, category_id |-> category, summary |-> summary, status |-> "ACTIVE",
      application_start_date |-> 3, application_end_date |-> end, verified_at |-> 1 ]
Rule(u, p) ==
    [ id |-> u, policy_id |-> p, condition_key |-> "REGION", question_id |-> 1,
      expected |-> {"SEOUL"}, evaluation_mode |-> "DETERMINISTIC", review_status |-> "APPROVED" ]
Document(p) == [id |-> p, policy_id |-> p, document_type |-> "OVERVIEW", source_url |-> "u"]
Chunk(p) ==
    [ id |-> p, policy_id |-> p, document_id |-> p, document_type |-> "OVERVIEW",
      source_url |-> "u", content |-> "old", content_hash |-> "old" ]

MCReleasedFiles ==
    [ f \in Files |->
        CASE f = "01_category.csv" -> {[id |-> 1], [id |-> 2]}
          [] f = "02_policy.csv" -> {Policy(1, 1, "old", 5), Policy(2, 1, "other", Blank)}
          [] f = "03_policy_rule.csv" -> {Rule(1, 1), Rule(2, 2)}
          [] f = "04_question.csv" ->
               { [ id |-> 1, category_id |-> 1, condition_key |-> "REGION", options |-> {"SEOUL"},
                   parent_question_id |-> Blank, show_condition |-> Blank ],
                 [ id |-> 2, category_id |-> 1, condition_key |-> "DISTRICT", options |-> {},
                   parent_question_id |-> 1,
                   show_condition |-> [condition_key |-> "REGION", value |-> {"SEOUL"}] ] }
          [] f = "07_policy_relation.csv" -> {[id |-> 1, from_policy_id |-> 1, to_policy_id |-> 2]}
          [] f = "08_policy_document.csv" -> {Document(1), Document(2)}
          [] f = "09_policy_flat.csv" -> {[id |-> 1, summary |-> "old"]}
          [] f = "10_policy_document_chunk.csv" -> {Chunk(1), Chunk(2)} ]

MCBaselines ==
    { [ policy_id |-> 1, source_url |-> "u", content |-> "old",
        fields |-> [summary |-> "old", application_end_date |-> 5, category_id |-> 1],
        dependencies |-> (1 :> {"summary"} @@ 2 :> {"summary"}), chunks |-> {1} ] }

Snapshot(content, extracted, fields) ==
    [source_url |-> "u", content |-> content, extracted |-> extracted, fields |-> fields]
MCSnapshots ==
    { \* nothing new, a page that was not read, new texts, an earlier end without a category
      Snapshot("old", TRUE, [summary |-> "old", application_end_date |-> 5, category_id |-> 1]),
      Snapshot("new", FALSE, <<>>),
      Snapshot("new", TRUE, [summary |-> "new", application_end_date |-> 5, category_id |-> 1]),
      Snapshot("new", TRUE, [summary |-> "old", application_end_date |-> 2, category_id |-> 2]) }

Patch(f, row, values) == [filename |-> f, row_id |-> row, values |-> values]
NewText == Patch("02_policy.csv", 1, [summary |-> "new", verified_at |-> 2])
NewChunk == Patch("10_policy_document_chunk.csv", 1, [content |-> "new", content_hash |-> "new"])
MCPatchSets ==
    { {NewText, NewChunk},
      {Patch("02_policy.csv", 1, [summary |-> "newer"])},
      {Patch("02_policy.csv", 1, [category_id |-> 2, application_end_date |-> 2])},
      {Patch("09_policy_flat.csv", 1, [summary |-> "new"]),
       Patch("02_policy.csv", 1, [category_id |-> 2])},
      {Patch("03_policy_rule.csv", 2,
             [review_status |-> "DRAFT", evaluation_mode |-> "OFFICIAL_CONFIRMATION_REQUIRED"])} }

\* The policies and the checksums come first, then the others in their order.
MCListing ==
    [ name \in Entries |->
        CASE name = "02_policy.csv" -> 1
          [] name = SumsFile -> 2
          [] name = "01_category.csv" -> 3
          [] name = "03_policy_rule.csv" -> 4
          [] name = "04_question.csv" -> 5
          [] name = "07_policy_relation.csv" -> 6
          [] name = "08_policy_document.csv" -> 7
          [] name = "09_policy_flat.csv" -> 8
          [] name = "10_policy_document_chunk.csv" -> 9 ]

MCInterrupted == {{"02_policy.csv"}, {"09_policy_flat.csv", "10_policy_document_chunk.csv"}}
MCCategoryCode == <<"housing", "loan">>
MCRegion == [s \in {"old", "new", "newer", "other"} |-> IF s = "new" THEN "Seoul" ELSE "National"]

ProcessSymmetry == Permutations(Reports) \cup Permutations(Importers)

=============================================================================
