----------------------------- MODULE SeedFiles -----------------------------
(***************************************************************************)
(* A policy seed: CSV files with their SHA256SUMS.  When load_policy_seed  *)
(* accepts a directory, what a seed patch makes of a file, and the rows    *)
(* db/seed.py derives for the catalogue.  A table is a set of rows, a row  *)
(* a record of the columns that some check or row of the catalogue reads.  *)
(***************************************************************************)
EXTENDS Naturals, FiniteSets

CONSTANTS
    Blank,         \* the empty text
    Malformed,     \* a text that is no date, URL, enum member or JSON value
    NoFile,        \* the file is not there
    CategoryCode,  \* SOURCE_CATEGORY_TO_DB_CATEGORY, by source category
    Region         \* region_from_policy, by the texts of the policy

Required ==
    { "01_category.csv", "02_policy.csv", "03_policy_rule.csv", "04_question.csv",
      "07_policy_relation.csv", "08_policy_document.csv", "10_policy_document_chunk.csv" }
Files == Required \cup {"09_policy_flat.csv"}
PatchableFiles ==
    { "02_policy.csv", "03_policy_rule.csv", "08_policy_document.csv", "09_policy_flat.csv",
      "10_policy_document_chunk.csv" }

Present(seed) == {f \in Files : seed.files[f] # NoFile}

-----------------------------------------------------------------------------
(* load_policy_seed.                                                       *)

\* A hash stands for what was hashed.
ChecksumsOf(files) == [f \in {g \in Files : files[g] # NoFile} |-> files[f]]

VerifyChecksums(seed) ==
    /\ seed.sums # NoFile
    /\ \A f \in DOMAIN seed.sums : seed.files[f] # NoFile /\ seed.files[f] = seed.sums[f]

UniqueIds(rows) == \A r, q \in rows : r.id = q.id => r = q
Ids(rows) == {r.id : r \in rows}

Reads(row) == \A column \in DOMAIN row : row[column] # Malformed

PolicyReads(row) ==
    /\ row.verified_at # Blank
    /\ ~ /\ Blank \notin {row.application_start_date, row.application_end_date}
         /\ row.application_start_date > row.application_end_date

ChunkReads(row) == \A column \in DOMAIN row : row[column] # Blank

QuestionRefers(question, files) ==
    LET questions == files["04_question.csv"]
        parent == question.parent_question_id
        condition == question.show_condition
    IN  /\ question.category_id \in Ids(files["01_category.csv"])
        /\ parent \in Ids(questions) \cup {Blank}
        /\ condition # Blank =>
             \E q \in questions :
                 /\ q.condition_key = condition.condition_key
                 /\ q.options = {} \/ condition.value \subseteq q.options

RuleRefers(rule, files) ==
    /\ rule.policy_id \in Ids(files["02_policy.csv"])
    /\ rule.evaluation_mode = "DETERMINISTIC" => rule.review_status = "APPROVED"
    /\ \E q \in files["04_question.csv"] :
         /\ q.id = rule.question_id /\ q.condition_key = rule.condition_key
         /\ rule.review_status = "APPROVED" /\ q.options # {} => rule.expected \subseteq q.options

\* Of two questions with one key or two documents with one id the later row counts;
\* here either may.
ChunkRefers(chunk, files) ==
    /\ chunk.policy_id \in Ids(files["02_policy.csv"])
    /\ \E d \in files["08_policy_document.csv"] :
         /\ d.id = chunk.document_id /\ d.policy_id = chunk.policy_id
         /\ d.document_type = chunk.document_type /\ d.source_url = chunk.source_url
    /\ chunk.content_hash = chunk.content

RequireReferences(files) ==
    LET policies == files["02_policy.csv"]
        documents == files["08_policy_document.csv"]
        chunks == files["10_policy_document_chunk.csv"]
    IN  /\ \A p \in policies : p.category_id \in Ids(files["01_category.csv"])
        /\ \A q \in files["04_question.csv"] : QuestionRefers(q, files)
        /\ \A r \in files["03_policy_rule.csv"] : RuleRefers(r, files)
        /\ \A r \in files["07_policy_relation.csv"] :
             {r.from_policy_id, r.to_policy_id} \subseteq Ids(policies)
        /\ \A d \in documents : d.policy_id \in Ids(policies)
        /\ UniqueIds(chunks) /\ \A c \in chunks : ChunkRefers(c, files)
        /\ Ids(documents) \subseteq {c.document_id : c \in chunks}
        /\ Ids(policies) \subseteq {d.policy_id : d \in documents}

\* The tables are read after the checksums, by paths of their own.
ReadsTables(seed) ==
    /\ Required \subseteq Present(seed)
    /\ \A f \in Required : \A r \in seed.files[f] : Reads(r)
    /\ \A f \in {"01_category.csv", "02_policy.csv", "04_question.csv"} : UniqueIds(seed.files[f])
    /\ \A p \in seed.files["02_policy.csv"] : PolicyReads(p)
    /\ \A c \in seed.files["10_policy_document_chunk.csv"] : ChunkReads(c)
    /\ RequireReferences(seed.files)

Loads(seed) == VerifyChecksums(seed) /\ ReadsTables(seed)

-----------------------------------------------------------------------------
(* _apply_patch: a patch is a file, the id of a row and the new values.    *)

Matches(rows, patch) == {r \in rows : r.id = patch.row_id}

\* Mutant: whose row it is does not matter.
AppliesToAnyRow(files, patch, policy) ==
    /\ files[patch.filename] # NoFile
    /\ \A r \in files[patch.filename] : "id" \in DOMAIN r
    /\ Cardinality(Matches(files[patch.filename], patch)) = 1
    /\ \A r \in Matches(files[patch.filename], patch) : DOMAIN patch.values \subseteq DOMAIN r

Applies(files, patch, policy) ==
    /\ files[patch.filename] # NoFile
    /\ \A r \in files[patch.filename] : "id" \in DOMAIN r
    /\ Cardinality(Matches(files[patch.filename], patch)) = 1
    /\ \A r \in Matches(files[patch.filename], patch) :
         /\ DOMAIN patch.values \subseteq DOMAIN r
         /\ patch.filename \notin {"02_policy.csv", "09_policy_flat.csv"} => r.policy_id = policy

Updated(row, values) ==
    [column \in DOMAIN row |-> IF column \in DOMAIN values THEN values[column] ELSE row[column]]

Patched(rows, patch) ==
    {IF r.id = patch.row_id THEN Updated(r, patch.values) ELSE r : r \in rows}

-----------------------------------------------------------------------------
(* reviewed_seed_payload: the rows of the catalogue, for seeds with one    *)
(* document per policy.                                                    *)

HasPayload(files) == \A p \in files["02_policy.csv"] : p.category_id \in DOMAIN CategoryCode

\* policy_housing_001, ...: numbered within the category in the order of the ids.
PolicyId(policy, files) ==
    << CategoryCode[policy.category_id],
       Cardinality({q \in files["02_policy.csv"] :
                       /\ q.id <= policy.id
                       /\ CategoryCode[q.category_id] = CategoryCode[policy.category_id]}) >>

CatalogTables == {"policy", "question", "policy_rule", "policy_document", "policy_relation"}

ReviewedSeedPayload(files) ==
    LET policies == files["02_policy.csv"]
        named(id) == CHOOSE p \in policies : p.id = id
        minted(id) == PolicyId(named(id), files)
    IN  [ policy |->
            { [ id |-> minted(p.id), summary |-> p.summary,
                period |-> <<p.application_start_date, p.application_end_date>>,
                reviewed_at |-> p.verified_at ] : p \in policies },
          question |-> {[id |-> minted(p.id), fact_key |-> "region"] : p \in policies},
          policy_rule |-> {[id |-> minted(p.id), value |-> Region[p.summary]] : p \in policies},
          policy_document |->
            { [ id |-> minted(d.policy_id), url |-> d.source_url, document_type |-> d.document_type,
                reviewed_at |-> named(d.policy_id).verified_at ] :
              d \in files["08_policy_document.csv"] },
          policy_relation |->
            { [ id |-> r.id, source |-> minted(r.from_policy_id), target |-> minted(r.to_policy_id) ] :
              r \in files["07_policy_relation.csv"] } ]

\* upsert_rows: ON CONFLICT (id) DO UPDATE, row by row.
UpsertRows(table, rows) == {r \in table : r.id \notin Ids(rows)} \cup rows

=============================================================================
