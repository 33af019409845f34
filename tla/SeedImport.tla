----------------------------- MODULE SeedImport -----------------------------
(***************************************************************************)
(* python -m app.db.seed (db/seed.py) beside the change workflow: importers*)
(* read the active seed directory and upsert its rows into the catalogue,  *)
(* table by table in one transaction each.                                 *)
(***************************************************************************)
EXTENDS PolicyChanges, Sequences

CONSTANTS Importers, MaxImports

ASSUME SeedImportAssumption == MaxImports \in Nat

VARIABLES
    catalog,    \* the committed tables
    importer,   \* per importer: its edition and the tables left to upsert
    editions,   \* history: the payloads committed, the last one at the end
    imports     \* bound: imports started

importVars == <<catalog, importer, editions, imports>>
vars == <<changeVars, importVars>>

Waiting == [stage |-> "waiting"]

\* The order of the upserts; the category rows come first, and are always the same.
Order == <<"policy", "question", "policy_rule", "policy_document", "policy_relation">>

ImportInit ==
    /\ catalog = [t \in CatalogTables |-> {}]
    /\ importer = [i \in Importers |-> Waiting]
    /\ editions = <<>>
    /\ imports = 0

Init == ChangeInit /\ ImportInit

\* load_policy_seed verifies the checksums of the directory it was pointed at.
Verify(i) ==
    /\ importer[i] = Waiting
    /\ imports < MaxImports
    /\ seed[active] # NoSeed
    /\ VerifyChecksums(seed[active])
    /\ importer' = [importer EXCEPT ![i] = [stage |-> "verified", from |-> active]]
    /\ imports' = imports + 1
    /\ UNCHANGED <<changeVars, catalog, editions>>

\* Then it reads the files again, as they are by now.
ReadTables(i) ==
    /\ importer[i].stage = "verified"
    /\ LET now == seed[importer[i].from]
       IN  /\ now # NoSeed
           /\ ReadsTables(now)
           /\ HasPayload(now.files)
           /\ importer' = [importer EXCEPT ![i] =
                [stage |-> "loaded", edition |-> ReviewedSeedPayload(now.files)]]
    /\ UNCHANGED <<changeVars, catalog, editions, imports>>

\* Every import begins by updating the rows of the categories, which the one
\* before it holds until it commits.
UpsertCategories(i) ==
    /\ importer[i].stage = "loaded"
    /\ \A j \in Importers : importer[j].stage # "upserting"
    /\ importer' = [importer EXCEPT ![i] =
         [ stage |-> "upserting", edition |-> importer[i].edition, left |-> Order,
           written |-> catalog ]]
    /\ UNCHANGED <<changeVars, catalog, editions, imports>>

\* Mutant: every table is committed by itself.
CommittedTable(i, tables) == tables

\* What others see of the tables an open transaction has written.
CommittedMeanwhile(i, tables) == catalog

UpsertTable(i) ==
    /\ importer[i].stage = "upserting"
    /\ importer[i].left # <<>>
    /\ LET t == Head(importer[i].left)
           tables == [importer[i].written EXCEPT ![t] = UpsertRows(@, importer[i].edition[t])]
       IN  /\ importer' = [importer EXCEPT ![i].left = Tail(@), ![i].written = tables]
           /\ catalog' = CommittedMeanwhile(i, tables)
    /\ UNCHANGED <<changeVars, editions, imports>>

Commit(i) ==
    /\ importer[i].stage = "upserting"
    /\ importer[i].left = <<>>
    /\ catalog' = importer[i].written
    /\ editions' = Append(editions, importer[i].edition)
    /\ importer' = [importer EXCEPT ![i] = Waiting]
    /\ UNCHANGED <<changeVars, imports>>

\* The process ends, or a statement fails: the transaction is rolled back.
RollBack(i) ==
    /\ importer[i] # Waiting
    /\ importer' = [importer EXCEPT ![i] = Waiting]
    /\ UNCHANGED <<changeVars, catalog, editions, imports>>

Import(i) ==
    \/ Verify(i) \/ ReadTables(i)
    \/ UpsertCategories(i) \/ UpsertTable(i) \/ Commit(i) \/ RollBack(i)

Next ==
    \/ ChangeNext /\ UNCHANGED importVars
    \/ \E i \in Importers : Import(i)

Spec == Init /\ [][Next]_vars

-----------------------------------------------------------------------------

TypeOK ==
    /\ ChangeTypeOK
    /\ DOMAIN catalog = CatalogTables
    /\ \A i \in Importers : importer[i].stage \in {"waiting", "verified", "loaded", "upserting"}
    /\ imports \in 0..MaxImports

Seen == {editions[n] : n \in DOMAIN editions}
RowsOf(table, id) == {r \in table : r.id = id}
PerPolicy == CatalogTables \ {"policy_relation"}

\* The catalogue holds every row of the last edition imported, and the rows of any
\* other id are those one earlier edition had for it in every table: a policy is
\* never described by the policy row of one edition and the document of another.
CatalogIsOfWholeEditions ==
    /\ editions # <<>> =>
         \A t \in CatalogTables : editions[Len(editions)][t] \subseteq catalog[t]
    /\ \A id \in UNION {Ids(catalog[t]) : t \in PerPolicy} :
         \E e \in Seen : \A t \in PerPolicy : RowsOf(catalog[t], id) = RowsOf(e[t], id)

=============================================================================
