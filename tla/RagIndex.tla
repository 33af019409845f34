------------------------------ MODULE RagIndex ------------------------------
(***************************************************************************)
(* The index of approved document chunks: rag/reindex.py rebuilds it from  *)
(* the seed directory in one transaction with calls of the embedding model *)
(* in between, while searches read what was committed.                     *)
(***************************************************************************)
EXTENDS Naturals, FiniteSets, FiniteSetsExt

CONSTANTS
    Chunks,           \* chunk ids, numbered in the order of the file
    Documents,
    SeedPolicies,     \* policy ids as the seed files write them
    Places,           \* a source location with the hash of the content there
    Models,           \* embedding models
    Seeds,            \* the contents the seed directory may have: sets of rows
    NoChunk,          \* there is no row with that id
    NoRun,            \* no re-indexing is under way
    TopK              \* RAG_TOP_K

VARIABLES
    index,    \* document_chunk with its embeddings, as committed
    run       \* the re-indexing under way: its rows, what is left, its tables

\* A row of 10_policy_document_chunk.csv: approved says that the row, its
\* document and its policy may be indexed, consistent that policy, type and URL
\* agree with the document.
Row ==
    [ chunk : Chunks, document : Documents, policy : SeedPolicies, place : Places,
      approved : BOOLEAN, consistent : BOOLEAN ]

ASSUME RagIndexAssumption ==
    /\ Chunks \subseteq Nat /\ IsFiniteSet(Chunks)
    /\ Seeds \subseteq SUBSET Row /\ Seeds # {}
    /\ \A rows \in Seeds : \A r, q \in rows : r.chunk = q.chunk => r = q
    /\ NoChunk \notin [row : Row, models : SUBSET Models]
    /\ TopK \in Nat

Tables == [Chunks -> [row : Row, models : SUBSET Models] \cup {NoChunk}]
Stored(tables) == {c \in Chunks : tables[c] # NoChunk}

-----------------------------------------------------------------------------
(* load_approved_seed_documents.                                           *)

Approved(rows) == {r \in rows : r.approved}
LoadRaises(rows) == \E r \in Approved(rows) : ~ r.consistent
DocumentsOf(rows) == {r.document : r \in Approved(rows)}

\* The tables a seed stands for, however they are arrived at.
Published(rows, m) ==
    [ c \in Chunks |->
        IF \E r \in Approved(rows) : r.chunk = c
        THEN [row |-> CHOOSE r \in Approved(rows) : r.chunk = c, models |-> {m}]
        ELSE NoChunk ]

-----------------------------------------------------------------------------
(* SqlAlchemyChunkIndexRepository.                                         *)

WithoutChunks(tables, gone) == [c \in Chunks |-> IF c \in gone THEN NoChunk ELSE tables[c]]

DeleteDocumentsNotIn(tables, documents) ==
    WithoutChunks(tables, {c \in Stored(tables) : tables[c].row.document \notin documents})

DeleteMissingChunks(tables, d, rows) ==
    WithoutChunks(tables, {c \in Stored(tables) : /\ tables[c].row.document = d
                                                  /\ c \notin {r.chunk : r \in rows}})

\* The upserts go chunk by chunk.  uq_document_chunk_source meets a place that an
\* earlier row took or that a later row's chunk has not left yet.
UpsertRaises(tables, d, rows) ==
    \E r, q \in rows :
        \/ q.chunk < r.chunk /\ q.place = r.place
        \/ /\ q.chunk > r.chunk /\ tables[q.chunk] # NoChunk
           /\ tables[q.chunk].row.document = d /\ tables[q.chunk].row.place = r.place

\* Mutant: embeddings of other models stay.
UpsertBesideOldModels(tables, rows, m) ==
    [ c \in Chunks |->
        IF \E r \in rows : r.chunk = c
        THEN [ row |-> CHOOSE r \in rows : r.chunk = c,
               models |-> {m} \cup (IF tables[c] = NoChunk THEN {} ELSE tables[c].models) ]
        ELSE tables[c] ]

Upsert(tables, rows, m) ==
    [ c \in Chunks |->
        IF \E r \in rows : r.chunk = c
        THEN [row |-> CHOOSE r \in rows : r.chunk = c, models |-> {m}]
        ELSE tables[c] ]

-----------------------------------------------------------------------------
(* python -m app.modules.rag.reindex                                       *)

IndexInit ==
    /\ index = [c \in Chunks |-> NoChunk]
    /\ run = NoRun

\* The directory holds some edition by then; one that does not load ends the run.  That
\* there is one run at a time is assumed of the operator: the code does not see to it.
StartReindex(rows, m) ==
    /\ run = NoRun
    /\ ~ LoadRaises(rows)
    /\ run' = [ rows |-> Approved(rows), model |-> m, left |-> DocumentsOf(rows),
                tables |-> DeleteDocumentsNotIn(index, DocumentsOf(rows)) ]
    /\ UNCHANGED index

Batch(d) == {r \in run.rows : r.document = d}

\* Mutant: the session commits after each document.
ReindexAndCommitDocument(d) ==
    LET kept == DeleteMissingChunks(run.tables, d, Batch(d))
        done == Upsert(kept, Batch(d), run.model)
    IN  /\ run # NoRun /\ d \in run.left
        /\ ~ UpsertRaises(kept, d, Batch(d))
        /\ run' = [run EXCEPT !.left = @ \ {d}, !.tables = done]
        /\ index' = done

ReindexDocument(d) ==
    /\ run # NoRun /\ d \in run.left
    /\ LET kept == DeleteMissingChunks(run.tables, d, Batch(d))
       IN  /\ ~ UpsertRaises(kept, d, Batch(d))
           /\ run' = [run EXCEPT !.left = @ \ {d},
                                 !.tables = Upsert(kept, Batch(d), run.model)]
    /\ UNCHANGED index

CommitReindex ==
    /\ run # NoRun /\ run.left = {}
    /\ index' = run.tables
    /\ run' = NoRun

\* An upsert or an embedding that fails, a crash or an interrupt: rollback.
AbandonReindex ==
    /\ run # NoRun
    /\ run' = NoRun
    /\ UNCHANGED index

IndexNext ==
    \/ \E rows \in Seeds, m \in Models : StartReindex(rows, m)
    \/ \E d \in Documents : ReindexDocument(d)
    \/ CommitReindex
    \/ AbandonReindex

-----------------------------------------------------------------------------

\* search_policy_evidence: at most TopK chunks whose policy_id is p and that have
\* an embedding of the model, the nearest first; which are near is left open.
Hits(p, m) ==
    LET found == {c \in Stored(index) : index[c].row.policy = p /\ m \in index[c].models}
    IN  {h \in SUBSET {index[c].row : c \in found} : Cardinality(h) <= TopK}

=============================================================================
