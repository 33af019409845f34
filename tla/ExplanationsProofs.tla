------------------------- MODULE ExplanationsProofs -------------------------
(***************************************************************************)
(* Proofs about Explanations and RagIndex, for every number of requests,   *)
(* sessions, policies and chunks, every edition of the seed and every      *)
(* choice of time limits.                                                  *)
(***************************************************************************)
EXTENDS Explanations, WellOrder, TLAPS

-----------------------------------------------------------------------------
(* The index.                                                              *)

\* What a re-indexing has done when the documents in left remain: the chunks of
\* the others are those of the edition, and no other document has any.
Indexed(r, m) == [row |-> r, models |-> {m}]

Progress(rows, m, left, tables) ==
    /\ tables = [c \in Chunks |-> tables[c]]
    /\ \A r \in Approved(rows) : r.document \notin left => tables[r.chunk] = Indexed(r, m)
    /\ \A c \in Stored(tables) :
         /\ tables[c].row.document \in DocumentsOf(rows)
         /\ tables[c].row.document \notin left =>
              \E r \in Approved(rows) : r.chunk = c /\ tables[c] = Indexed(r, m)

IsRun(u) ==
    u # NoRun =>
        \E rows \in Seeds, m \in Models :
            /\ u.rows = Approved(rows) /\ u.model = m
            /\ u = [rows |-> u.rows, model |-> u.model, left |-> u.left, tables |-> u.tables]
            /\ Progress(rows, m, u.left, u.tables)

RunOK == IsRun(run)

IsEdition(tables) ==
    \/ tables = [c \in Chunks |-> NoChunk]
    \/ \E rows \in Seeds, m \in Models : tables = Published(rows, m)

IndexInv == RunOK /\ IsEdition(index)

LEMMA ChunksAreNamed ==
    ASSUME NEW rows \in Seeds, NEW r \in Approved(rows)
    PROVE  /\ r \in Row /\ r.chunk \in Chunks /\ r.document \in DocumentsOf(rows)
           /\ \A q \in Approved(rows) : q.chunk = r.chunk => q = r
  <1>1. r \in Row /\ r \in rows
    BY RagIndexAssumption DEF Approved
  <1>2. r.chunk \in Chunks
    BY <1>1 DEF Row
  <1>3. \A q \in Approved(rows) : q.chunk = r.chunk => q = r
    BY <1>1, RagIndexAssumption DEF Approved
  <1> QED  BY <1>1, <1>2, <1>3 DEF DocumentsOf

\* A run begins with the documents of its edition only.
LEMMA StartProgress ==
    ASSUME NEW rows \in Seeds, NEW m \in Models
    PROVE  Progress(rows, m, DocumentsOf(rows), DeleteDocumentsNotIn(index, DocumentsOf(rows)))
  <1> DEFINE docs == DocumentsOf(rows)
             tables == DeleteDocumentsNotIn(index, docs)
  <1>1. tables = [c \in Chunks |-> tables[c]]
    BY DEF DeleteDocumentsNotIn, WithoutChunks
  <1>2. \A r \in Approved(rows) : r.document \in docs
    BY DEF DocumentsOf
  <1>3. \A c \in Stored(tables) : tables[c].row.document \in docs
    <2> SUFFICES ASSUME NEW c \in Stored(tables)
                 PROVE  tables[c].row.document \in docs
      OBVIOUS
    <2>1. c \in Chunks /\ tables[c] # NoChunk
      BY DEF Stored
    <2>2. tables[c] = index[c] /\ ~ (c \in Stored(index) /\ index[c].row.document \notin docs)
      BY <2>1 DEF DeleteDocumentsNotIn, WithoutChunks
    <2>3. c \in Stored(index)
      BY <2>1, <2>2 DEF Stored
    <2> QED  BY <2>2, <2>3
  <1> HIDE DEF docs, tables
  <1>4. Progress(rows, m, docs, tables)
    <2>1. \A r \in Approved(rows) : r.document \notin docs => tables[r.chunk] = Indexed(r, m)
      BY <1>2
    <2>2. \A c \in Stored(tables) :
            /\ tables[c].row.document \in DocumentsOf(rows)
            /\ tables[c].row.document \notin docs =>
                 \E r \in Approved(rows) : r.chunk = c /\ tables[c] = Indexed(r, m)
      BY <1>3 DEF docs
    <2> QED  BY <1>1, <2>1, <2>2 DEF Progress
  <1> QED  BY <1>4 DEF docs, tables

\* One more document is indexed.
LEMMA DocumentProgress ==
    ASSUME NEW rows \in Seeds, NEW m \in Models, NEW left, NEW tables, NEW d,
           Progress(rows, m, left, tables),
           NEW batch, batch = {r \in Approved(rows) : r.document = d},
           NEW kept, kept = DeleteMissingChunks(tables, d, batch),
           NEW done, done = Upsert(kept, batch, m)
    PROVE  Progress(rows, m, left \ {d}, done)
  <1>1. done = [c \in Chunks |-> done[c]]
    BY DEF Upsert
  <1>2. \A r \in batch : done[r.chunk] = Indexed(r, m)
    <2> SUFFICES ASSUME NEW r \in batch PROVE done[r.chunk] = Indexed(r, m)
      OBVIOUS
    <2>1. r \in Approved(rows) /\ r.chunk \in Chunks
      BY ChunksAreNamed
    <2>2. (CHOOSE q \in batch : q.chunk = r.chunk) = r
      BY <2>1, ChunksAreNamed
    <2>3. done[r.chunk] = [row |-> CHOOSE q \in batch : q.chunk = r.chunk, models |-> {m}]
      BY <2>1 DEF Upsert
    <2> QED  BY <2>2, <2>3 DEF Indexed
  <1>3. ASSUME NEW c \in Chunks, \A r \in batch : r.chunk # c
        PROVE  \/ done[c] = NoChunk
               \/ done[c] = tables[c] /\ tables[c].row.document # d
    <2>1. done[c] = kept[c]
      BY <1>3 DEF Upsert
    <2>2. kept[c] = IF c \in Stored(tables) /\ tables[c].row.document = d
                       /\ c \notin {r.chunk : r \in batch}
                    THEN NoChunk ELSE tables[c]
      BY DEF DeleteMissingChunks, WithoutChunks
    <2>3. c \notin {r.chunk : r \in batch}
      BY <1>3
    <2> QED  BY <2>1, <2>2, <2>3 DEF Stored
  <1>4. ASSUME NEW r \in Approved(rows), r.document \notin left \ {d}
        PROVE  done[r.chunk] = Indexed(r, m)
    <2>1. CASE r.document = d
      BY <2>1, <1>2
    <2>2. CASE r.document # d
      <3>1. tables[r.chunk] = Indexed(r, m)
        BY <2>2, <1>4 DEF Progress
      <3>2. r.chunk \in Chunks /\ \A q \in batch : q.chunk # r.chunk
        BY <2>2, ChunksAreNamed
      <3>3. tables[r.chunk].row.document # d
        BY <3>1, <2>2 DEF Indexed
      <3>4. done[r.chunk] = tables[r.chunk]
        <4>1. done[r.chunk] = kept[r.chunk]
          BY <3>2 DEF Upsert
        <4> QED  BY <4>1, <3>2, <3>3 DEF DeleteMissingChunks, WithoutChunks
      <3> QED  BY <3>1, <3>4
    <2> QED  BY <2>1, <2>2
  <1>5. ASSUME NEW c \in Stored(done)
        PROVE  /\ done[c].row.document \in DocumentsOf(rows)
               /\ done[c].row.document \notin left \ {d} =>
                    \E r \in Approved(rows) : r.chunk = c /\ done[c] = Indexed(r, m)
    <2>0. c \in Chunks /\ done[c] # NoChunk
      BY <1>5 DEF Stored
    <2>1. CASE \E r \in batch : r.chunk = c
      <3>1. PICK r \in batch : r.chunk = c
        BY <2>1
      <3>2. done[c] = Indexed(r, m) /\ r \in Approved(rows)
        BY <3>1, <1>2
      <3>3. done[c].row = r /\ r.document \in DocumentsOf(rows)
        BY <3>2, ChunksAreNamed DEF Indexed
      <3> QED  BY <3>1, <3>2, <3>3
    <2>2. CASE \A r \in batch : r.chunk # c
      <3>1. done[c] = tables[c] /\ tables[c].row.document # d
        BY <2>0, <2>2, <1>3
      <3>2. c \in Stored(tables)
        BY <2>0, <3>1 DEF Stored
      <3>3. /\ tables[c].row.document \in DocumentsOf(rows)
            /\ tables[c].row.document \notin left =>
                 \E r \in Approved(rows) : r.chunk = c /\ tables[c] = Indexed(r, m)
        BY <3>2 DEF Progress
      <3> QED  BY <3>1, <3>3
    <2> QED  BY <2>1, <2>2
  <1> QED  BY <1>1, <1>4, <1>5 DEF Progress

\* With no document left the tables are the edition.
LEMMA WholeProgress ==
    ASSUME NEW rows \in Seeds, NEW m \in Models, NEW tables, Progress(rows, m, {}, tables)
    PROVE  tables = Published(rows, m)
  <1>1. ASSUME NEW c \in Chunks
        PROVE  tables[c] = Published(rows, m)[c]
    <2>1. CASE \E r \in Approved(rows) : r.chunk = c
      <3>1. PICK r \in Approved(rows) : r.chunk = c
        BY <2>1
      <3>2. tables[c] = Indexed(r, m)
        BY <3>1 DEF Progress
      <3>3. (CHOOSE q \in Approved(rows) : q.chunk = c) = r
        BY <3>1, ChunksAreNamed
      <3>4. Published(rows, m)[c] =
              [row |-> CHOOSE q \in Approved(rows) : q.chunk = c, models |-> {m}]
        BY <2>1 DEF Published
      <3> QED  BY <3>2, <3>3, <3>4 DEF Indexed
    <2>2. CASE ~ \E r \in Approved(rows) : r.chunk = c
      <3>1. c \notin Stored(tables)
        BY <2>2 DEF Progress
      <3>2. tables[c] = NoChunk
        BY <3>1 DEF Stored
      <3> QED  BY <2>2, <3>2 DEF Published
    <2> QED  BY <2>1, <2>2
  <1>2. tables = [c \in Chunks |-> tables[c]]
    BY DEF Progress
  <1>3. Published(rows, m) = [c \in Chunks |-> Published(rows, m)[c]]
    BY DEF Published
  <1> QED  BY <1>1, <1>2, <1>3

LEMMA IndexStep ==
    ASSUME IndexInv, IndexNext
    PROVE  /\ IndexInv'
           /\ index' # index => \E rows \in Seeds, m \in Models : index' = Published(rows, m)
  <1>1. ASSUME NEW rows \in Seeds, NEW m \in Models, StartReindex(rows, m)
        PROVE  RunOK' /\ index' = index
    <2> DEFINE left == DocumentsOf(rows)
               tables == DeleteDocumentsNotIn(index, left)
    <2>1. /\ run' = [rows |-> Approved(rows), model |-> m, left |-> left, tables |-> tables]
          /\ index' = index
      BY <1>1 DEF StartReindex
    <2>2. Progress(rows, m, left, tables)
      BY StartProgress
    <2> HIDE DEF left, tables
    <2>3. /\ run'.rows = Approved(rows) /\ run'.model = m
          /\ run'.left = left /\ run'.tables = tables
      BY <2>1
    <2>4. Progress(rows, m, run'.left, run'.tables)
      BY <2>2, <2>3
    <2> QED  BY <2>1, <2>3, <2>4 DEF RunOK, IsRun, Progress, Approved, DocumentsOf, Stored, Indexed
  <1>2. ASSUME NEW d \in Documents, ReindexDocument(d)
        PROVE  RunOK' /\ index' = index
    <2>0. run # NoRun /\ index' = index
      BY <1>2 DEF ReindexDocument
    <2>1. PICK rows \in Seeds, m \in Models :
            /\ run.rows = Approved(rows) /\ run.model = m
            /\ run = [ rows |-> run.rows, model |-> run.model, left |-> run.left,
                       tables |-> run.tables ]
            /\ Progress(rows, m, run.left, run.tables)
      BY <2>0 DEF IndexInv, RunOK, IsRun
    <2> DEFINE batch == Batch(d)
               kept == DeleteMissingChunks(run.tables, d, batch)
               done == Upsert(kept, batch, m)
    <2>2. batch = {r \in Approved(rows) : r.document = d}
      BY <2>1 DEF Batch
    <2>3. run' = [run EXCEPT !.left = @ \ {d}, !.tables = done]
      BY <1>2, <2>1 DEF ReindexDocument
    <2> HIDE DEF batch
    <2>4. Progress(rows, m, run.left \ {d}, done)
      BY <2>1, <2>2, DocumentProgress
    <2> HIDE DEF done
    <2>5. run' = [rows |-> run.rows, model |-> run.model, left |-> run.left \ {d}, tables |-> done]
      BY <2>1, <2>3
    <2>6. /\ run'.rows = Approved(rows) /\ run'.model = m
          /\ run'.left = run.left \ {d} /\ run'.tables = done
      BY <2>1, <2>5
    <2>7. run' = [ rows |-> run'.rows, model |-> run'.model, left |-> run'.left,
                   tables |-> run'.tables ]
      BY <2>1, <2>5, <2>6
    <2>8. Progress(rows, m, run'.left, run'.tables)
      BY <2>4, <2>6
    <2> QED  BY <2>0, <2>6, <2>7, <2>8
             DEF RunOK, IsRun, Progress, Approved, DocumentsOf, Stored, Indexed
  <1>3. ASSUME CommitReindex
        PROVE  RunOK' /\ \E rows \in Seeds, m \in Models : index' = Published(rows, m)
    <2>1. run # NoRun /\ run.left = {} /\ index' = run.tables /\ run' = NoRun
      BY <1>3 DEF CommitReindex
    <2>2. PICK rows \in Seeds, m \in Models : Progress(rows, m, {}, run.tables)
      BY <2>1 DEF IndexInv, RunOK, IsRun
    <2>3. index' = Published(rows, m)
      BY <2>1, <2>2, WholeProgress
    <2> QED  BY <2>1, <2>3 DEF RunOK, IsRun
  <1>4. ASSUME AbandonReindex
        PROVE  RunOK' /\ index' = index
    BY <1>4 DEF AbandonReindex, RunOK, IsRun
  <1>5. \/ RunOK' /\ index' = index
        \/ RunOK' /\ \E rows \in Seeds, m \in Models : index' = Published(rows, m)
    BY <1>1, <1>2, <1>3, <1>4 DEF IndexNext
  <1>6. IsEdition(index)'
    BY <1>5 DEF IndexInv, IsEdition, Published, Approved
  <1> QED  BY <1>5, <1>6 DEF IndexInv

-----------------------------------------------------------------------------
(* One request.                                                            *)

IsRequest(q) ==
    q = [ stage |-> q.stage, session |-> q.session, policy |-> q.policy,
          evaluation |-> q.evaluation, cites |-> q.cites, provider |-> q.provider,
          attempt |-> q.attempt, deadline |-> q.deadline, patience |-> q.patience,
          held |-> q.held, answer |-> q.answer ]

Underway(q) == q.stage \in {"retrieving", "choosing", "checking", "explaining", "generating"}

\* A request that is not idle holds the lock of its session.
Locked(r, q, holders) == q.stage # "idle" => q.session \in Sessions /\ holders[q.session] = r

\* The evaluation it read is the stored one.
Knows(q, table) ==
    Underway(q) /\ q.policy # NoPolicy => q.evaluation = table[q.session][q.policy]

\* The chunks it found are those of its policy in one edition.
OneEdition(cites, p) == \E rows \in Seeds : cites \subseteq {c \in Approved(rows) : c.policy = p}

Evidenced(q) ==
    /\ Underway(q) => OneEdition(q.cites, q.policy)
    /\ q.stage = "generating" => q.cites # {}

\* How long it can have held the lock.
Limit(n) == RagTimeout + n * HttpTimeout

Timed(q) ==
    /\ q.held \in Nat
    /\ q.stage \in {"idle", "answered"} => q.held = 0
    /\ q.stage = "raised" => q.held <= Limit(MaxAttempts)
    /\ q.stage = "retrieving" =>
         q.deadline \in Nat /\ q.patience = NoTimer /\ q.held + q.deadline <= RagTimeout
    /\ q.stage = "choosing" =>
         q.deadline = NoTimer /\ q.patience = NoTimer /\ q.held <= RagTimeout
    /\ q.stage = "checking" =>
         /\ q.deadline = NoTimer /\ q.patience \in Nat /\ q.attempt \in 1..MaxAttempts
         /\ q.held + q.patience <= Limit(q.attempt)
    /\ q.stage = "explaining" => q.held <= Limit(MaxAttempts)
    /\ q.stage = "generating" =>
         /\ q.deadline \in Nat /\ q.patience \in Nat
         /\ q.held + q.deadline <= Limit(MaxAttempts) + LlmTimeout

\* What it answers is what the rules say, as far as the code looks at it.
AgreesWith(answer, e) ==
    /\ answer.text.by = "code" /\ answer.text.claims => Claims(e)
    /\ answer.text.matches => Claims(e)
    /\ answer.status \in {RuleStatus(e), "OFFICIAL_CONFIRMATION_REQUIRED"}
    /\ answer.state = RuleState(e)

Says(q, table) ==
    q.stage = "answered" =>
        /\ q.policy # NoPolicy => AgreesWith(q.answer, table[q.session][q.policy])
        /\ OneEdition(q.answer.cites, q.answer.policy)
        /\ q.answer.ai = "GENERATED" => q.answer.cites # {}

Sound(r, q, holders, table) ==
    /\ IsRequest(q)
    /\ q.stage \in {"idle", "answered", "raised"} \/ Underway(q)
    /\ Locked(r, q, holders)
    /\ Knows(q, table)
    /\ Evidenced(q)
    /\ Timed(q)
    /\ Says(q, table)

AllSound(reqs, holders, table) ==
    /\ reqs = [r \in Requests |-> reqs[r]]
    /\ holders = [s \in Sessions |-> holders[s]]
    /\ table = [s \in Sessions |-> table[s]]
    /\ \A r \in Requests : Sound(r, reqs[r], holders, table)

ExplanationInv == IndexInv /\ AllSound(req, holder, evaluation)

LEMMA Limits ==
    /\ Limit(1) = RagTimeout + HttpTimeout
    /\ \A n \in Nat : /\ Limit(n) \in Nat
                      /\ Limit(n + 1) = Limit(n) + HttpTimeout
    /\ \A n \in 1..MaxAttempts : Limit(n) <= Limit(MaxAttempts)
    /\ RagTimeout <= Limit(MaxAttempts)
  <1>1. RagTimeout \in Nat /\ HttpTimeout \in Nat /\ MaxAttempts \in Nat /\ MaxAttempts >= 1
    BY ExplanationsAssumption
  <1>2. \A n \in Nat : /\ n * HttpTimeout \in Nat
                       /\ (n + 1) * HttpTimeout = n * HttpTimeout + HttpTimeout
    BY <1>1
  <1>3. \A n \in 1..MaxAttempts : n * HttpTimeout <= MaxAttempts * HttpTimeout
    <2> TAKE n \in 1..MaxAttempts
    <2> DEFINE more == MaxAttempts - n
    <2>1. more \in Nat /\ MaxAttempts = n + more /\ n \in Nat
      BY <1>1
    <2> HIDE DEF more
    <2>2. MaxAttempts * HttpTimeout = n * HttpTimeout + more * HttpTimeout
      BY <1>1, <2>1
    <2>3. n * HttpTimeout \in Nat /\ more * HttpTimeout \in Nat
      BY <1>2, <2>1
    <2> QED  BY <2>2, <2>3
  <1>4. 1 * HttpTimeout = HttpTimeout
    BY <1>1
  <1>5. MaxAttempts * HttpTimeout \in Nat
    BY <1>1, <1>2
  <1> QED  BY <1>1, <1>2, <1>3, <1>4, <1>5 DEF Limit

\* Searches find chunks of one edition.
LEMMA HitsAreOfOneEdition ==
    ASSUME IsEdition(index), NEW p, NEW m, NEW h \in Hits(p, m) \cup {{}}
    PROVE  OneEdition(h, p)
  <1>0. PICK some \in Seeds : TRUE
    BY RagIndexAssumption
  <1>1. CASE h = {}
    BY <1>0, <1>1 DEF OneEdition
  <1>2. CASE h # {}
    <2> DEFINE found == {c \in Stored(index) : index[c].row.policy = p /\ m \in index[c].models}
    <2>1. h \subseteq {index[c].row : c \in found}
      BY <1>2 DEF Hits
    <2>2. PICK rows \in Seeds, model \in Models : index = Published(rows, model)
      <3>1. PICK c \in Stored(index) : TRUE
        BY <1>2, <2>1
      <3>2. c \in Chunks /\ index[c] # NoChunk
        BY DEF Stored
      <3>3. index # [d \in Chunks |-> NoChunk]
        BY <3>2
      <3> QED  BY <3>3 DEF IsEdition
    <2>3. ASSUME NEW c \in found
          PROVE  index[c].row \in {x \in Approved(rows) : x.policy = p}
      <3>1. c \in Chunks /\ index[c] # NoChunk /\ index[c].row.policy = p
        BY DEF Stored
      <3>2. PICK x \in Approved(rows) : x.chunk = c
        BY <2>2, <3>1 DEF Published
      <3>3. (CHOOSE y \in Approved(rows) : y.chunk = c) \in Approved(rows)
        BY <3>2
      <3>4. index[c].row = CHOOSE y \in Approved(rows) : y.chunk = c
        BY <2>2, <3>1, <3>2 DEF Published
      <3> QED  BY <3>1, <3>3, <3>4
    <2>4. h \subseteq {x \in Approved(rows) : x.policy = p}
      BY <2>1, <2>3
    <2> QED  BY <2>4 DEF OneEdition
  <1> QED  BY <1>1, <1>2

\* Whatever branch answers, the answer agrees with the evaluation.
LEMMA AnswersAgree ==
    ASSUME NEW q, NEW answer,
           answer \in {OfficialConfirmation(q), FallbackResponse(q)}
                      \cup CatalogAnswers(q) \cup GeneratedAnswers(q)
    PROVE  /\ AgreesWith(answer, q.evaluation)
           /\ answer.cites = q.cites /\ answer.policy = q.policy
  <1>1. CASE answer = OfficialConfirmation(q)
    BY <1>1 DEF OfficialConfirmation, Response, Sentence, AgreesWith
  <1>2. CASE answer = FallbackResponse(q)
    BY <1>2 DEF FallbackResponse, Response, Sentence, AgreesWith
  <1>3. CASE answer \in CatalogAnswers(q)
    BY <1>3 DEF CatalogAnswers, Response, Sentence, AgreesWith
  <1>4. CASE answer \in GeneratedAnswers(q) /\ answer # FallbackResponse(q)
    <2> DEFINE allowed == {t \in ModelTexts : ~ Contradicts(t, RuleStatus(q.evaluation))}
    <2>0. answer \in { Response(q, ai, RuleStatus(q.evaluation), FALSE, text) :
                        ai \in {"GENERATED", "FALLBACK"}, text \in allowed }
      BY <1>4 DEF GeneratedAnswers, Response
    <2> HIDE DEF allowed
    <2>1. PICK ai \in {"GENERATED", "FALLBACK"},
               text \in allowed :
            answer = Response(q, ai, RuleStatus(q.evaluation), FALSE, text)
      BY <2>0 DEF Response
    <2>2. text.by = "model" /\ (text.matches => Claims(q.evaluation))
      BY DEF allowed, ModelTexts, Contradicts, RuleStatus, Claims
    <2> QED  BY <1>4, <2>1, <2>2 DEF Response, AgreesWith
  <1> QED  BY <1>1, <1>2, <1>3, <1>4

-----------------------------------------------------------------------------
(* Types.  TypeOK is inductive as it stands.                               *)

Run == [rows : SUBSET Row, model : Models, left : SUBSET Documents, tables : Tables]

LEMMA TablesTyped ==
    /\ [c \in Chunks |-> NoChunk] \in Tables
    /\ \A tables \in Tables : \A gone : WithoutChunks(tables, gone) \in Tables
    /\ \A tables \in Tables, rows \in SUBSET Row, m \in Models : Upsert(tables, rows, m) \in Tables
  <1>1. [c \in Chunks |-> NoChunk] \in Tables
    BY DEF Tables
  <1>2. ASSUME NEW tables \in Tables, NEW gone
        PROVE  WithoutChunks(tables, gone) \in Tables
    BY DEF Tables, WithoutChunks
  <1>3. ASSUME NEW tables \in Tables, NEW rows \in SUBSET Row, NEW m \in Models
        PROVE  Upsert(tables, rows, m) \in Tables
    <2> DEFINE T == [row : Row, models : SUBSET Models] \cup {NoChunk}
               u(c) == IF \E r \in rows : r.chunk = c
                       THEN [row |-> CHOOSE r \in rows : r.chunk = c, models |-> {m}]
                       ELSE tables[c]
    <2>1. ASSUME NEW c \in Chunks PROVE u(c) \in T
      <3>1. CASE \E r \in rows : r.chunk = c
        <4>1. (CHOOSE r \in rows : r.chunk = c) \in Row
          BY <3>1
        <4> QED  BY <3>1, <4>1
      <3>2. CASE ~ \E r \in rows : r.chunk = c
        BY <3>2 DEF Tables
      <3> QED  BY <3>1, <3>2
    <2>2. Upsert(tables, rows, m) = [c \in Chunks |-> u(c)]
      BY DEF Upsert
    <2> HIDE DEF u
    <2> QED  BY <2>1, <2>2 DEF Tables
  <1> QED  BY <1>1, <1>2, <1>3

IndexTyped == index \in Tables /\ run \in Run \cup {NoRun}

LEMMA IndexTypedNext ==
    ASSUME IndexTyped, IndexNext
    PROVE  IndexTyped'
  <1>1. ASSUME NEW rows \in Seeds, NEW m \in Models, StartReindex(rows, m)
        PROVE  IndexTyped'
    <2> DEFINE tables == DeleteDocumentsNotIn(index, DocumentsOf(rows))
    <2>1. rows \subseteq Row
      BY RagIndexAssumption
    <2>2. Approved(rows) \subseteq Row /\ DocumentsOf(rows) \subseteq Documents
      BY <2>1 DEF Approved, DocumentsOf, Row
    <2>3. tables \in Tables
      BY TablesTyped DEF DeleteDocumentsNotIn, IndexTyped
    <2> HIDE DEF tables
    <2>4. run' = [rows |-> Approved(rows), model |-> m, left |-> DocumentsOf(rows), tables |-> tables]
      BY <1>1 DEF StartReindex, tables
    <2>5. index' = index
      BY <1>1 DEF StartReindex
    <2> QED  BY <2>2, <2>3, <2>4, <2>5 DEF IndexTyped, Run
  <1>2. ASSUME NEW d \in Documents, ReindexDocument(d)
        PROVE  IndexTyped'
    <2>1. run # NoRun /\ run \in Run /\ index' = index
      BY <1>2 DEF ReindexDocument, IndexTyped
    <2> DEFINE kept == DeleteMissingChunks(run.tables, d, Batch(d))
               done == Upsert(kept, Batch(d), run.model)
    <2>2. Batch(d) \in SUBSET Row
      BY <2>1 DEF Batch, Run
    <2>3. kept \in Tables
      BY <2>1, TablesTyped DEF DeleteMissingChunks, Run
    <2>4. done \in Tables
      <3> HIDE DEF kept
      <3> QED  BY <2>1, <2>2, <2>3, TablesTyped DEF Run
    <2>5. run' = [run EXCEPT !.left = @ \ {d}, !.tables = done]
      BY <1>2 DEF ReindexDocument
    <2> HIDE DEF done
    <2>6. run' \in Run
      BY <2>1, <2>4, <2>5 DEF Run
    <2> QED  BY <2>1, <2>6 DEF IndexTyped
  <1>3. CASE CommitReindex
    BY <1>3 DEF CommitReindex, IndexTyped, Run
  <1>4. CASE AbandonReindex
    BY <1>4 DEF AbandonReindex, IndexTyped
  <1> QED  BY <1>1, <1>2, <1>3, <1>4 DEF IndexNext

Found(p) == p \in Visible \cup {NoPolicy}

LEMMA SubjectTyped ==
    ASSUME NEW s, NEW q \in Questions
    PROVE  Found(Subject(s, q))
  <1>1. ASSUME NEW c, NEW k PROVE Found(AtRank(s, c, k))
    <2> DEFINE found == {p \in Ranked(s, c) :
                           Cardinality({o \in Ranked(s, c) : Before(s, o, p)}) = k - 1}
    <2>1. found \subseteq Visible
      BY DEF Ranked, InCategory
    <2>2. AtRank(s, c, k) = IF found = {} THEN NoPolicy ELSE CHOOSE p \in found : TRUE
      BY DEF AtRank
    <2> HIDE DEF found
    <2> QED  BY <2>1, <2>2 DEF Found
  <1>2. ASSUME NEW c, NEW mentions PROVE Found(Mentioned(c, mentions))
    <2> DEFINE matches == mentions \cap InCategory(c)
    <2>1. matches \subseteq Visible /\ matches \subseteq Nat
      BY ExplanationsAssumption DEF InCategory
    <2>2. Mentioned(c, mentions) =
            IF matches = {} THEN NoPolicy ELSE CHOOSE p \in matches : \A o \in matches : p <= o
      BY DEF Mentioned
    <2> HIDE DEF matches
    <2>3. matches # {} => \E p \in matches : \A o \in matches : p <= o
      BY <2>1, LeastNumber
    <2> QED  BY <2>1, <2>2, <2>3 DEF Found
  <1>3. ASSUME NEW p, NEW o, Found(p), Found(o) PROVE Found(OrElse(p, o))
    BY <1>3 DEF OrElse
  <1>4. Found(NoPolicy)
    BY DEF Found
  <1>5. q.kind \in {"policy", "rank", "text"}
    BY ExplanationsAssumption DEF Question
  <1>6. CASE q.kind = "policy"
    BY <1>6 DEF Subject, Found
  <1>7. CASE q.kind = "rank"
    BY <1>1, <1>3, <1>7 DEF Subject
  <1>8. CASE q.kind = "text"
    <2> DEFINE m == OrElse(Mentioned(q.category, q.mentions), Mentioned(NoCategory, q.mentions))
               k == OrElse(AtRank(s, q.category, 1), AtRank(s, NoCategory, 1))
    <2>1. Found(m) /\ Found(k)
      BY <1>1, <1>2, <1>3
    <2>2. Subject(s, q) = OrElse(m, IF q.recommends THEN k ELSE NoPolicy)
      BY <1>8 DEF Subject, Named
    <2> HIDE DEF m, k
    <2> QED  BY <1>3, <1>4, <2>1, <2>2
  <1> QED  BY <1>5, <1>6, <1>7, <1>8

\* Whatever branch answers, it answers with a well-formed response.
LEMMA ResponseTyped ==
    ASSUME NEW q \in Request, NEW ai \in {"GENERATED", "FALLBACK", "OFFICIAL_CONFIRMATION_REQUIRED"},
           NEW status \in Statuses \cup {"OFFICIAL_CONFIRMATION_REQUIRED"},
           NEW catalog \in BOOLEAN, NEW text \in Text
    PROVE  Response(q, ai, status, catalog, text) \in Answer
  <1>1. q.policy \in Visible \cup {NoPolicy} /\ q.cites \in SUBSET Row
    BY DEF Request
  <1>2. RuleState(q.evaluation) \in {"none", "ACTIVE", "STALE"}
    BY DEF Request, RuleState, Evaluation
  <1> QED  BY <1>1, <1>2 DEF Response, Answer

LEMMA AnswersTyped ==
    ASSUME NEW q \in Request, NEW answer,
           answer \in {OfficialConfirmation(q), FallbackResponse(q)}
                      \cup CatalogAnswers(q) \cup GeneratedAnswers(q)
    PROVE  answer \in Answer
  <1>1. RuleStatus(q.evaluation) \in Statuses \cup {"OFFICIAL_CONFIRMATION_REQUIRED"}
    BY DEF Request, RuleStatus, Evaluation
  <1>2. Claims(q.evaluation) \in BOOLEAN /\ \A b \in BOOLEAN : Sentence(b) \in Text
    BY DEF Claims, Sentence, Text
  <1>3. CASE answer = OfficialConfirmation(q)
    BY <1>3, <1>2, ResponseTyped DEF OfficialConfirmation
  <1>4. CASE answer = FallbackResponse(q)
    <2>1. (Claims(q.evaluation) /\ q.evaluation.state # "STALE") \in BOOLEAN
      OBVIOUS
    <2> QED  BY <1>4, <1>1, <1>2, <2>1, ResponseTyped DEF FallbackResponse
  <1>5. CASE answer \in CatalogAnswers(q)
    BY <1>5, <1>1, <1>2, ResponseTyped DEF CatalogAnswers
  <1>6. CASE answer \in GeneratedAnswers(q) /\ answer # FallbackResponse(q)
    <2> DEFINE allowed == {t \in ModelTexts : ~ Contradicts(t, RuleStatus(q.evaluation))}
    <2>1. answer \in { Response(q, ai, RuleStatus(q.evaluation), FALSE, text) :
                        ai \in {"GENERATED", "FALLBACK"}, text \in allowed }
      BY <1>6 DEF GeneratedAnswers, Response
    <2>2. allowed \subseteq Text
      BY DEF ModelTexts
    <2> HIDE DEF allowed
    <2>3. PICK ai \in {"GENERATED", "FALLBACK"}, text \in allowed :
            answer = Response(q, ai, RuleStatus(q.evaluation), FALSE, text)
      BY <2>1 DEF Response
    <2> QED  BY <1>1, <1>2, <2>2, <2>3, ResponseTyped
  <1> QED  BY <1>3, <1>4, <1>5, <1>6

\* A request of the right type, answered or not.
RequestTyped(q) == q \in Request /\ (q.stage = "answered" <=> q.answer # NoAnswer)

RequestsTyped(reqs) == reqs \in [Requests -> Request] /\ \A r \in Requests : RequestTyped(reqs[r])

LEMMA IdleTyped == RequestTyped(Idle)
  BY ExplanationsAssumption DEF Idle, RequestTyped, Request, Provider, Timer, Attempts

LEMMA OnlyTyped ==
    ASSUME RequestsTyped(req), NEW r \in Requests, NEW n, RequestTyped(n), Only(r, n)
    PROVE  RequestsTyped(req')
  BY DEF RequestsTyped, RequestTyped, Only

LEMMA AnsweredTyped ==
    ASSUME RequestsTyped(req), NEW r \in Requests, NEW answer, Answered(r, answer),
           answer \in {OfficialConfirmation(req[r]), FallbackResponse(req[r])}
                      \cup CatalogAnswers(req[r]) \cup GeneratedAnswers(req[r])
    PROVE  RequestsTyped(req')
  <1> DEFINE n == [Idle EXCEPT !.stage = "answered", !.session = req[r].session,
                               !.policy = req[r].policy, !.answer = answer]
  <1>1. req[r] \in Request
    BY DEF RequestsTyped
  <1>2. answer \in Answer /\ answer # NoAnswer
    BY <1>1, AnswersTyped, ExplanationsAssumption
  <1>3. Idle \in Request
    BY IdleTyped DEF RequestTyped
  <1>4. RequestTyped(n)
    BY <1>1, <1>2, <1>3 DEF RequestTyped, Request
  <1>5. Only(r, n)
    BY DEF Answered
  <1> HIDE DEF n
  <1> QED  BY <1>4, <1>5, OnlyTyped

LEMMA AskedTyped ==
    ASSUME TypeOK, NEW r \in Requests, NEW s \in Sessions, NEW q \in Questions
    PROVE  RequestTyped(Asked(r, s, q))
  <1> DEFINE p == Subject(s, q)
             asked == [Idle EXCEPT !.session = s, !.policy = p]
  <1>1. p \in Visible \cup {NoPolicy}
    BY SubjectTyped DEF Found
  <1>2. Idle \in Request /\ Idle.stage = "idle" /\ Idle.answer = NoAnswer
    BY IdleTyped DEF RequestTyped, Idle
  <1> HIDE DEF p
  <1>3. asked \in Request /\ asked.answer = NoAnswer
    BY <1>1, <1>2 DEF Request
  <1>4. CASE p # NoPolicy /\ ~ FlushRaises(q, p)
    <2>1. evaluation[s][p] \in Evaluation \cup {NoEvaluation} /\ RagTimeout \in Timer
      BY <1>1, <1>4, ExplanationsAssumption DEF TypeOK, Timer
    <2>2. Asked(r, s, q) = [asked EXCEPT !.stage = "retrieving", !.deadline = RagTimeout,
                                         !.evaluation = evaluation[s][p]]
      BY <1>4 DEF Asked, p
    <2> HIDE DEF asked
    <2> QED  BY <1>3, <2>1, <2>2 DEF RequestTyped, Request
  <1>5. CASE p = NoPolicy \/ FlushRaises(q, p)
    <2>1. PICK stage \in {"raised", "choosing"} : Asked(r, s, q) = [asked EXCEPT !.stage = stage]
      BY <1>5 DEF Asked, p
    <2> HIDE DEF asked
    <2> QED  BY <1>3, <2>1 DEF RequestTyped, Request
  <1> QED  BY <1>4, <1>5

\* The next call of the model.
Calls(q, stage, attempt, deadline) ==
    [q EXCEPT !.stage = stage, !.attempt = attempt, !.deadline = deadline, !.patience = HttpTimeout]

LEMMA CallTyped ==
    ASSUME NEW q, RequestTyped(q), q.stage # "answered", NEW stage \in {"checking", "generating"},
           NEW attempt \in Attempts, NEW deadline \in Timer
    PROVE  RequestTyped(Calls(q, stage, attempt, deadline))
  <1> DEFINE n == Calls(q, stage, attempt, deadline)
  <1>1. IsRequest(q) /\ q \in Request /\ q.answer = NoAnswer /\ HttpTimeout \in Timer
    BY ExplanationsAssumption DEF RequestTyped, Request, IsRequest, Timer
  <1>2. n = [q EXCEPT !.stage = stage, !.attempt = attempt, !.deadline = deadline,
                      !.patience = HttpTimeout]
    BY DEF Calls
  <1> HIDE DEF n
  <1>3. /\ n.stage = stage /\ n.session = q.session /\ n.policy = q.policy
        /\ n.evaluation = q.evaluation /\ n.cites = q.cites /\ n.provider = q.provider
        /\ n.attempt = attempt /\ n.deadline = deadline /\ n.patience = HttpTimeout
        /\ n.held = q.held /\ n.answer = q.answer /\ IsRequest(n)
    BY <1>1, <1>2 DEF IsRequest
  <1>4. n \in Request /\ n.stage # "answered" /\ n.answer = NoAnswer
    BY <1>1, <1>3 DEF Request, IsRequest
  <1> QED  BY <1>4 DEF RequestTyped, n

LEMMA SameDeadline ==
    ASSUME NEW q \in Request, NEW stage, NEW attempt
    PROVE  [q EXCEPT !.stage = stage, !.attempt = attempt, !.patience = HttpTimeout]
             = Calls(q, stage, attempt, q.deadline)
  <1>1. IsRequest(q)
    BY DEF Request, IsRequest
  <1> QED  BY <1>1 DEF IsRequest, Calls

LEMMA SameStage ==
    ASSUME NEW q \in Request, NEW attempt
    PROVE  [q EXCEPT !.attempt = attempt, !.patience = HttpTimeout]
             = Calls(q, q.stage, attempt, q.deadline)
  <1>1. IsRequest(q)
    BY DEF Request, IsRequest
  <1> QED  BY <1>1 DEF IsRequest, Calls

LEMMA RaisedTyped ==
    ASSUME NEW q, RequestTyped(q), q.stage # "answered"
    PROVE  RequestTyped([q EXCEPT !.stage = "raised"])
  BY DEF RequestTyped, Request

\* The other steps of a request.
LEMMA StepTyped ==
    ASSUME TypeOK, NEW r \in Requests, Step(r)
    PROVE  RequestsTyped(req')
  <1> DEFINE q == req[r]
  <1>0. RequestsTyped(req) /\ q \in Request /\ RequestTyped(q)
    BY DEF TypeOK, RequestsTyped, RequestTyped
  <1>11. 1 \in Attempts /\ LlmTimeout \in Timer /\ q.deadline \in Timer
    BY <1>0, ExplanationsAssumption DEF Timer, Attempts, Request
  <1>1. ASSUME NEW s \in Sessions, NEW ask \in Questions, Begin(r, s, ask)
        PROVE  RequestsTyped(req')
    <2>1. Only(r, Asked(r, s, ask))
      BY <1>1 DEF Begin
    <2> QED  BY <1>0, <2>1, AskedTyped, OnlyTyped
  <1>2. ASSUME Retrieve(r) PROVE RequestsTyped(req')
    <2>1. PICK cites \in Hits(q.policy, EmbeddingModel) \cup {{}} :
            Only(r, [q EXCEPT !.stage = "choosing", !.deadline = NoTimer, !.cites = cites])
      BY <1>2 DEF Retrieve
    <2>2. cites \in SUBSET Row
      BY DEF Hits, TypeOK, Tables, Stored
    <2>3. q.stage = "retrieving"
      BY <1>2 DEF Retrieve
    <2>4. RequestTyped([q EXCEPT !.stage = "choosing", !.deadline = NoTimer, !.cites = cites])
      BY <1>0, <2>2, <2>3 DEF RequestTyped, Request, Timer
    <2> QED  BY <1>0, <2>1, <2>4, OnlyTyped
  <1>3. ASSUME UseCachedProvider(r) PROVE RequestsTyped(req')
    <2>1. /\ Only(r, [q EXCEPT !.stage = "explaining", !.provider = cached])
          /\ q.stage = "choosing" /\ cached \in Provider
      BY <1>3 DEF UseCachedProvider, TypeOK
    <2>2. RequestTyped([q EXCEPT !.stage = "explaining", !.provider = cached])
      BY <1>0, <2>1 DEF RequestTyped, Request
    <2> QED  BY <1>0, <2>1, <2>2, OnlyTyped
  <1>4. ASSUME CheckHealth(r) PROVE RequestsTyped(req')
    <2>1. /\ Only(r, [q EXCEPT !.stage = "checking", !.attempt = 1, !.patience = HttpTimeout])
          /\ q.stage = "choosing"
      BY <1>4 DEF CheckHealth
    <2>2. Only(r, Calls(q, "checking", 1, q.deadline))
      BY <1>0, <2>1, SameDeadline
    <2>3. RequestTyped(Calls(q, "checking", 1, q.deadline))
      BY <1>0, <1>11, <2>1, CallTyped
    <2> QED  BY <1>0, <2>2, <2>3, OnlyTyped
  <1>5. ASSUME NEW provider \in {"ollama", "template"}, HealthChecked(r, provider)
        PROVE  RequestsTyped(req')
    <2>1. /\ Only(r, [q EXCEPT !.stage = "explaining", !.provider = provider, !.patience = NoTimer])
          /\ q.stage = "checking"
      BY <1>5 DEF HealthChecked
    <2>2. RequestTyped([q EXCEPT !.stage = "explaining", !.provider = provider,
                                 !.patience = NoTimer])
      BY <1>0, <2>1 DEF RequestTyped, Request, Timer, Provider
    <2> QED  BY <1>0, <2>1, <2>2, OnlyTyped
  <1>6. ASSUME HealthBroken(r) PROVE RequestsTyped(req')
    <2>1. /\ Only(r, [q EXCEPT !.stage = "explaining", !.patience = NoTimer])
          /\ q.stage = "checking"
      BY <1>6 DEF HealthBroken
    <2>2. RequestTyped([q EXCEPT !.stage = "explaining", !.patience = NoTimer])
      BY <1>0, <2>1 DEF RequestTyped, Request, Timer
    <2> QED  BY <1>0, <2>1, <2>2, OnlyTyped
  <1>7. ASSUME Retry(r) PROVE RequestsTyped(req')
    <2> DEFINE next == q.attempt + 1
    <2>1. /\ Only(r, [q EXCEPT !.attempt = next, !.patience = HttpTimeout])
          /\ q.stage \in {"checking", "generating"} /\ q.attempt < MaxAttempts
      BY <1>7 DEF Retry
    <2>2. next \in Attempts
      BY <1>0, <2>1, ExplanationsAssumption DEF Request, Attempts
    <2> HIDE DEF next
    <2>3. Only(r, Calls(q, q.stage, next, q.deadline))
      BY <1>0, <2>1, SameStage
    <2>4. RequestTyped(Calls(q, q.stage, next, q.deadline))
      BY <1>0, <1>11, <2>1, <2>2, CallTyped
    <2> QED  BY <1>0, <2>3, <2>4, OnlyTyped
  <1>8. ASSUME Explain(r) PROVE RequestsTyped(req')
    <2> DEFINE n == Calls(q, "generating", 1, LlmTimeout)
    <2>1. \/ \E answer \in {OfficialConfirmation(q), FallbackResponse(q)} \cup CatalogAnswers(q) :
               Answered(r, answer)
          \/ Only(r, n) /\ q.stage = "explaining"
          \/ Only(r, [q EXCEPT !.stage = "raised"]) /\ q.stage = "explaining"
      BY <1>8 DEF Explain, Calls
    <2>2. RequestTyped(n) \/ q.stage # "explaining"
      BY <1>0, <1>11, CallTyped
    <2> HIDE DEF n
    <2> QED  BY <1>0, <2>1, <2>2, OnlyTyped, AnsweredTyped, RaisedTyped
  <1>9. ASSUME Generated(r) \/ GenerationFails(r) PROVE RequestsTyped(req')
    <2>1. \E answer \in {FallbackResponse(q)} \cup GeneratedAnswers(q) : Answered(r, answer)
      BY <1>9 DEF Generated, GenerationFails
    <2> QED  BY <1>0, <2>1, AnsweredTyped
  <1>10. ASSUME Finish(r) PROVE RequestsTyped(req')
    BY <1>0, <1>10, IdleTyped, OnlyTyped DEF Finish
  <1>12. ASSUME SearchRaises(r) PROVE RequestsTyped(req')
    <2>1. Only(r, [q EXCEPT !.stage = "raised"]) /\ q.stage # "answered"
      BY <1>12 DEF SearchRaises
    <2> QED  BY <1>0, <2>1, RaisedTyped, OnlyTyped
  <1> QED  BY <1>1, <1>2, <1>3, <1>4, <1>5, <1>6, <1>7, <1>8, <1>9, <1>10, <1>12 DEF Step

LEMMA TickTyped ==
    ASSUME TypeOK, Tick
    PROVE  RequestsTyped(req')
  <1> DEFINE less(t) == IF t = NoTimer THEN NoTimer ELSE t - 1
             n(r) == [req[r] EXCEPT !.deadline = less(@), !.patience = less(@), !.held = @ + 1]
  <1>1. req' = [r \in Requests |-> IF req[r].stage = "idle" THEN req[r] ELSE n(r)]
    BY DEF Tick
  <1>2. ASSUME NEW r \in Requests
        PROVE  RequestTyped(req[r]) /\ RequestTyped(n(r))
    <2>1. /\ req[r].deadline # 0 /\ req[r].patience # 0
          /\ RequestTyped(req[r])
      BY DEF Tick, TypeOK, RequestTyped
    <2>2. less(req[r].deadline) \in Timer /\ less(req[r].patience) \in Timer
      BY <2>1 DEF RequestTyped, Request, Timer
    <2>3. req[r].held + 1 \in Nat
      BY <2>1 DEF RequestTyped, Request
    <2> HIDE DEF less
    <2>4. RequestTyped(n(r))
      BY <2>1, <2>2, <2>3 DEF RequestTyped, Request
    <2> QED  BY <2>1, <2>4
  <1> HIDE DEF n
  <1> QED  BY <1>1, <1>2 DEF RequestsTyped, RequestTyped

LEMMA TypeInit == Init => TypeOK
  <1> SUFFICES ASSUME Init PROVE TypeOK
    OBVIOUS
  <1>1. index \in Tables /\ run = NoRun
    BY TablesTyped DEF Init, IndexInit
  <1>2. evaluation \in [Sessions -> [Visible -> Evaluation \cup {NoEvaluation}]]
    BY DEF Init
  <1>3. /\ holder \in [Sessions -> Requests \cup {Nobody}] /\ cached \in Provider
        /\ req \in [Requests -> Request]
        /\ \A r \in Requests : req[r].stage = "answered" <=> req[r].answer # NoAnswer
    BY IdleTyped DEF Init, Provider, RequestTyped
  <1> QED  BY <1>1, <1>2, <1>3 DEF TypeOK

LEMMA TypeNext ==
    ASSUME TypeOK, [Next]_vars
    PROVE  TypeOK'
  <1>0. IndexTyped /\ RequestsTyped(req)
    BY DEF TypeOK, IndexTyped, Run, RequestsTyped, RequestTyped
  <1>1. CASE \E r \in Requests : Step(r)
    <2>1. PICK r \in Requests : Step(r)
      BY <1>1
    <2>2. RequestsTyped(req')
      BY <2>1, StepTyped
    <2>3. IndexTyped'
      BY <1>0, <2>1 DEF IndexTyped, ragVars, Step, Begin, Retrieve, SearchRaises,
                        UseCachedProvider, CheckHealth,
                        HealthChecked, HealthBroken, Retry, Explain, Generated, GenerationFails,
                        Finish
    <2>4. evaluation' = evaluation
      BY <2>1 DEF Step, Begin, Retrieve, SearchRaises, UseCachedProvider, CheckHealth,
                  HealthChecked, HealthBroken, Retry, Explain, Generated, GenerationFails, Finish
    <2>5. /\ holder' \in [Sessions -> Requests \cup {Nobody}]
          /\ cached' \in Provider
      BY <2>1 DEF TypeOK, Provider, Step, Begin, Retrieve, SearchRaises, UseCachedProvider,
                  CheckHealth,
                  HealthChecked, HealthBroken, Retry, Explain, Generated, GenerationFails, Finish
    <2> QED  BY <2>2, <2>3, <2>4, <2>5 DEF TypeOK, IndexTyped, Run, RequestsTyped, RequestTyped
  <1>2. CASE \E s \in Sessions, p \in Visible : \E e \in Outcomes[p] : Reevaluate(s, p, e)
    <2>0. PICK s \in Sessions, p \in Visible : \E e \in Outcomes[p] : Reevaluate(s, p, e)
      BY <1>2
    <2>1. PICK e \in Outcomes[p] : Reevaluate(s, p, e)
      BY <2>0
    <2>2. e \in Evaluation /\ evaluation' = [evaluation EXCEPT ![s][p] = e]
      BY <2>1, ExplanationsAssumption DEF Reevaluate
    <2>3. UNCHANGED <<index, run, holder, cached, req>>
      BY <2>1 DEF Reevaluate, ragVars
    <2>4. evaluation' \in [Sessions -> [Visible -> Evaluation \cup {NoEvaluation}]]
      BY <2>2 DEF TypeOK
    <2> QED  BY <2>3, <2>4 DEF TypeOK
  <1>3. CASE Restart
    <2>1. /\ req' = [r \in Requests |-> Idle] /\ holder' = [s \in Sessions |-> Nobody]
          /\ cached' = "none" /\ UNCHANGED <<index, run, evaluation>>
      BY <1>3 DEF Restart, ragVars
    <2> QED  BY <2>1, IdleTyped DEF TypeOK, Provider, RequestTyped
  <1>4. CASE Tick
    <2>1. RequestsTyped(req') /\ UNCHANGED <<index, run, evaluation, holder, cached>>
      BY <1>4, TickTyped DEF Tick, ragVars
    <2> QED  BY <2>1 DEF TypeOK, RequestsTyped, RequestTyped
  <1>5. CASE IndexNext /\ UNCHANGED <<evaluation, holder, cached, req>>
    <2>1. IndexTyped'
      BY <1>0, <1>5, IndexTypedNext
    <2> QED  BY <1>5, <2>1 DEF TypeOK, IndexTyped, Run
  <1>6. CASE UNCHANGED vars
    BY <1>6 DEF vars, ragVars, TypeOK
  <1> QED  BY <1>1, <1>2, <1>3, <1>4, <1>5, <1>6 DEF Next

-----------------------------------------------------------------------------
(* Steps.                                                                  *)

LEMMA OneChanges ==
    ASSUME AllSound(req, holder, evaluation), NEW r \in Requests, NEW n, Only(r, n),
           holder' = holder, evaluation' = evaluation, Sound(r, n, holder, evaluation)
    PROVE  AllSound(req', holder', evaluation')
  <1>1. req' = [q \in Requests |-> IF q = r THEN n ELSE req[q]]
    BY DEF AllSound, Only
  <1>2. \A q \in Requests : Sound(q, req'[q], holder, evaluation)
    BY <1>1 DEF AllSound
  <1>3. req' = [q \in Requests |-> req'[q]]
    BY <1>1
  <1> QED  BY <1>2, <1>3 DEF AllSound

\* A request that goes on with the same policy and evaluation.
LEMMA GoesOn ==
    ASSUME AllSound(req, holder, evaluation), NEW r \in Requests, Underway(req[r]),
           NEW n, Only(r, n), holder' = holder, evaluation' = evaluation,
           IsRequest(n), Underway(n), n.session = req[r].session, n.policy = req[r].policy,
           n.evaluation = req[r].evaluation, OneEdition(n.cites, n.policy),
           n.stage = "generating" => n.cites # {}, Timed(n)
    PROVE  AllSound(req', holder', evaluation')
  <1>1. Sound(r, req[r], holder, evaluation)
    BY DEF AllSound
  <1>2. Locked(r, n, holder)
    BY <1>1 DEF Sound, Locked, Underway
  <1>3. Knows(n, evaluation)
    BY <1>1 DEF Sound, Knows
  <1>4. Evidenced(n)
    BY DEF Evidenced
  <1>5. Says(n, evaluation)
    BY DEF Says, Underway
  <1>6. Sound(r, n, holder, evaluation)
    BY <1>2, <1>3, <1>4, <1>5 DEF Sound
  <1> QED  BY <1>6, OneChanges

Ended(s, p, a) ==
    [Idle EXCEPT !.stage = "answered", !.session = s, !.policy = p, !.answer = a]

LEMMA EndedFields ==
    ASSUME NEW s, NEW p, NEW a
    PROVE  /\ Ended(s, p, a).stage = "answered" /\ Ended(s, p, a).session = s
           /\ Ended(s, p, a).policy = p /\ Ended(s, p, a).answer = a
           /\ Ended(s, p, a).held = 0 /\ IsRequest(Ended(s, p, a))
  <1> DEFINE n == Ended(s, p, a)
  <1>1. n = [Idle EXCEPT !.stage = "answered", !.session = s, !.policy = p, !.answer = a]
    BY DEF Ended
  <1> HIDE DEF n
  <1>2. /\ n.stage = "answered" /\ n.session = s /\ n.policy = p
        /\ n.answer = a /\ n.held = 0 /\ IsRequest(n)
    BY <1>1 DEF Idle, IsRequest
  <1> QED  BY <1>2 DEF n

\* A request that answers.
LEMMA AnswerInv ==
    ASSUME AllSound(req, holder, evaluation), NEW r \in Requests, Underway(req[r]),
           NEW answer, Answered(r, answer), holder' = holder, evaluation' = evaluation,
           answer \in {OfficialConfirmation(req[r]), FallbackResponse(req[r])}
                      \cup CatalogAnswers(req[r]) \cup GeneratedAnswers(req[r]),
           answer.ai = "GENERATED" => req[r].cites # {}
    PROVE  AllSound(req', holder', evaluation')
  <1> DEFINE q == req[r]
             n == Ended(q.session, q.policy, answer)
  <1>1. Sound(r, q, holder, evaluation)
    BY DEF AllSound
  <1>2. Only(r, n)
    BY DEF Answered, Ended
  <1>3. /\ n.stage = "answered" /\ n.session = q.session /\ n.policy = q.policy
        /\ n.answer = answer /\ n.held = 0 /\ IsRequest(n)
    BY EndedFields
  <1> HIDE DEF n
  <1>4. /\ AgreesWith(answer, q.evaluation)
        /\ answer.cites = q.cites /\ answer.policy = q.policy
        /\ answer.ai = "GENERATED" => answer.cites # {}
    BY AnswersAgree
  <1>5. Locked(r, n, holder)
    BY <1>1, <1>3 DEF Sound, Locked, Underway
  <1>6. Knows(n, evaluation) /\ Evidenced(n)
    BY <1>3 DEF Knows, Evidenced, Underway
  <1>7. Timed(n)
    BY <1>3 DEF Timed
  <1>8. Says(n, evaluation)
    <2>1. q.policy # NoPolicy => q.evaluation = evaluation[q.session][q.policy]
      BY <1>1 DEF Sound, Knows
    <2>2. OneEdition(q.cites, q.policy)
      BY <1>1 DEF Sound, Evidenced
    <2> HIDE DEF q
    <2> QED  BY <1>3, <1>4, <2>1, <2>2 DEF Says
  <1>9. Sound(r, n, holder, evaluation)
    BY <1>3, <1>5, <1>6, <1>7, <1>8 DEF Sound
  <1> QED  BY <1>2, <1>9, OneChanges

LEMMA BeginInv ==
    ASSUME AllSound(req, holder, evaluation), NEW r \in Requests, NEW s \in Sessions, NEW ask,
           Begin(r, s, ask)
    PROVE  AllSound(req', holder', evaluation')
  <1> DEFINE n == Asked(r, s, ask)
             p == Subject(s, ask)
  <1>1. /\ holder[s] = Nobody /\ holder' = [holder EXCEPT ![s] = r]
        /\ Only(r, n) /\ evaluation' = evaluation
    BY DEF Begin
  <1>2. /\ IsRequest(n) /\ n.held = 0 /\ n.patience = NoTimer /\ n.cites = {} /\ n.session = s
        /\ n.policy = p
        /\ \/ n.stage = "retrieving" /\ n.deadline = RagTimeout /\ n.evaluation = evaluation[s][p]
           \/ n.stage = "raised"
           \/ n.stage = "choosing" /\ n.deadline = NoTimer /\ p = NoPolicy
    <2> HIDE DEF p
    <2>1. CASE p # NoPolicy /\ ~ FlushRaises(ask, p)
      <3>1. n = [ [Idle EXCEPT !.session = s, !.policy = p] EXCEPT
                    !.stage = "retrieving", !.deadline = RagTimeout,
                    !.evaluation = evaluation[s][p] ]
        BY <2>1 DEF Asked, p
      <3> QED  BY <3>1 DEF Idle, IsRequest
    <2>2. CASE IF p = NoPolicy THEN ask.kind = "policy" ELSE FlushRaises(ask, p)
      <3>1. n = [ [Idle EXCEPT !.session = s, !.policy = p] EXCEPT !.stage = "raised" ]
        BY <2>2 DEF Asked, p
      <3> QED  BY <2>2, <3>1 DEF Idle, IsRequest
    <2>3. CASE p = NoPolicy /\ ask.kind # "policy"
      <3>1. n = [ [Idle EXCEPT !.session = s, !.policy = p] EXCEPT !.stage = "choosing" ]
        BY <2>3 DEF Asked, p
      <3> QED  BY <2>3, <3>1 DEF Idle, IsRequest
    <2> QED  BY <2>1, <2>2, <2>3
  <1> HIDE DEF n, p
  <1>3. holder' = [t \in Sessions |-> IF t = s THEN r ELSE holder[t]]
    BY <1>1 DEF AllSound
  <1>4. req' = [q \in Requests |-> IF q = r THEN n ELSE req[q]]
    BY <1>1 DEF AllSound, Only
  <1>5. Sound(r, n, holder', evaluation)
    <2>1. Locked(r, n, holder')
      BY <1>2, <1>3 DEF Locked
    <2>2. Knows(n, evaluation)
      BY <1>2 DEF Knows, Underway
    <2>3. Evidenced(n)
      <3>1. OneEdition({}, p)
        BY RagIndexAssumption DEF OneEdition
      <3> QED  BY <1>2, <3>1 DEF Evidenced
    <2>4. Timed(n)
      BY <1>2, Limits, ExplanationsAssumption DEF Timed
    <2>5. Says(n, evaluation)
      BY <1>2 DEF Says
    <2> QED  BY <1>2, <2>1, <2>2, <2>3, <2>4, <2>5 DEF Sound, Underway
  <1>6. ASSUME NEW q \in Requests \ {r}
        PROVE  Sound(q, req'[q], holder', evaluation)
    <2>1. Sound(q, req[q], holder, evaluation) /\ req'[q] = req[q]
      BY <1>4 DEF AllSound
    <2>2. Locked(q, req[q], holder')
      <3>1. Locked(q, req[q], holder)
        BY <2>1 DEF Sound
      <3>2. q # Nobody
        BY ExplanationsAssumption
      <3> QED  BY <3>1, <3>2, <1>1, <1>3 DEF Locked
    <2> QED  BY <2>1, <2>2 DEF Sound
  <1>7. /\ req' = [q \in Requests |-> req'[q]]
        /\ holder' = [t \in Sessions |-> holder'[t]]
        /\ evaluation = [t \in Sessions |-> evaluation[t]]
    BY <1>3, <1>4 DEF AllSound
  <1>8. req'[r] = n
    BY <1>4
  <1>9. AllSound(req', holder', evaluation)
    BY <1>5, <1>6, <1>7, <1>8 DEF AllSound
  <1> QED  BY <1>1, <1>9

\* A request that fails keeps its lock until it is rolled back.
LEMMA RaisedInv ==
    ASSUME ExplanationInv, NEW r \in Requests, req[r].stage \in {"retrieving", "explaining"},
           Only(r, [req[r] EXCEPT !.stage = "raised"]), holder' = holder, evaluation' = evaluation
    PROVE  AllSound(req', holder', evaluation')
  <1> DEFINE q == req[r]
             n == [q EXCEPT !.stage = "raised"]
  <1>1. AllSound(req, holder, evaluation) /\ Sound(r, q, holder, evaluation)
    BY DEF ExplanationInv, AllSound
  <1>2. Only(r, n) /\ q.stage \in {"retrieving", "explaining"} /\ n = [q EXCEPT !.stage = "raised"]
    OBVIOUS
  <1> HIDE DEF n, q
  <1>3. n.stage = "raised" /\ n.session = q.session /\ n.held = q.held /\ IsRequest(n)
    BY <1>1, <1>2 DEF Sound, IsRequest
  <1>4. Locked(r, n, holder)
    BY <1>1, <1>2, <1>3 DEF Sound, Locked
  <1>5. Timed(n)
    <2>1. q.held \in Nat /\ q.held <= Limit(MaxAttempts)
      BY <1>1, <1>2, Limits, ExplanationsAssumption DEF Sound, Timed
    <2> QED  BY <1>3, <2>1 DEF Timed
  <1>6. Knows(n, evaluation) /\ Evidenced(n) /\ Says(n, evaluation)
    BY <1>3 DEF Knows, Evidenced, Says, Underway
  <1>7. Sound(r, n, holder, evaluation)
    BY <1>3, <1>4, <1>5, <1>6 DEF Sound
  <1> QED  BY <1>1, <1>2, <1>7, OneChanges

LEMMA SearchRaisesInv ==
    ASSUME ExplanationInv, NEW r \in Requests, SearchRaises(r)
    PROVE  AllSound(req', holder', evaluation')
  BY RaisedInv DEF SearchRaises

LEMMA RetrieveInv ==
    ASSUME ExplanationInv, NEW r \in Requests, Retrieve(r)
    PROVE  AllSound(req', holder', evaluation')
  <1>0. PICK cites \in Hits(req[r].policy, EmbeddingModel) \cup {{}} :
          Only(r, [req[r] EXCEPT !.stage = "choosing", !.deadline = NoTimer, !.cites = cites])
    BY DEF Retrieve
  <1> DEFINE q == req[r]
             n == [q EXCEPT !.stage = "choosing", !.deadline = NoTimer, !.cites = cites]
  <1>1. /\ q.stage = "retrieving" /\ Only(r, n)
        /\ holder' = holder /\ evaluation' = evaluation
    BY <1>0 DEF Retrieve
  <1>2. AllSound(req, holder, evaluation) /\ Sound(r, q, holder, evaluation)
    BY DEF ExplanationInv, AllSound
  <1>3. n = [q EXCEPT !.stage = "choosing", !.deadline = NoTimer, !.cites = cites]
    OBVIOUS
  <1> HIDE DEF n, q
  <1>4. /\ n.stage = "choosing" /\ n.session = q.session /\ n.policy = q.policy
        /\ n.evaluation = q.evaluation /\ n.cites = cites /\ n.attempt = q.attempt
        /\ n.deadline = NoTimer /\ n.patience = q.patience /\ n.held = q.held
        /\ IsRequest(n)
    BY <1>2, <1>3 DEF Sound, IsRequest
  <1>5. Underway(q) /\ Underway(n)
    BY <1>1, <1>4 DEF Underway
  <1>6. OneEdition(n.cites, n.policy) /\ (n.stage = "generating" => n.cites # {})
    BY <1>0, <1>4, HitsAreOfOneEdition DEF ExplanationInv, IndexInv, q
  <1>7. Timed(n)
    BY <1>1, <1>2, <1>4, Limits, ExplanationsAssumption DEF Sound, Timed
  <1> QED  BY <1>1, <1>2, <1>4, <1>5, <1>6, <1>7, GoesOn DEF q

LEMMA UseCachedInv ==
    ASSUME ExplanationInv, NEW r \in Requests, UseCachedProvider(r)
    PROVE  AllSound(req', holder', evaluation')
  <1> DEFINE q == req[r]
             n == [q EXCEPT !.stage = "explaining", !.provider = cached]
  <1>1. /\ q.stage = "choosing" /\ Only(r, n)
        /\ holder' = holder /\ evaluation' = evaluation
    BY DEF UseCachedProvider
  <1>2. AllSound(req, holder, evaluation) /\ Sound(r, q, holder, evaluation)
    BY DEF ExplanationInv, AllSound
  <1>3. n = [q EXCEPT !.stage = "explaining", !.provider = cached]
    OBVIOUS
  <1> HIDE DEF n, q
  <1>4. /\ n.stage = "explaining" /\ n.session = q.session /\ n.policy = q.policy
        /\ n.evaluation = q.evaluation /\ n.cites = q.cites /\ n.attempt = q.attempt
        /\ n.deadline = q.deadline /\ n.patience = q.patience /\ n.held = q.held
        /\ IsRequest(n)
    BY <1>2, <1>3 DEF Sound, IsRequest
  <1>5. Underway(q) /\ Underway(n)
    BY <1>1, <1>4 DEF Underway
  <1>6. OneEdition(n.cites, n.policy) /\ (n.stage = "generating" => n.cites # {})
    BY <1>1, <1>2, <1>4, <1>5 DEF Sound, Evidenced
  <1>7. Timed(n)
    BY <1>1, <1>2, <1>4, Limits, ExplanationsAssumption DEF Sound, Timed
  <1> QED  BY <1>1, <1>2, <1>4, <1>5, <1>6, <1>7, GoesOn DEF q

LEMMA CheckHealthInv ==
    ASSUME ExplanationInv, NEW r \in Requests, CheckHealth(r)
    PROVE  AllSound(req', holder', evaluation')
  <1> DEFINE q == req[r]
             n == [q EXCEPT !.stage = "checking", !.attempt = 1, !.patience = HttpTimeout]
  <1>1. /\ q.stage = "choosing" /\ Only(r, n)
        /\ holder' = holder /\ evaluation' = evaluation
    BY DEF CheckHealth
  <1>2. AllSound(req, holder, evaluation) /\ Sound(r, q, holder, evaluation)
    BY DEF ExplanationInv, AllSound
  <1>3. n = [q EXCEPT !.stage = "checking", !.attempt = 1, !.patience = HttpTimeout]
    OBVIOUS
  <1> HIDE DEF n, q
  <1>4. /\ n.stage = "checking" /\ n.session = q.session /\ n.policy = q.policy
        /\ n.evaluation = q.evaluation /\ n.cites = q.cites /\ n.attempt = 1
        /\ n.deadline = q.deadline /\ n.patience = HttpTimeout /\ n.held = q.held
        /\ IsRequest(n)
    BY <1>2, <1>3 DEF Sound, IsRequest
  <1>5. Underway(q) /\ Underway(n)
    BY <1>1, <1>4 DEF Underway
  <1>6. OneEdition(n.cites, n.policy) /\ (n.stage = "generating" => n.cites # {})
    BY <1>1, <1>2, <1>4, <1>5 DEF Sound, Evidenced
  <1>7. Timed(n)
    BY <1>1, <1>2, <1>4, Limits, ExplanationsAssumption DEF Sound, Timed
  <1> QED  BY <1>1, <1>2, <1>4, <1>5, <1>6, <1>7, GoesOn DEF q

LEMMA HealthCheckedInv ==
    ASSUME ExplanationInv, NEW r \in Requests, NEW provider, HealthChecked(r, provider)
    PROVE  AllSound(req', holder', evaluation')
  <1> DEFINE q == req[r]
             n == [q EXCEPT !.stage = "explaining", !.provider = provider, !.patience = NoTimer]
  <1>1. /\ q.stage = "checking" /\ Only(r, n)
        /\ holder' = holder /\ evaluation' = evaluation
    BY DEF HealthChecked
  <1>2. AllSound(req, holder, evaluation) /\ Sound(r, q, holder, evaluation)
    BY DEF ExplanationInv, AllSound
  <1>3. n = [q EXCEPT !.stage = "explaining", !.provider = provider, !.patience = NoTimer]
    OBVIOUS
  <1> HIDE DEF n, q
  <1>4. /\ n.stage = "explaining" /\ n.session = q.session /\ n.policy = q.policy
        /\ n.evaluation = q.evaluation /\ n.cites = q.cites /\ n.attempt = q.attempt
        /\ n.deadline = q.deadline /\ n.patience = NoTimer /\ n.held = q.held
        /\ IsRequest(n)
    BY <1>2, <1>3 DEF Sound, IsRequest
  <1>5. Underway(q) /\ Underway(n)
    BY <1>1, <1>4 DEF Underway
  <1>6. OneEdition(n.cites, n.policy) /\ (n.stage = "generating" => n.cites # {})
    BY <1>1, <1>2, <1>4, <1>5 DEF Sound, Evidenced
  <1>7. Timed(n)
    BY <1>1, <1>2, <1>4, Limits, ExplanationsAssumption DEF Sound, Timed
  <1> QED  BY <1>1, <1>2, <1>4, <1>5, <1>6, <1>7, GoesOn DEF q

LEMMA HealthBrokenInv ==
    ASSUME ExplanationInv, NEW r \in Requests, HealthBroken(r)
    PROVE  AllSound(req', holder', evaluation')
  <1> DEFINE q == req[r]
             n == [q EXCEPT !.stage = "explaining", !.patience = NoTimer]
  <1>1. /\ q.stage = "checking" /\ Only(r, n)
        /\ holder' = holder /\ evaluation' = evaluation
    BY DEF HealthBroken
  <1>2. AllSound(req, holder, evaluation) /\ Sound(r, q, holder, evaluation)
    BY DEF ExplanationInv, AllSound
  <1>3. n = [q EXCEPT !.stage = "explaining", !.patience = NoTimer]
    OBVIOUS
  <1> HIDE DEF n, q
  <1>4. /\ n.stage = "explaining" /\ n.session = q.session /\ n.policy = q.policy
        /\ n.evaluation = q.evaluation /\ n.cites = q.cites /\ n.attempt = q.attempt
        /\ n.deadline = q.deadline /\ n.patience = NoTimer /\ n.held = q.held
        /\ IsRequest(n)
    BY <1>2, <1>3 DEF Sound, IsRequest
  <1>5. Underway(q) /\ Underway(n)
    BY <1>1, <1>4 DEF Underway
  <1>6. OneEdition(n.cites, n.policy) /\ (n.stage = "generating" => n.cites # {})
    BY <1>1, <1>2, <1>4, <1>5 DEF Sound, Evidenced
  <1>7. Timed(n)
    BY <1>1, <1>2, <1>4, Limits, ExplanationsAssumption DEF Sound, Timed
  <1> QED  BY <1>1, <1>2, <1>4, <1>5, <1>6, <1>7, GoesOn DEF q

LEMMA RetryInv ==
    ASSUME ExplanationInv, NEW r \in Requests, Retry(r)
    PROVE  AllSound(req', holder', evaluation')
  <1> DEFINE q == req[r]
             n == [q EXCEPT !.attempt = q.attempt + 1, !.patience = HttpTimeout]
  <1>1. /\ q.stage \in {"checking", "generating"} /\ Only(r, n)
        /\ holder' = holder /\ evaluation' = evaluation /\ q.attempt < MaxAttempts
    BY DEF Retry
  <1>2. AllSound(req, holder, evaluation) /\ Sound(r, q, holder, evaluation)
    BY DEF ExplanationInv, AllSound
  <1>3. n = [q EXCEPT !.attempt = q.attempt + 1, !.patience = HttpTimeout]
    OBVIOUS
  <1> HIDE DEF n, q
  <1>4. /\ n.stage = q.stage /\ n.session = q.session /\ n.policy = q.policy
        /\ n.evaluation = q.evaluation /\ n.cites = q.cites /\ n.attempt = q.attempt + 1
        /\ n.deadline = q.deadline /\ n.patience = HttpTimeout /\ n.held = q.held
        /\ IsRequest(n)
    BY <1>2, <1>3 DEF Sound, IsRequest
  <1>5. Underway(q) /\ Underway(n)
    BY <1>1, <1>4 DEF Underway
  <1>6. OneEdition(n.cites, n.policy) /\ (n.stage = "generating" => n.cites # {})
    BY <1>1, <1>2, <1>4, <1>5 DEF Sound, Evidenced
  <1>7. Timed(n)
    BY <1>1, <1>2, <1>4, Limits, ExplanationsAssumption DEF Sound, Timed
  <1> QED  BY <1>1, <1>2, <1>4, <1>5, <1>6, <1>7, GoesOn DEF q

LEMMA ExplainInv ==
    ASSUME ExplanationInv, NEW r \in Requests, Explain(r)
    PROVE  AllSound(req', holder', evaluation')
  <1> DEFINE q == req[r]
             n == [q EXCEPT !.stage = "generating", !.attempt = 1,
                            !.deadline = LlmTimeout, !.patience = HttpTimeout]
  <1>1. q.stage = "explaining" /\ holder' = holder /\ evaluation' = evaluation
    BY DEF Explain
  <1>2. AllSound(req, holder, evaluation) /\ Sound(r, q, holder, evaluation) /\ Underway(q)
    BY <1>1 DEF ExplanationInv, AllSound, Underway
  <1>3. \/ Answered(r, OfficialConfirmation(q))
        \/ \E answer \in CatalogAnswers(q) : q.cites = {} /\ Answered(r, answer)
        \/ Answered(r, FallbackResponse(q))
        \/ q.cites # {} /\ Only(r, n)
        \/ Only(r, [q EXCEPT !.stage = "raised"])
    BY DEF Explain
  <1>4. CASE Answered(r, OfficialConfirmation(q))
    <2>1. OfficialConfirmation(q).ai # "GENERATED"
      BY DEF OfficialConfirmation, Response
    <2> QED  BY <1>1, <1>2, <1>4, <2>1, AnswerInv
  <1>5. CASE \E answer \in CatalogAnswers(q) : q.cites = {} /\ Answered(r, answer)
    <2>1. PICK answer \in CatalogAnswers(q) : Answered(r, answer)
      BY <1>5
    <2>2. answer.ai # "GENERATED"
      <3> DEFINE response(c) == Response(q, "FALLBACK", RuleStatus(q.evaluation), TRUE, Sentence(c))
      <3>1. \A c : response(c).ai = "FALLBACK"
        BY DEF Response
      <3>2. \E c \in {FALSE, Claims(q.evaluation)} : answer = response(c)
        BY <2>1 DEF CatalogAnswers
      <3> QED  BY <3>1, <3>2
    <2> QED  BY <1>1, <1>2, <2>1, <2>2, AnswerInv
  <1>6. CASE Answered(r, FallbackResponse(q))
    <2>1. FallbackResponse(q).ai # "GENERATED"
      BY DEF FallbackResponse, Response
    <2> QED  BY <1>1, <1>2, <1>6, <2>1, AnswerInv
  <1>7. CASE q.cites # {} /\ Only(r, n)
    <2>1. n = [q EXCEPT !.stage = "generating", !.attempt = 1,
                        !.deadline = LlmTimeout, !.patience = HttpTimeout]
      OBVIOUS
    <2> HIDE DEF n, q
    <2>2. /\ n.stage = "generating" /\ n.session = q.session /\ n.policy = q.policy
          /\ n.evaluation = q.evaluation /\ n.cites = q.cites /\ n.attempt = 1
          /\ n.deadline = LlmTimeout /\ n.patience = HttpTimeout /\ n.held = q.held
          /\ IsRequest(n)
      BY <1>2, <2>1 DEF Sound, IsRequest
    <2>3. Underway(n) /\ OneEdition(n.cites, n.policy) /\ n.cites # {}
      BY <1>2, <1>7, <2>2 DEF Underway, Sound, Evidenced
    <2>4. Timed(n)
      BY <1>1, <1>2, <2>2, Limits, ExplanationsAssumption DEF Sound, Timed
    <2> QED  BY <1>1, <1>2, <1>7, <2>2, <2>3, <2>4, GoesOn DEF q
  <1>8. CASE Only(r, [q EXCEPT !.stage = "raised"])
    BY <1>1, <1>8, RaisedInv
  <1> QED  BY <1>3, <1>4, <1>5, <1>6, <1>7, <1>8

LEMMA GeneratedInv ==
    ASSUME ExplanationInv, NEW r \in Requests, Generated(r) \/ GenerationFails(r)
    PROVE  AllSound(req', holder', evaluation')
  <1> DEFINE q == req[r]
  <1>1. /\ q.stage = "generating" /\ holder' = holder /\ evaluation' = evaluation
        /\ \E answer \in GeneratedAnswers(q) \cup {FallbackResponse(q)} : Answered(r, answer)
    BY DEF Generated, GenerationFails
  <1>2. AllSound(req, holder, evaluation) /\ Sound(r, q, holder, evaluation) /\ Underway(q)
    BY <1>1 DEF ExplanationInv, AllSound, Underway
  <1>3. q.cites # {}
    BY <1>1, <1>2 DEF Sound, Evidenced
  <1>4. PICK answer \in GeneratedAnswers(q) \cup {FallbackResponse(q)} : Answered(r, answer)
    BY <1>1
  <1> QED  BY <1>1, <1>2, <1>3, <1>4, AnswerInv

LEMMA IdleSound ==
    ASSUME NEW r, NEW holders, NEW table
    PROVE  Sound(r, Idle, holders, table)
  BY DEF Idle, Sound, IsRequest, Underway, Locked, Knows, Evidenced, Timed, Says

LEMMA FinishInv ==
    ASSUME ExplanationInv, NEW r \in Requests, Finish(r)
    PROVE  AllSound(req', holder', evaluation')
  <1>1. /\ AllSound(req, holder, evaluation) /\ evaluation' = evaluation
        /\ holder' = [s \in Sessions |-> IF holder[s] = r THEN Nobody ELSE holder[s]]
        /\ Only(r, Idle)
    BY DEF Finish, ExplanationInv
  <1>2. req' = [q \in Requests |-> IF q = r THEN Idle ELSE req[q]]
    BY <1>1 DEF AllSound, Only
  <1>3. ASSUME NEW q \in Requests \ {r}
        PROVE  Sound(q, req'[q], holder', evaluation)
    <2>1. Sound(q, req[q], holder, evaluation) /\ req'[q] = req[q]
      BY <1>1, <1>2 DEF AllSound
    <2>2. Locked(q, req[q], holder')
      BY <2>1, <1>1 DEF Sound, Locked
    <2> QED  BY <2>1, <2>2 DEF Sound
  <1>4. req'[r] = Idle
    BY <1>2
  <1>5. /\ req' = [q \in Requests |-> req'[q]]
        /\ holder' = [t \in Sessions |-> holder'[t]]
        /\ evaluation = [t \in Sessions |-> evaluation[t]]
    BY <1>1, <1>2 DEF AllSound
  <1>6. AllSound(req', holder', evaluation)
    BY <1>3, <1>4, <1>5, IdleSound DEF AllSound
  <1> QED  BY <1>1, <1>6

\* Evaluations change only where nobody has the lock.
LEMMA ReevaluateInv ==
    ASSUME ExplanationInv, NEW s \in Sessions, NEW p, NEW e, Reevaluate(s, p, e)
    PROVE  AllSound(req', holder', evaluation')
  <1>1. /\ AllSound(req, holder, evaluation) /\ holder[s] = Nobody
        /\ evaluation' = [evaluation EXCEPT ![s][p] = e] /\ holder' = holder /\ req' = req
    BY DEF Reevaluate, ExplanationInv
  <1>2. /\ evaluation' = [t \in Sessions |-> evaluation'[t]]
        /\ \A t \in Sessions \ {s} : evaluation'[t] = evaluation[t]
    BY <1>1 DEF AllSound
  <1>3. ASSUME NEW q \in Requests
        PROVE  Sound(q, req[q], holder, evaluation')
    <2>1. Sound(q, req[q], holder, evaluation)
      BY <1>1 DEF AllSound
    <2>2. req[q].stage # "idle" => evaluation'[req[q].session] = evaluation[req[q].session]
      <3>1. q # Nobody
        BY ExplanationsAssumption
      <3> QED  BY <1>1, <1>2, <2>1, <3>1 DEF Sound, Locked
    <2>3. Knows(req[q], evaluation')
      BY <2>1, <2>2 DEF Sound, Knows, Underway
    <2>4. Says(req[q], evaluation')
      BY <2>1, <2>2 DEF Sound, Says
    <2> QED  BY <2>1, <2>3, <2>4 DEF Sound
  <1>4. AllSound(req, holder, evaluation')
    BY <1>1, <1>2, <1>3 DEF AllSound
  <1> QED  BY <1>1, <1>4

LEMMA RestartInv ==
    ASSUME ExplanationInv, Restart
    PROVE  AllSound(req', holder', evaluation')
  <1>1. /\ req' = [r \in Requests |-> Idle] /\ holder' = [s \in Sessions |-> Nobody]
        /\ evaluation' = evaluation /\ AllSound(req, holder, evaluation)
    BY DEF Restart, ExplanationInv
  <1>2. \A r \in Requests : Sound(r, req'[r], holder', evaluation)
    BY <1>1, IdleSound
  <1>3. /\ req' = [q \in Requests |-> req'[q]]
        /\ holder' = [t \in Sessions |-> holder'[t]]
        /\ evaluation = [t \in Sessions |-> evaluation[t]]
    BY <1>1 DEF AllSound
  <1>4. AllSound(req', holder', evaluation)
    BY <1>2, <1>3 DEF AllSound
  <1> QED  BY <1>1, <1>4

\* A tick takes from every timer what it adds to the time the lock is held.
Less(t) == IF t = NoTimer THEN NoTimer ELSE t - 1

LEMMA TickInv ==
    ASSUME ExplanationInv, Tick
    PROVE  AllSound(req', holder', evaluation')
  <1>1. /\ AllSound(req, holder, evaluation) /\ holder' = holder /\ evaluation' = evaluation
        /\ \A r \in Requests :
             /\ req[r].stage \in {"idle", "retrieving", "checking", "generating"}
             /\ req[r].deadline # 0 /\ req[r].patience # 0
        /\ req' = [ r \in Requests |->
                      IF req[r].stage = "idle" THEN req[r]
                      ELSE [req[r] EXCEPT !.deadline = Less(@), !.patience = Less(@),
                                          !.held = @ + 1] ]
    BY DEF Tick, ExplanationInv, Less
  <1>2. ASSUME NEW r \in Requests
        PROVE  Sound(r, req'[r], holder, evaluation)
    <2> DEFINE q == req[r]
               n == req'[r]
    <2>1. Sound(r, q, holder, evaluation)
      BY <1>1 DEF AllSound
    <2>2. CASE q.stage = "idle"
      BY <1>1, <2>1, <2>2
    <2>3. CASE q.stage # "idle"
      <3>1. n = [q EXCEPT !.deadline = Less(@), !.patience = Less(@), !.held = @ + 1]
        BY <1>1, <2>3
      <3>2. /\ q.stage \in {"retrieving", "checking", "generating"}
            /\ q.deadline # 0 /\ q.patience # 0
        BY <1>1, <2>3
      <3> HIDE DEF n, q
      <3>3. /\ n.stage = q.stage /\ n.session = q.session /\ n.policy = q.policy
            /\ n.evaluation = q.evaluation /\ n.cites = q.cites /\ n.attempt = q.attempt
            /\ n.deadline = Less(q.deadline) /\ n.patience = Less(q.patience)
            /\ n.held = q.held + 1 /\ n.answer = q.answer /\ IsRequest(n)
        BY <2>1, <3>1 DEF Sound, IsRequest
      <3>4. Timed(n)
        <4>1. Timed(q) /\ NoTimer \notin Nat
          BY <2>1, ExplanationsAssumption DEF Sound
        <4>2. /\ \A t \in Nat \ {0} : Less(t) \in Nat /\ \A h \in Nat : h + 1 + Less(t) = h + t
              /\ Less(NoTimer) = NoTimer
          BY <4>1 DEF Less
        <4>3. n.held \in Nat
          BY <3>3, <4>1 DEF Timed
        <4>4. CASE q.stage = "retrieving"
          BY <3>2, <3>3, <4>1, <4>2, <4>3, <4>4 DEF Timed
        <4>5. CASE q.stage = "checking"
          BY <3>2, <3>3, <4>1, <4>2, <4>3, <4>5 DEF Timed
        <4>6. CASE q.stage = "generating"
          BY <3>2, <3>3, <4>1, <4>2, <4>3, <4>6 DEF Timed
        <4> QED  BY <3>2, <4>4, <4>5, <4>6
      <3>5. Locked(r, n, holder) /\ Knows(n, evaluation) /\ Evidenced(n) /\ Says(n, evaluation)
        BY <2>1, <3>3 DEF Sound, Locked, Knows, Evidenced, Says, Underway
      <3>6. Underway(n)
        BY <3>2, <3>3 DEF Underway
      <3>7. Sound(r, n, holder, evaluation)
        BY <3>3, <3>4, <3>5, <3>6 DEF Sound
      <3> QED  BY <3>7 DEF n
    <2> QED  BY <2>2, <2>3
  <1>3. /\ req' = [r \in Requests |-> req'[r]]
        /\ holder = [s \in Sessions |-> holder[s]]
        /\ evaluation = [s \in Sessions |-> evaluation[s]]
    BY <1>1 DEF AllSound
  <1>4. AllSound(req', holder, evaluation)
    BY <1>2, <1>3 DEF AllSound
  <1> QED  BY <1>1, <1>4

LEMMA InitInv == Init => ExplanationInv
  <1> SUFFICES ASSUME Init PROVE ExplanationInv
    OBVIOUS
  <1>1. IndexInv
    BY DEF Init, IndexInit, IndexInv, RunOK, IsRun, IsEdition
  <1>2. AllSound(req, holder, evaluation)
    BY IdleSound DEF Init, AllSound
  <1> QED  BY <1>1, <1>2 DEF ExplanationInv

Publication == \E rows \in Seeds, m \in Models : index' = Published(rows, m)

LEMMA IndexUnchanged ==
    ASSUME IndexInv, UNCHANGED ragVars
    PROVE  IndexInv' /\ index' = index
  <1>1. run' = run /\ index' = index
    BY DEF ragVars
  <1>2. RunOK'
    <2>1. IsRun(run')
      BY <1>1 DEF IndexInv, RunOK
    <2> QED  BY <2>1 DEF RunOK, IsRun, Progress, Approved, DocumentsOf, Stored, Indexed
  <1>3. IsEdition(index)'
    BY <1>1 DEF IndexInv, IsEdition, Published, Approved
  <1> QED  BY <1>1, <1>2, <1>3 DEF IndexInv

LEMMA TogetherInv ==
    ASSUME IndexInv', AllSound(req', holder', evaluation')
    PROVE  ExplanationInv'
  BY DEF ExplanationInv, AllSound, Sound, IsRequest, Underway, Locked, Knows, Evidenced, Timed,
         Says, OneEdition, Limit, AgreesWith, Claims, RuleStatus, RuleState, Approved

LEMMA NextInv ==
    ASSUME ExplanationInv, [Next]_vars
    PROVE  ExplanationInv' /\ (index' # index => Publication)
  <1>0. IndexInv /\ AllSound(req, holder, evaluation)
    BY DEF ExplanationInv
  <1>1. CASE \E r \in Requests : Step(r)
    <2>1. PICK r \in Requests : Step(r)
      BY <1>1
    <2>2. AllSound(req', holder', evaluation')
      BY <1>0, <2>1, BeginInv, RetrieveInv, SearchRaisesInv, UseCachedInv, CheckHealthInv,
         HealthCheckedInv, HealthBrokenInv, RetryInv, ExplainInv, GeneratedInv, FinishInv DEF Step
    <2>3. UNCHANGED ragVars
      BY <2>1 DEF Step, Begin, Retrieve, SearchRaises, UseCachedProvider, CheckHealth,
                  HealthChecked,
                  HealthBroken, Retry, Explain, Generated, GenerationFails, Finish
    <2> QED  BY <1>0, <2>2, <2>3, IndexUnchanged, TogetherInv
  <1>2. CASE \/ \E s \in Sessions, p \in Visible : \E e \in Outcomes[p] : Reevaluate(s, p, e)
             \/ Restart \/ Tick
    <2>1. AllSound(req', holder', evaluation')
      BY <1>2, ReevaluateInv, RestartInv, TickInv
    <2>2. UNCHANGED ragVars
      BY <1>2 DEF Reevaluate, Restart, Tick
    <2> QED  BY <1>0, <2>1, <2>2, IndexUnchanged, TogetherInv
  <1>3. CASE IndexNext /\ UNCHANGED <<evaluation, holder, cached, req>>
    <2>1. IndexInv' /\ (index' # index => Publication)
      BY <1>0, <1>3, IndexStep DEF Publication
    <2>2. AllSound(req', holder', evaluation')
      BY <1>0, <1>3
    <2> QED  BY <2>1, <2>2, TogetherInv
  <1>4. CASE UNCHANGED vars
    <2>1. UNCHANGED ragVars /\ AllSound(req', holder', evaluation')
      BY <1>0, <1>4 DEF vars
    <2> QED  BY <1>0, <2>1, IndexUnchanged, TogetherInv
  <1> QED  BY <1>1, <1>2, <1>3, <1>4 DEF Next

-----------------------------------------------------------------------------
(* Theorems.                                                               *)

\* Every variable has its type: no request explains a policy that is not published,
\* no timer runs below zero and no call of the model is tried too often.
THEOREM TypeCorrect == Spec => []TypeOK
  <1>1. TypeOK /\ [Next]_vars => TypeOK'
    BY TypeNext
  <1> QED  BY <1>1, TypeInit, PTL DEF Spec

\* What is published and what is under way, and the state of every request: locks,
\* what it read, what it found and how long it has held its session.
THEOREM ExplanationInvariant == Spec => []ExplanationInv
  <1>1. ExplanationInv /\ [Next]_vars => ExplanationInv'
    BY NextInv
  <1> QED  BY <1>1, InitInv, PTL DEF Spec

\* Every answer carries the status and the state of the evaluation that is stored when
\* it is given, however slow the model is; by that evaluation a text of the code tells
\* the user to apply, and a text of the model has one of the phrases that are searched
\* for (explain_with_ai under the row lock).  A text that says it in other words is let
\* through, and this says nothing of it.
THEOREM AnswersKeepToTheRules == Spec => []AnswersAgreeWithRules
  <1>1. ExplanationInv => AnswersAgreeWithRules
    BY DEF ExplanationInv, AllSound, Sound, Says, AgreesWith, AnswersAgreeWithRules, Answering
  <1> QED  BY <1>1, ExplanationInvariant, PTL

\* Citations come from one edition of the seed, whatever is re-indexed meanwhile.
THEOREM CitationsComeFromOneEdition == Spec => []CitationsAreOfOneEdition
  <1>1. ExplanationInv => CitationsAreOfOneEdition
    BY DEF ExplanationInv, AllSound, Sound, Says, OneEdition, CitationsAreOfOneEdition, Answering
  <1> QED  BY <1>1, ExplanationInvariant, PTL

\* The time limits and the number of attempts bound how long a session stays locked.
THEOREM SessionsAreReleased == Spec => []SessionsAreFreeInTime
  <1>1. ExplanationInv => SessionsAreFreeInTime
    <2> SUFFICES ASSUME ExplanationInv, NEW r \in Requests
                 PROVE  req[r].held <= RagTimeout + MaxAttempts * HttpTimeout + LlmTimeout
      BY DEF SessionsAreFreeInTime
    <2> DEFINE q == req[r]
    <2>1. Timed(q) /\ (q.stage \in {"idle", "answered", "raised"} \/ Underway(q))
      BY DEF ExplanationInv, AllSound, Sound
    <2> HIDE DEF q
    <2>2. q.held <= Limit(MaxAttempts) + LlmTimeout
      BY <2>1, Limits, ExplanationsAssumption DEF Timed, Underway
    <2> QED  BY <2>2 DEF Limit, q
  <1> QED  BY <1>1, ExplanationInvariant, PTL

\* The index changes by whole editions only (reindex.py commits once).
THEOREM EditionsArePublishedWhole == Spec => PublicationsAreWhole
  <1>1. ExplanationInv /\ [Next]_vars => [Publication]_index
    BY NextInv
  <1> QED  BY <1>1, ExplanationInvariant, PTL DEF Spec, PublicationsAreWhole, Publication
=============================================================================
