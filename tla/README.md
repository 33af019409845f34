# A verification of OMGM

OMGM matches people with public support policies: it asks the questions of a
category, compares the answers with approved rules, and explains the result from
official documents. The backend (`backend/src/app`) is FastAPI, SQLAlchemy
(asyncio) and PostgreSQL; the frontend (`frontend/src`) is React. This directory
holds TLA+ models of it, what TLC checks about them, and what TLAPS proves.

## 1. Inventory

| Component | State | Operations | Talks to |
|---|---|---|---|
| Anonymous sessions (`modules/sessions`, `db/session.py`) | rows `anonymous_session`, `user_fact` | create or renew, read, delete, select category, reset, put fact, next questions, submit answers | question engine, stored evaluations, janitor, all through rows |
| Clean-up task (`core/lifespan.py`) | none; a loop in the background | delete expired sessions | session rows |
| Question engine (`modules/questions/engine.py`) | none; a constant bank | dependencies, visible questions, next question, progress | called by the sessions API |
| Stored evaluations (`modules/eligibility/repository.py`) | rows `policy_evaluation` | upsert, mark stale, delete by category | catalog, facts |
| Eligibility rules (`modules/eligibility/rules.py`, `service.py`) | none | three-valued evaluation, window, score | called when evaluations are made |
| Policy graph projection (`modules/graph`) | none | project, centre, truncate | catalog, facts, evaluations |
| Rate and body limits (`core/middleware.py`, `core/body_limit.py`) | a deque of times per client | admit or reject a request, buffer a body | every request |
| AI explanations (`modules/ai`, `llm`) | the chosen provider, cached | retrieve, generate, validate, fall back | sessions (row lock), RAG search, Ollama |
| RAG index (`modules/rag`) | rows `document_chunk`, `document_chunk_embedding` | rebuild, search | seed directory, Ollama embeddings |
| Policy change workflow (`modules/policy_changes`) | reports; seed directories on disk | compare, review, approve, regenerate a seed | files |
| Catalog and seeds (`catalog`, `db/seed.py`, `policies/csv_seed.py`) | policies, rules, documents, relations | verify, parse and upsert a seed | reads the directories the workflow writes |
| Chat client (`ChatArea.tsx`) | active question, loading flag, graph per topic | load a topic, submit an answer, start anew | session API, several calls per click |
| Extraction, explanation texts, quality metrics, documents, shell, static pages | none | text and wiring | - |

What is hard, and what makes each part correct:

* **Sessions.** Each request is one READ COMMITTED transaction. The code takes no
  lock of its own: `require_session` reads the row plainly and refreshes it, so the
  ORM object is dirty, and the next statement (or the commit) flushes an UPDATE
  first. From then to the commit the request holds the row lock of its session. Every
  guarantee rests on this side effect: handlers read facts, decide conflicts and
  questions, then write. Correct means that decisions are made on the facts that are
  committed against, that no deleted session leaves anything behind, that an `ACTIVE`
  evaluation is one of the present facts, and that each request takes effect at one
  instant or not at all. What is read *before* the lock (the selected category, the
  expiry times) may be stale, and the models keep it so.
* **Clean-up.** Runs against live requests and inside `POST /session`; must take expired
  sessions only, must not end when it fails, and must get its locks.
* **Question engine.** Dependencies are followed through parents and show conditions; a
  changed parent must forget its descendants, whatever the order of the batch.
* **Evaluations.** New facts and resets must reach them; the catalog is edited at any time.
* **Eligibility rules.** Three-valued logic with groups, official and optional conditions;
  correct means equal to a reference that quantifies over how open conditions turn out,
  final once decided, and ranked by status.
* **Graph.** What is cut away must not be the centre, and what is shown must agree with the answers.
* **Limits.** At most N admitted requests in any window, those turned away not counted;
  bodies in any cut, clients that leave.
* **Explanations.** Timeouts, retries and fallbacks while the row lock and a pooled
  connection are held; the eligibility status shown is never the model's.
* **RAG index.** One long transaction with network calls inside, beside searches.
* **Policy changes and imports.** Several files are rewritten in place, processes end
  half way, directories race for a name, and importers read whatever is deployed.
* **Chat client.** A click is several requests, the server remembers one selected
  category per session, and topics change in between.

`PROJECT.json` lists every component with its status, and every hazard at its line.

## 2. Modules

| Module | What it is |
|---|---|
| `QuestionEngine` | `questions/engine.py` as operators on a bank of questions (a constant). Dependencies are closed with a recursive function; a question's `rank` is its sort key. |
| `SessionData` | The shapes of the rows, and what each handler makes of them: refresh, flush, conflicts, the batch loop, reset, evaluate, mark stale. No state. |
| `SessionLedger` | The abstract specification: every successful request takes effect in one step on the rows of that moment. |
| `SessionStore` | The detailed one: requests and the janitor as tasks with their own memory, row locks, commits and failures. |
| `EligibilityRules` | Conditions, comparisons, groups, evidence, status, score and window, as operators. |
| `GraphProjection` | Which policies, relations, evaluations and facts enter a graph; nodes, edges, priorities and the cut. |
| `Recommendations` | Composes the two: answers, evaluations and days of one category, and the graphs of every request. |
| `SlidingWindow` | Abstract: a limiter that remembers every admission. |
| `Gateway` | Both middlewares around it: declared and received lengths, chunks, disconnects, proxies, the deques. |
| `RagIndex` | `rag/reindex.py` and the search: one run, document by document, and its commit. |
| `Explanations` | Extends `RagIndex` with the explanation endpoints, the provider and its time limits. |
| `SeedFiles` | A seed directory: checksums, parsing, references, patches, and the rows derived for the catalog. |
| `PolicyChanges` | Extends `SeedFiles`: reports, reviews and regenerations as processes that may end at any step. |
| `SeedImport` | Extends `PolicyChanges`: `python -m app.db.seed`, several at a time, into the catalog. |
| `Dialogue` | The handlers of one browser tab as coroutines over the category a session has selected. |
| `MC*` | Instances of the above for TLC. |
| `SessionStoreProofs`, `SessionRefinementProofs`, `RecommendationsProofs`, `GatewayProofs`, `ExplanationsProofs`, `SeedImportProofs`, `DialogueProofs` | Theorems, each about the module it is named after and those it extends: `SessionStoreProofs` about the question engine, too, `SeedImportProofs` about `PolicyChanges`. |
| `WellOrder` | Lemmas they share: least numbers, induction, iteration, first elements of finite sets. |

### Sessions

A task is one request, or the janitor; its `stage` says how far its coroutine has come:

    idle -Arrive-> arrived -Admit-> admitted -Flush-> locked -Load-> loaded -Commit-> done -Respond-> idle
                   arrived -Sweep-> swept -CreateOrGet-> admitted or inserting   (POST /session)
                   arrived -Sweep-> swept -CommitCleanUp-> done                  (janitor)

* `Arrive` takes the time (`utc_now` in `require_session`), `Admit`/`Refuse` are
  `require_session` and `require_category_code`; a 404 or the 422 for a missing category
  is raised before anything is flushed, so the refresh is lost.
* `Flush` is the autoflush: it needs the row lock, and the row (`FlushMisses`: an
  UPDATE of a deleted row is an ORM error, a DELETE of one is a warning).
* `Load` reads the facts (and the catalog) under the lock. `Commit...` is what the
  handler writes, made visible at once: READ COMMITTED shows nothing earlier. The
  session row is written as the ORM writes it, only in the columns that differ from
  the row that was *read* (`Flushed`).
* `CreateOrGet` takes the time and reads the row in one step (`sessions/service.py:51-53`); the
  code takes the time a moment earlier.
* `Sweep` is the DELETE of the expired rows. It takes all their locks in one
  step; PostgreSQL takes them one by one (see section 6).
* `Fail` ends any transaction before its commit: an exception, a lost connection,
  a cancelled request, a crash. Tasks have no state after it but the rows.
* `Tick` and `Revise` are time and the operator who seeds, edits or withdraws a
  policy. `edition` is a witness: the code stores no policy version.

Left out: `last_seen_at` (never read), the source, confirmation and note of a fact, what an
evaluation says besides the facts and the edition it was made from, and the normalisation
of category codes. Tokens are unguessable, so a session's identity is its token.

### Rules, recommendations and graphs

A value is a record of its JSON type, what its text reads as (a number, a date, a word)
and its place in the order of that reading; this is all that `_compare` distinguishes,
errors included. Evidence lists are sets, since only size and emptiness are used. In
`Recommendations`, `PutAnswer`, `Evaluate` and `Reset` are the handlers at the grain of
`SessionLedger` (the proofs about `SessionStore` justify one step each); graphs are read
off the state for every request of a small set. Where the order of equal priorities is
decided by UUIDs, `BuildSessionGraph` yields every order's result.

### Gateway

The limiter does not await between reading and writing a bucket, so a dispatch is one
step (`Admit`, `TurnAway`); reading a body is one step per chunk. `log` is history.

### Explanations

`Begin` takes the row lock and reads the evaluation (`require_session` flushes as
above), `Retrieve` is the search under `RAG_TIMEOUT_SECONDS`, `CheckHealth`,
`Retry`, `HealthChecked` find a provider and cache it, `Explain` takes the branches of
`explain_with_ai`, `Generated` and `GenerationFails` end a generation, `Finish` commits.
`FlushRaises`, `SearchRaises` and `Explain` end a request about a policy with an unapproved
rule (`Drafted`) in an error, where the next flush finds the write that `ai/repository.py:45`
or `:158` scheduled. A text is two facts: whether it tells the user to apply (`claims`), and
whether one of the six phrases of `CONTRADICTORY_ELIGIBLE_PATTERNS` is found in it (`matches`).
They are independent: the model may write a text of each of the four kinds, so what it claims
in other words passes `Contradicts`, as it does in the code. `deadline` is the `wait_for`, `patience` one attempt of httpx; httpx
limits each network operation, here taken as a limit of the attempt. Similarity is left
open: a search returns any `TopK` chunks of the policy and model.

### Seeds

A table is a set of rows, a row the columns that a check reads or a row of the catalog
is made of; a hash is what was hashed. Building a report, beginning its review and
approving it are calls on values, so `Review` is one action. A regeneration is
`hashed -> copying -> patching <-> writing -> summing -> loading`, `failed` where its `except`
clears the directory. `copytree` is `MakeDirectory`, which lists the source and creates the
target, a `CopyFile` for each entry in the order of the listing (`Listing`), and `EndCopy`:
a file is copied as it is at that moment, whoever writes to the source meanwhile, and one
that has gone makes `copytree` raise when it is through, outside the `try` that clears the
directory. `origin` keeps what was read, file by file. Opening a file for writing empties it and is a step of its own.
`CrashInCopy` leaves the file it was at empty, `CrashInRemoval` parts of a directory,
`CrashBetweenWrites` what the last step left. `Deploy` points `POLICY_SEED_DIR` at any
directory. An import verifies the checksums (`Verify`) and then reads the tables, which may
be others by then (`ReadTables`); the files of each are read in one step. It holds the rows of the categories from its first statement to its commit, so imports take turns.

### Dialogue

A task is one handler: `left` is what it has still to request, `at` where it stands
(`server`, `answered`, `failed`, `over`). `ServerAnswers` is the effect of a request on
the session, `GoOn` what the handler does with the answer. An aborted request is still
served, or lost, so an abandoned load stays pending on the server until either happens.
The questions and the graph of a load, requested together and awaited together, are one
request. `alone` says of a handler that it ran beside no other, such leftovers included.

## 3. What the runs show

| Run | Instance | Shows |
|---|---|---|
| `races` | 1 session, 2 requests, 11 calls, no time | `TypeOK`; `SessionsAreLocked`; `SnapshotsAreCurrent`: facts that were read are current until the commit; `LeafAnswersAreKept`: two submissions never overwrite one another unseen; `FollowUpsAreOpen`; `AtomicSessions`: the refinement of `SessionLedger` |
| `evaluations` | 2 identities, so that the session is renewed and reopened; 1 policy edited once; 2 requests | `ActiveEvaluationsAreCurrent`, `NothingOutlivesItsSession` |
| `liveness` | 1 session, 2 requests, janitor, clock to 2 | `RequestsAreAnswered`, `ExpiredSessionsAreSwept` under fairness |
| `recommendations` | 3 policies, 3 questions, every combination of answers, 3 days, 1 policy withdrawn; 30 rule sets; 7 graph requests | `RulesAgreeWithReference`, `OnlyWhatMattersIsAsked`, `DecidedStatusesAreFinal`: the merging of groups decides what the answers decide, asks for nothing else, and never takes it back; `ScoresRankByStatus`, `PeriodsIncludeBothEnds`; `MissingConditionsAreUnanswered`, `TheCentreIsShown`, `ShownPoliciesAreNear`, `WholeGraphsAreConnected` |
| `gateway` | 2 requests, 2 clients (one a proxy), limit 2, window 2, body limit 2, clock to 3 | `NoWindowExceedsLimit`, `TurnedAwayOnlyWhenFull`, `DeliveredBodiesAreWhole`, `RefusedForAReason`; `ImplementsSlidingWindow`: the refinement |
| `explanations` | 2 requests, 1 session, 4 policies (one hidden, one without address, one with an unapproved rule), 2 editions of the index and 2 that do not load, 2 models, 2 attempts | `AnswersAgreeWithRules`, `CitationsAreOfOneEdition`, `SessionsAreFreeInTime`, `PublicationsAreWhole` |
| `seed_editions` | 2 reviews, 2 directories, 2 importers, 1 process that ends half way | `LoadableSeedsAreWhole`, `OtherPoliciesKeepTheirRows`, `PoliciesChangeAsReviewed`, `SeedsAreWrittenByTheirMakers`, `CatalogIsOfWholeEditions` |
| `dialogue` | 2 topics that share a question, 4 handlers | `LoadingEnds` under fairness, `StaleGraphsComeFromAnswers`, `LoneAnswersLandInTheirTopic` |

Bounds, and why they are enough:

* *Sessions.* The bank is a parent question, a dependent one shown by its answer, and a
  second category, the smallest shape in which changing an answer hides another. Two
  requests suffice for every race of the code: a lock has one holder, and what a third
  request does to a waiting one, the second can do before it. The janitor is a third task
  in every run. Time stands still where it plays no part; where it passes the absolute
  TTL is 2 and the idle one 1, so that a session can expire either way and a refresh can
  reach the cap. One edit of a policy makes an evaluation, or a read, one of an earlier
  edition. The proofs have none of these bounds, and cover expiry, too.
* *Recommendations.* Two conditions of a group and one beside it, each official, required
  or optional and each met, failed or open (27 sets, and 3 more for ordered operators), reach every pair of results that `_merge_or` compares; lists of any length are for
  `RulesDecideWhatAnswersDecide` and its companions. Days 0, 1 and 2 lie before, in and after a period of one day.
* *Gateway.* Limit 2 in a window of 2 over times 0 to 3 lets a bucket fill, shrink by one,
  empty and be dropped. Bodies are of the limit and of one more, in every cut.
* *Explanations.* Evaluations have two statuses and two states, texts all four kinds. Documents swap a chunk between editions, two chunks of one file clash, a
  file does not load. One unit of time is the smallest that separates the three limits.
  The passing run lets the ids of files and rows coincide, since otherwise no search
  finds anything (`unreachable_evidence`).
* *Seeds.* `MaxStarts` 2, `MaxImports` 2, `MaxCrashes` 1: a second regeneration can race
  the first or start from what it left, an import can overtake one of another edition.
  `Interrupted` names which files an interrupted removal has taken. With two directories the
  source of a copy is finished before it is copied: that it changes or goes away meanwhile is
  covered by the proofs, which have no such bound. `Listing` puts the policies and the
  checksums first, so that a copy that ends early can have both and lack the rest. The baseline
  wrongly names a rule of another policy, which the patches must not reach.
* *Dialogue.* Four handlers: the first load, two that overlap, and the load after a reset;
  the bound on starting keeps a place for each pending reset.

Four more runs show where the code departs from its documentation or tests
(`findings` in `PROJECT.json` quote the lines):

* `follow_ups`: the follow-ups of `POST /answers` are computed from a dictionary from
  which the deleted child answers were never removed (scoped keys are removed from
  unscoped ones), so a forgotten child answer is not asked for again.
* `hidden_answers`: a batch that changes a parent and then repeats the child
  stores the child again although the parent's new answer hides it.
* `unapproved_rules`: a policy with approved and unapproved rules makes
  `POST /evaluations` fail: assigning to `policy.rules` is a write. The explanation endpoints
  make the same write (`ai/repository.py:45`, `:158`).
* `unreachable_evidence`: chunks are indexed under the policy ids of the seed files and
  searched under the ids that `db/seed.py` mints, so no question finds any.

What the properties are conditioned on says where the code gives less than one might expect:

* `LoadableSeedsAreWhole`, `OtherPoliciesKeepTheirRows` and `PoliciesChangeAsReviewed` need a
  baseline whose `SHA256SUMS` lists its files and agrees with them (`Sealed`): a process that ends in
  `_write_checksums` leaves an empty one, which verifies anything, and `regenerate_seed`
  never verifies the baseline it copies (`workflow.py:336`, `:364`). A half-patched baseline can
  load again once a patch of the next report undoes what was written.
* `LoneAnswersLandInTheirTopic` is about answers whose handler ran alone. The server files an
  answer under the category the session has selected and does not look at the question id
  (`sessions/api.py:373`), so when two handlers overlap an answer to a question both topics ask
  may be stored under the other topic.
* `StaleGraphsComeFromAnswers`: `handleSubmit` shows the graph of a topic that was left, and
  ends the loading of a newer load; `docs/phases/frontend-f0/plan.md:343` says handlers cancel or
  check stale requests, which only the loads do.
* `ScoresRankByStatus` is about evaluations that were compared with the answers. An
  `AVAILABLE_LATER` one scores -100 and comes after `LIKELY_INELIGIBLE` ones
  (`rules.py:114`), and never gets the score of its own band, which lies above theirs (`rules.py:284`;
  `docs/architecture/api-contracts.md:419` says that scores start from the status band). A period with one end is never a window.
* `ActiveEvaluationsAreCurrent` is about the present edition of a policy: nothing marks
  evaluations `STALE` when a policy is edited.
* `AnswersAgreeWithRules` is about the status and state of an answer, about the texts of the code
  and about the six phrases. A model that writes "you are entitled to this benefit" or
  "신청할 수 있습니다" to a user who is not eligible is answered through as `GENERATED`: nothing
  in the code detects it, and nothing here excludes it.
* `CitationsAreOfOneEdition` and `PublicationsAreWhole` assume one re-indexing at a time. Nothing in
  `rag/reindex.py:101` prevents two, and what the later commit leaves is then not described.
* `LoadingEnds` says that the panel is free in the end. That it is free too early, because the
  handlers share one flag (`ChatArea.tsx:579`), and that a conflict question conflicts again
  (`:557`), are possible and not excluded.
* `CatalogIsOfWholeEditions` is about the last import to commit. A directory is read before
  the import waits for its turn (`seed.py:427`), so an older edition may be committed last.

Further divergences that were met and have no run:

* A category selection that equals the stale row it was compared with is not written, and
  one committed in between stays (`sessions/api.py:266`).
* Explanations without a source answer with `FALLBACK` where `docs/architecture/backend.md:138`
  and `api-contracts.md:462` say `OFFICIAL_CONFIRMATION_REQUIRED` (`ai/service.py:183`).
* A review that changes the category of a policy renumbers the minted ids of others
  (`seed.py:343`; `docs/data/storage-model.md:66` calls them stable).
* A patch of a derived file counts as covering every reviewed field (`workflow.py:280`), and a
  patch of a rule, document or chunk may change its `policy_id` column (`workflow.py:391`).
* The chosen provider is cached for ever; a template chosen while the model was down stays.
* Rate-limit buckets shrink only when their client returns (`middleware.py:34-40`;
  `docs/security/security-design.md:117` calls them bounded).

## 4. Fairness

* *Sessions.* `Fairness` gives every task weak fairness on its own steps (the event loop
  runs every coroutine), and strong fairness on `Flush` and `Sweep` (PostgreSQL queues the
  waiters of a row lock). The janitor wakes for ever because its loop catches every
  exception but cancellation. It is assumed that it does not fail for ever. Requests may
  fail at any time; clients, operators and the clock have no fairness.
* *Dialogue.* Every handler goes on when its request has ended (`WF(GoOn)`), and every
  request ends, with an answer or an error (`WF(ServerAnswers \/ Fails)`): fetch settles.
  The user has no fairness.

The other specifications state safety only.

## 5. What is proved

For every finite or infinite set of sessions, requests, policies, clients and topics, every
bank, workload, limit and bound, from the assumptions on the constants that the modules
name and TLC evaluates on each instance.

*Sessions* (`SessionStoreProofs`, `SessionRefinementProofs`):

* `TypeCorrect`: `Spec => []TypeOK`, and `LocksAreHeld`: `Spec => []SessionsAreLocked`.
  The inductive invariant is `StoreInv == TypeOK /\ TasksOK /\ SessionsAreLocked`.
  `TasksOK` is needed because types alone do not say that an admitted task has a call
  and a row, that a loaded one has a category, or that only clean-ups have swept rows.
* `SnapshotsStayCurrent`: `Spec => []SnapshotsAreCurrent`. The frame lemma `StepFrame`
  says that a step writes facts and evaluations only of sessions whose lock its task holds;
  with the locks it gives the invariant.
* `ActiveEvaluationsStayCurrent`: `Spec => []ActiveEvaluationsAreCurrent`. The invariant
  adds `OffersOK` (a catalog that was read is the present one or an earlier edition,
  policy by policy) and `EvaluationsOK` (an evaluation of the present edition was made
  while the policy was `RULED`, which is why a reset cannot miss it).
* `NothingOutlives`: `Spec => []NothingOutlivesItsSession`. With `StoreInv` it is inductive:
  a commit writes under the row it has locked (`SaveLeavesNothing`) or cascades from every
  row it removes (`CascadeLeavesNothing`).
* `FollowUpsStayOpen`: `ConditionsReadRoots => (Spec => []FollowUpsAreOpen)`. `submit_answers`
  chooses its follow-ups from a dictionary that still has the answers it deleted
  (`merged_facts`, `sessions/api.py:405`). `OpenStaysOpen` shows that what is open there
  is open in the stored facts if no show condition reads a fact that is itself dependent.
  `QUESTION_BANK` is flat in this way; `validate_question_dag` accepts banks that are not,
  and with a chain of three questions the follow-up can be one the stored facts hide.
* `LeafAnswersStay`: `Spec => LeafAnswersAreKept`, from `SnapshotsAreCurrent`: conflicts are
  decided on the facts that are committed against (`AnswersKeepLeaves`).
* Two theorems bound what the runs `hidden_answers` and `follow_ups` show. `StoringStep` says
  what a submission works on and leaves. `HiddenAnswersAreForgotten`: a step that hides a
  question deletes its answer unless the same batch answers it. A condition stops matching
  because its fact was replaced, which is no conflict only if something depends on it, or
  was forgotten itself; either way the hidden question depends on the changed answer
  (`ConditionsDepend`), and the last answer that touches its fact decides (`TheLastDecides`).
  `FollowUpsAreNextQuestions`: the follow-ups of a batch that forgets nothing are the next
  questions of what it stored.
* `SessionsAreAtomic`: `Spec => AtomicSessions`, that is, `SessionStore` implements
  `SessionLedger`. The invariant is `RefinementInv`, which adds `TimesOK` to
  `EvaluationInv`: a task that found its session took its time before the session's
  absolute expiry, has not swept that session, and read a row with the same absolute
  expiry; the rows a clean-up swept are expired and stay until it commits; no identity is
  issued twice. `SavedTouches` shows that the row a flush leaves is one the ledger's
  `Touch` allows; one lemma for each kind of commit gives the ledger's action, and every
  other step is a stutter.

The question engine (also `SessionStoreProofs`), for every bank:

* `DependentsAreReachable`: the work list of `dependent_fact_keys` ends with the least set that
  contains its start and what depends on any member. A round that adds nothing is the last
  (`WorkList`), and one that adds something makes the set larger, so the bank's size bounds them.
* `BanksAreAcyclic`: `IsQuestionDag` holds if and only if all parents are known and there is no cycle. In a set without a
  first question each would depend on another; conversely, the questions on the way from one
  to itself are such a set (`ReachUnfolds`).
* `ThereIsANextQuestion`: while a required question is open there is exactly one to ask.

*Recommendations* (`RecommendationsProofs`), for every set of policies, rules, answers, relations and
requests:

* `RulesDecideWhatAnswersDecide`, `QuestionsStillMatter`, `DecisionsAreFinal`. What merged evidence
  contains is characterised by the result of each condition and of those in its group
  (`SingleEvidence`, `OrEvidence`, `GroupEvidence`); from that, `HoldsByEvidence` and
  `FailsByEvidence` say when the policy holds under every outcome of the open conditions, and
  `AskedMatters` names the outcome under which an asked condition is decisive: all other open
  conditions of its group fail, and no others. `DecidedStays` compares two sets of answers.
* `TypeCorrect` and `GraphsAgreeWithAnswers`, from `Inv == TypeOK /\ EvaluationsInv`: stored
  evaluations are of policies of the category, have the status and score their
  evidence makes, and those that are `ACTIVE` tell of the present answers. The exception is
  what makes an invariant of it: a reset leaves the evaluations of a withdrawn policy.
* `BetterStatusScoresMore`: `FewRules => (Spec => []ScoresRankByStatus)`. `FewRules` limits a policy to
  42 rules; by `ScoresMeetAtFortyThree`, with 43 the points of one can outweigh a better status.
  The seed has 6 rules of one policy at most; the code sets no limit.
* `PeriodsAreInclusive`: `Spec => []PeriodsIncludeBothEnds`.
* `CentreSurvives`, `PoliciesStayNear`, `GraphsHangTogether`. `AroundIsTwoSteps` writes the recursive
  search out; `CutKeepsTheFirst` and `CutKeepsTheSecond` say what a cut by priority keeps.
* `EveryRequestHasAGraph`: there is a graph for every request, so that the properties of all its graphs
  are never empty (`CutsExist`, by induction on the limit), and it is no larger than allowed.

*Limits* (`GatewayProofs`):

* `GatewayImplementsWindow`: `Spec => ImplementsSlidingWindow`. `GatewayInv` says of each
  bucket that it is the end of the client's log and that every earlier admission has left
  the window (`Remembers`). `FreshKeepsTheWindow` shows that popping keeps this, so the
  length of the bucket decides as the log would.
* `WindowIsRespected`, `NobodyIsTurnedAwayEarly`, `BodiesAreWhole`, `RefusalsAreJustified`
  and `TypeCorrect` follow from the same invariant.

*Explanations* (`ExplanationsProofs`), for every set of editions, models, requests and time limits:

* `TypeCorrect`: `Spec => []TypeOK`. `TypeOK` is inductive; that a ranked explanation has a
  policy to speak about rests on the least of the ids that match (`LeastNumber`).
* `ExplanationInvariant`: `Spec => []ExplanationInv`, and from it
  `AnswersKeepToTheRules`, `CitationsComeFromOneEdition`, `SessionsAreReleased` and
  `EditionsArePublishedWhole`. About the index it says (`IndexInv`) that the published tables are
  those of an edition, and of a run under way (`Progress`) that the documents it has done
  have exactly the edition's chunks while no foreign document is left; when none remain, the tables are
  `Published` (`WholeProgress`). About each request it says (`Sound`) that it holds
  the row lock of its session (`Locked`) until it has ended, in an answer or an error, hence that the evaluation it read is the stored one
  (`Knows`), that what it cites was approved in one edition (`Evidenced`), and that the time it held
  the session and what is left on its timers stay within the limit of its stage and
  attempt (`Timed`), from which the bound follows although a retry resets a timer. Of the texts
  it says (`AgreesWith`) what the code ensures of them, and no more: `AnswersKeepToTheRules` is
  not a theorem about what a model means.

*Seeds* (`SeedImportProofs`: first the workflow by itself, `ChangeSpec`, then `Spec`, which
implements it by `ImportersOnlyRead`). Patches are assumed not to rename
the row they are for (`PolicyChangesAssumption`; the code does not check it):

* `ChangeInvariant`: `ChangeSpec => []ChangeInv`. `JobOK` says that a regeneration past its copy
  works on a directory that exists and was made for it, which is all that
  `MakersWriteSeeds` needs. `DirOK` says of each made directory whose origin was `Sealed` that
  it is `Good` (if it verifies, it is the origin or is complete) and, while its maker works on it,
  what the step before left (`Phase`): the checksums are those of the origin and the files are
  the origin's with the patches done so far, until every patch is written. During a copy
  (`Copied`) each entry is that of the origin or missing, and only what is left to copy is
  missing unless the copy is going to raise, whatever happens to its source. `SumsConvict`
  (a directory with the origin's checksums that verifies is the origin) is why
  crashes are harmless, and `PatchedWith` that the order of the patches does not matter. From
  these follow `SeedsThatLoadAreWhole`, `OthersKeepTheirRows` and `PolicyRowsAreReviewed`.
* `CatalogsAreWhole`: `Spec => []CatalogIsOfWholeEditions`, from `ImportInv`: one transaction writes
  at a time, each table of its own view is the committed one or that one with the edition
  upserted, and a payload has rows for the same policies in every table (`PayloadIsEven`, which
  rests on the references that `load_policy_seed` checks).
* `TypeCorrect`: `Spec => []TypeOK`.

*Dialogue* (`DialogueProofs`):

* `DialogueInvariant`: `Spec => []DialogueInv`, and from it
  `GraphsOfOtherTopicsComeFromAnswers` and `LoneAnswersReachTheirTopic`. `LatestOK` (the load
  that may still show something is one of the chosen topic) gives the first; the second needs
  `AloneOK` (a handler that is alone runs beside no other) and `SelectedOK` (past its
  selection, an answer that is alone finds its own topic selected), since a select of any
  other handler would break `SelectedOK`, and `AloneOK` says there is none.

`WellOrder` makes induction available: the theorems of the library take a predicate as a parameter,
which the provers cannot instantiate, so `AllNumbers`, `EveryStartIterates` and `FirstElement` speak of
sets, functions and relations instead.

Only model-checked: liveness (`RequestsAreAnswered`, `ExpiredSessionsAreSwept`, `LoadingEnds`), which
needs `ENABLED` and is beyond the prover. The runs that expect a violation show counterexamples.

## 6. Not modelled

* PostgreSQL's deadlock detection. A request takes the lock of one session, a
  clean-up those of several, and `POST /session` a clean-up's and then one more; since
  `Sweep` is atomic in the model, cycles between two clean-ups that take the same rows
  in different orders do not appear. In the database the victim gets an error, which is `Fail`.
* The connection pool (15 connections), origin validation, request ids, logging.
* Texts: labels of the graph, prompts, wording of answers, templates, the extraction of facts
  from messages and of snapshots from web pages, the metrics of `ai_evaluation`.
* The collector and the history of report files (`write_review_report`, `workflow.py:291`):
  network and one file per call. `RobustLLMManager`, which no endpoint uses.
* Messages, drafts and local storage of the chat client, its mock mode, and the other pages.
* Document processing (sequential splitting of text) and the shell (wiring, configuration,
  health checks): no state that anything else shares.
* The rules by which vectors are near: `Hits` allows any.

## 7. Plan

Done: sessions, question engine and evaluations; rules, ranking and graphs; limits;
explanations over the index; the change workflow and imports; the chat client.

Left:

1. `Dialogue` over `SessionLedger` instead of its own server, with dependent questions.
2. The report history: two writers of one file.
