---------------------------- MODULE Explanations ----------------------------
(***************************************************************************)
(* The explanation endpoints of ai/api.py over the index of RagIndex: a    *)
(* request locks its session, reads the stored evaluation, retrieves       *)
(* citations, finds a provider and lets it write an answer, each under its *)
(* own time limit.  Evaluations change whenever their session is unlocked, *)
(* and re-indexing runs meanwhile.                                         *)
(***************************************************************************)
EXTENDS RagIndex, Integers, Functions

CONSTANTS
    Requests, Sessions,
    Statuses,                  \* eligibility statuses an evaluation may have
    Score,                     \* the recommendation score of each
    Policies,                  \* policy ids of the database
    CatalogId,                 \* the database id minted for each policy of the seed
    NoEvaluation, NoPolicy, NoCategory, NoTimer, NoAnswer, Nobody,
    PolicyCategory,            \* the category of each policy
    Visible,                   \* the policies that are APPROVED and active
    Documented,                \* the policies with an address to refer to
    Drafted,                   \* the policies with an unapproved rule
    Questions,                 \* bound: what clients ask
    Outcomes,                  \* bound: the evaluations each policy may get
    EmbeddingModel,            \* the model the service searches with
    RagTimeout, LlmTimeout,    \* RAG_TIMEOUT_SECONDS, LLM_TIMEOUT_SECONDS
    HttpTimeout, MaxAttempts   \* LLM_TIMEOUT of the configuration, LLM_MAX_ATTEMPTS

VARIABLES
    evaluation,   \* policy_evaluation, by session and policy
    holder,       \* the request that holds the row lock of a session
    cached,       \* app.state.llm_provider
    req           \* the requests

ragVars == <<index, run>>
vars == <<ragVars, evaluation, holder, cached, req>>

Evaluation == [status : Statuses, state : {"ACTIVE", "STALE"}]

\* What an answer says: whether it tells the user to apply, and whether a pattern of
\* CONTRADICTORY_ELIGIBLE_PATTERNS matches it, which is asked of the model's texts only.
\* There are texts of all four kinds: "you are entitled to it" tells the user to apply
\* and no pattern matches it, "you are not eligible" is matched.
Text == [by : {"code", "model"}, claims : BOOLEAN, matches : BOOLEAN]
ModelTexts == {text \in Text : text.by = "model"}

\* AIExplanationResponse
Answer ==
    [ ai : {"GENERATED", "FALLBACK", "OFFICIAL_CONFIRMATION_REQUIRED"},
      policy : Visible \cup {NoPolicy}, status : Statuses \cup {"OFFICIAL_CONFIRMATION_REQUIRED"},
      state : {"none", "ACTIVE", "STALE"}, cites : SUBSET Row,
      catalog : BOOLEAN, text : Text ]

\* A question names a policy, or a rank, or is text that mentions policies and
\* may ask for a recommendation; the category is the one the session selected.
Question ==
    [kind : {"policy"}, policy : Policies]
    \cup [kind : {"rank"}, rank : Nat \ {0}, category : Range(PolicyCategory) \cup {NoCategory}]
    \cup [ kind : {"text"}, mentions : SUBSET Policies, recommends : BOOLEAN,
           category : Range(PolicyCategory) \cup {NoCategory} ]

ASSUME ExplanationsAssumption ==
    /\ Policies \subseteq Nat
    /\ CatalogId \in [SeedPolicies -> Policies]
    /\ "LIKELY_ELIGIBLE" \in Statuses
    /\ Score \in [Statuses -> Int]
    /\ PolicyCategory \in [Policies -> Range(PolicyCategory)]
    /\ Visible \cup Documented \cup Drafted \subseteq Policies
    /\ Questions \subseteq Question
    /\ Outcomes \in [Visible -> SUBSET Evaluation]
    /\ EmbeddingModel \in Models
    /\ {RagTimeout, LlmTimeout, HttpTimeout, MaxAttempts} \subseteq Nat \ {0}
    /\ NoTimer \notin Nat /\ Nobody \notin Requests /\ NoAnswer \notin Answer

Idle == [ stage |-> "idle", session |-> Nobody, policy |-> NoPolicy,
          evaluation |-> NoEvaluation, cites |-> {}, provider |-> "none",
          attempt |-> 0, deadline |-> NoTimer, patience |-> NoTimer, held |-> 0,
          answer |-> NoAnswer ]

Init ==
    /\ IndexInit
    /\ evaluation = [s \in Sessions |-> [p \in Visible |-> NoEvaluation]]
    /\ holder = [s \in Sessions |-> Nobody]
    /\ cached = "none"
    /\ req = [r \in Requests |-> Idle]

-----------------------------------------------------------------------------
(* Which policy is asked about: build_context_for_policy and _top_policy.  *)

InCategory(c) == {p \in Visible : c = NoCategory \/ PolicyCategory[p] = c}

Ranked(s, c) == {p \in InCategory(c) : evaluation[s][p] # NoEvaluation}

\* ORDER BY recommendation_score DESC, policy_id
Before(s, p, q) ==
    LET a == Score[evaluation[s][p].status]
        b == Score[evaluation[s][q].status]
    IN  a > b \/ (a = b /\ p < q)

\* OFFSET k - 1 LIMIT 1
AtRank(s, c, k) ==
    LET found == {p \in Ranked(s, c) : Cardinality({q \in Ranked(s, c) : Before(s, q, p)}) = k - 1}
    IN  IF found = {} THEN NoPolicy ELSE CHOOSE p \in found : TRUE

\* The best match of a message; ties go by title, here by number.
Mentioned(c, mentions) ==
    LET matches == mentions \cap InCategory(c)
    IN  IF matches = {} THEN NoPolicy ELSE CHOOSE p \in matches : \A q \in matches : p <= q

OrElse(p, q) == IF p # NoPolicy THEN p ELSE q

\* find_policy_evidence_bundle_for_message, in the category and then in all.
Named(q) == OrElse(Mentioned(q.category, q.mentions), Mentioned(NoCategory, q.mentions))

Subject(s, q) ==
    CASE q.kind = "policy" -> IF q.policy \in Visible THEN q.policy ELSE NoPolicy
      [] q.kind = "rank" ->
           OrElse(AtRank(s, q.category, q.rank), AtRank(s, NoCategory, q.rank))
      [] q.kind = "text" ->
           OrElse(Named(q),
                  IF q.recommends
                  THEN OrElse(AtRank(s, q.category, 1), AtRank(s, NoCategory, 1))
                  ELSE NoPolicy)

-----------------------------------------------------------------------------
(* One request.                                                            *)

Only(r, changed) == req' = [req EXCEPT ![r] = changed]

\* Both bundle functions assign the approved rules to policy.rules, so that the next
\* flush takes policy_id from an unapproved one and fails.  A policy found by its name
\* is flushed by the query for its evaluation.
FlushRaises(q, p) == q.kind = "text" /\ p = Named(q) /\ p \in Drafted

\* get_policy_evidence_bundle, after require_session; the next await is the
\* retrieval, unless no policy was found.
Asked(r, s, q) ==
    LET p == Subject(s, q)
        asked == [Idle EXCEPT !.session = s, !.policy = p]
    IN  CASE p # NoPolicy /\ FlushRaises(q, p) -> [asked EXCEPT !.stage = "raised"]
          [] p # NoPolicy /\ ~ FlushRaises(q, p) ->
               [asked EXCEPT !.stage = "retrieving", !.deadline = RagTimeout,
                             !.evaluation = evaluation[s][p]]
          [] p = NoPolicy /\ q.kind = "policy" -> [asked EXCEPT !.stage = "raised"]
          [] p = NoPolicy /\ q.kind # "policy" -> [asked EXCEPT !.stage = "choosing"]

\* Mutant: the session is read without its lock.
BeginUnlocked(r, s, q) ==
    /\ req[r].stage = "idle"
    /\ Only(r, Asked(r, s, q))
    /\ UNCHANGED <<ragVars, evaluation, holder, cached>>

Begin(r, s, q) ==
    /\ req[r].stage = "idle"
    /\ holder[s] = Nobody
    /\ holder' = [holder EXCEPT ![s] = r]
    /\ Only(r, Asked(r, s, q))
    /\ UNCHANGED <<ragVars, evaluation, cached>>

\* retrieve_rag_citations: an empty result, an error and the time limit are one.
Retrieve(r) ==
    /\ req[r].stage = "retrieving"
    /\ \E cites \in Hits(req[r].policy, EmbeddingModel) \cup {{}} :
         /\ req[r].policy \in Drafted => cites = {}
         /\ Only(r, [req[r] EXCEPT !.stage = "choosing", !.deadline = NoTimer, !.cites = cites])
    /\ UNCHANGED <<ragVars, evaluation, holder, cached>>

\* The search flushes first: the error is swallowed, but the transaction is rolled
\* back, and the policy can no longer be read when it is explained.  That a provider
\* is asked for in between is left out.
SearchRaises(r) ==
    /\ req[r].stage = "retrieving" /\ req[r].policy \in Drafted
    /\ Only(r, [req[r] EXCEPT !.stage = "raised"])
    /\ UNCHANGED <<ragVars, evaluation, holder, cached>>

\* get_llm_provider: what was cached, or a health check of the model.
UseCachedProvider(r) ==
    /\ req[r].stage = "choosing" /\ cached # "none"
    /\ Only(r, [req[r] EXCEPT !.stage = "explaining", !.provider = cached])
    /\ UNCHANGED <<ragVars, evaluation, holder, cached>>

CheckHealth(r) ==
    /\ req[r].stage = "choosing" /\ cached = "none"
    /\ Only(r, [req[r] EXCEPT !.stage = "checking", !.attempt = 1, !.patience = HttpTimeout])
    /\ UNCHANGED <<ragVars, evaluation, holder, cached>>

\* create_available_llm_provider: the model is ready, or a template is used.  An
\* answer that comes as its time runs out may still be in time.
HealthChecked(r, provider) ==
    /\ req[r].stage = "checking"
    /\ Only(r, [req[r] EXCEPT !.stage = "explaining", !.provider = provider,
                              !.patience = NoTimer])
    /\ cached' = provider
    /\ UNCHANGED <<ragVars, evaluation, holder>>

\* A response that is not JSON raises through both functions: no provider.
HealthBroken(r) ==
    /\ req[r].stage = "checking"
    /\ Only(r, [req[r] EXCEPT !.stage = "explaining", !.patience = NoTimer])
    /\ UNCHANGED <<ragVars, evaluation, holder, cached>>

\* Mutant: an attempt of a generation starts the whole time limit again.
RetryFromTheStart(r) ==
    /\ req[r].stage \in {"checking", "generating"}
    /\ req[r].attempt < MaxAttempts
    /\ Only(r, [req[r] EXCEPT !.attempt = @ + 1, !.patience = HttpTimeout,
                              !.deadline = IF @ = NoTimer THEN @ ELSE LlmTimeout])
    /\ UNCHANGED <<ragVars, evaluation, holder, cached>>

\* Mutant: one attempt too many.
RetryOnceMore(r) ==
    /\ req[r].stage \in {"checking", "generating"}
    /\ req[r].attempt <= MaxAttempts
    /\ Only(r, [req[r] EXCEPT !.attempt = @ + 1, !.patience = HttpTimeout])
    /\ UNCHANGED <<ragVars, evaluation, holder, cached>>

\* _request_json: a time-out, a network error or a 502..504 is tried again, until
\* the wait_for around a generation ends.
Retry(r) ==
    /\ req[r].stage \in {"checking", "generating"}
    /\ req[r].attempt < MaxAttempts
    /\ req[r].deadline # 0
    /\ Only(r, [req[r] EXCEPT !.attempt = @ + 1, !.patience = HttpTimeout])
    /\ UNCHANGED <<ragVars, evaluation, holder, cached>>

-----------------------------------------------------------------------------
(* explain_with_ai.                                                        *)

\* rule_status
RuleStatus(e) == IF e = NoEvaluation THEN "OFFICIAL_CONFIRMATION_REQUIRED" ELSE e.status
RuleState(e) == IF e = NoEvaluation THEN "none" ELSE e.state

\* eligibility_answer_sentence: only one status tells the user to apply.
Claims(e) == e # NoEvaluation /\ e.status = "LIKELY_ELIGIBLE"
Sentence(claims) == [by |-> "code", claims |-> claims, matches |-> FALSE]

Response(q, ai, status, catalog, text) ==
    [ ai |-> ai, policy |-> q.policy, status |-> status, state |-> RuleState(q.evaluation),
      cites |-> q.cites, catalog |-> catalog, text |-> text ]

\* No source at all, not even a catalogue entry with an address.
OfficialConfirmation(q) ==
    Response(q, "OFFICIAL_CONFIRMATION_REQUIRED", "OFFICIAL_CONFIRMATION_REQUIRED", FALSE,
             Sentence(FALSE))

\* catalog_answer; an answer about the period says nothing about eligibility.
CatalogAnswers(q) ==
    { Response(q, "FALLBACK", RuleStatus(q.evaluation), TRUE, Sentence(claims)) :
        claims \in {FALSE, Claims(q.evaluation)} }

\* template_answer
FallbackResponse(q) ==
    Response(q, "FALLBACK", RuleStatus(q.evaluation), FALSE,
             Sentence(Claims(q.evaluation) /\ q.evaluation.state # "STALE"))

\* contradicts_rule_status: it looks for phrases, whatever the text means.
Contradicts(text, status) == text.matches /\ status # "LIKELY_ELIGIBLE"

\* The answers to one generation: well formed or not, with any text the model may
\* write that is not caught, unless the model reports that it could not answer.
GeneratedAnswers(q) ==
    { FallbackResponse(q) }
    \cup { Response(q, ai, RuleStatus(q.evaluation), FALSE, text) :
             ai \in {"GENERATED", "FALLBACK"},
             text \in {t \in ModelTexts : ~ Contradicts(t, RuleStatus(q.evaluation))} }

Answered(r, answer) ==
    Only(r, [Idle EXCEPT !.stage = "answered", !.session = req[r].session,
                         !.policy = req[r].policy, !.answer = answer])

\* If the retrieval failed before it searched, the flush of the commit raises, and the
\* answer is not given.
Explain(r) ==
    /\ req[r].stage = "explaining"
    /\ LET q == req[r]
       IN  \/ /\ q.policy \in Drafted
              /\ Only(r, [q EXCEPT !.stage = "raised"])
           \/ /\ q.cites = {} /\ q.policy \notin Documented \cup Drafted
              /\ Answered(r, OfficialConfirmation(q))
           \/ /\ q.cites = {} /\ q.policy \in Documented \ Drafted
              /\ \E answer \in CatalogAnswers(q) : Answered(r, answer)
           \/ /\ q.cites # {} /\ q.provider # "ollama"
              /\ Answered(r, FallbackResponse(q))
           \/ /\ q.cites # {} /\ q.provider = "ollama"
              /\ Only(r, [q EXCEPT !.stage = "generating", !.attempt = 1,
                                   !.deadline = LlmTimeout, !.patience = HttpTimeout])
    /\ UNCHANGED <<ragVars, evaluation, holder, cached>>

Generated(r) ==
    /\ req[r].stage = "generating"
    /\ \E answer \in GeneratedAnswers(req[r]) : Answered(r, answer)
    /\ UNCHANGED <<ragVars, evaluation, holder, cached>>

\* An error that is not tried again, or the time limit of the whole generation.
GenerationFails(r) ==
    /\ req[r].stage = "generating"
    /\ Answered(r, FallbackResponse(req[r]))
    /\ UNCHANGED <<ragVars, evaluation, holder, cached>>

\* The commit, or the rollback after POLICY_NOT_FOUND or an integrity error.
Finish(r) ==
    /\ req[r].stage \in {"answered", "raised"}
    /\ holder' = [s \in Sessions |-> IF holder[s] = r THEN Nobody ELSE holder[s]]
    /\ Only(r, Idle)
    /\ UNCHANGED <<ragVars, evaluation, cached>>

-----------------------------------------------------------------------------
(* The surroundings.                                                       *)

\* POST /evaluations and POST /answers write under the same lock.
Reevaluate(s, p, e) ==
    /\ holder[s] = Nobody
    /\ evaluation' = [evaluation EXCEPT ![s][p] = e]
    /\ UNCHANGED <<ragVars, holder, cached, req>>

\* The process stops: the database rolls back, nothing else survives.
Restart ==
    /\ req' = [r \in Requests |-> Idle]
    /\ holder' = [s \in Sessions |-> Nobody]
    /\ cached' = "none"
    /\ UNCHANGED <<ragVars, evaluation>>

\* Time passes while requests wait for a model, never past a timer.
Tick ==
    /\ \A r \in Requests :
         /\ req[r].stage \in {"idle", "retrieving", "checking", "generating"}
         /\ 0 \notin {req[r].deadline, req[r].patience}
    /\ \E r \in Requests : req[r].stage # "idle"
    /\ LET Less(t) == IF t = NoTimer THEN NoTimer ELSE t - 1
       IN  req' = [ r \in Requests |->
                      IF req[r].stage = "idle" THEN req[r]
                      ELSE [req[r] EXCEPT !.deadline = Less(@), !.patience = Less(@),
                                          !.held = @ + 1] ]
    /\ UNCHANGED <<ragVars, evaluation, holder, cached>>

Step(r) ==
    \/ \E s \in Sessions, q \in Questions : Begin(r, s, q)
    \/ Retrieve(r)
    \/ SearchRaises(r)
    \/ UseCachedProvider(r)
    \/ CheckHealth(r)
    \/ \E provider \in {"ollama", "template"} : HealthChecked(r, provider)
    \/ HealthBroken(r)
    \/ Retry(r)
    \/ Explain(r)
    \/ Generated(r)
    \/ GenerationFails(r)
    \/ Finish(r)

Next ==
    \/ \E r \in Requests : Step(r)
    \/ \E s \in Sessions, p \in Visible : \E e \in Outcomes[p] : Reevaluate(s, p, e)
    \/ Restart
    \/ Tick
    \/ IndexNext /\ UNCHANGED <<evaluation, holder, cached, req>>

Spec == Init /\ [][Next]_vars

-----------------------------------------------------------------------------

Timer == Nat \cup {NoTimer}

Provider == {"none", "ollama", "template"}
Attempts == 0..MaxAttempts

Request ==
    [ stage : {"idle", "retrieving", "choosing", "checking", "explaining", "generating",
               "answered", "raised"},
      session : Sessions \cup {Nobody}, policy : Visible \cup {NoPolicy},
      evaluation : Evaluation \cup {NoEvaluation}, cites : SUBSET Row, provider : Provider,
      attempt : Attempts, deadline : Timer, patience : Timer, held : Nat,
      answer : Answer \cup {NoAnswer} ]

\* Every variable has its type: only policies that are published are explained,
\* no timer runs below zero and no call is tried too often (_request_json); a
\* request has an answer exactly when it has answered.
TypeOK ==
    /\ index \in Tables
    /\ run \in [rows : SUBSET Row, model : Models, left : SUBSET Documents, tables : Tables]
              \cup {NoRun}
    /\ evaluation \in [Sessions -> [Visible -> Evaluation \cup {NoEvaluation}]]
    /\ holder \in [Sessions -> Requests \cup {Nobody}]
    /\ cached \in Provider
    /\ req \in [Requests -> Request]
    /\ \A r \in Requests : req[r].stage = "answered" <=> req[r].answer # NoAnswer

Answering(r) == req[r].stage = "answered" /\ req[r].policy # NoPolicy

\* An answer carries the status and the state of the evaluation that is stored when
\* it is given, not of the one when it was asked for: no evaluation is made while the
\* model writes.  By that evaluation, too, a text of the code tells the user to apply
\* and a text of the model has one of the phrases it may not have otherwise.  What the
\* model says in other words is not checked by the code, and nothing is said of it.
AnswersAgreeWithRules ==
    \A r \in Requests :
        Answering(r) =>
            LET now == evaluation[req[r].session][req[r].policy]
                answer == req[r].answer
            IN  /\ answer.text.by = "code" /\ answer.text.claims => Claims(now)
                /\ answer.text.matches => Claims(now)
                /\ answer.status \in {RuleStatus(now), "OFFICIAL_CONFIRMATION_REQUIRED"}
                /\ answer.state = RuleState(now)

\* The chunks an answer cites were approved for its policy in one edition of the
\* seed: a re-indexing under way is never seen in parts.  A generated answer
\* cites at least one.
CitationsAreOfOneEdition ==
    \A r \in Requests :
        Answering(r) =>
            LET answer == req[r].answer
            IN  /\ \E rows \in Seeds :
                     answer.cites \subseteq {c \in Approved(rows) : c.policy = answer.policy}
                /\ answer.ai = "GENERATED" => answer.cites # {}

\* docs/architecture/api-contracts.md:458: "RAG supplies approved official citations
\* from the pgvector-backed document chunk index when available".  A chunk that is
\* stored for a policy of the catalogue can be found by a question about it.
EvidenceIsReachable ==
    \A c \in Stored(index) :
        LET p == CatalogId[index[c].row.policy]
        IN  p \in Visible /\ EmbeddingModel \in index[c].models
              => \E h \in Hits(p, EmbeddingModel) : h # {}

\* The index goes from one seed to another as a whole: each publication is
\* exactly what the seed it was started from approves, whatever was deleted,
\* moved, embedded with another model or left over before.
PublicationsAreWhole ==
    [][ \E rows \in Seeds, m \in Models : index' = Published(rows, m) ]_index

\* A request keeps its session locked for a bounded time: retrieval and
\* generation are cut at their limits however often the client library retries,
\* and only a health check adds its attempts.
SessionsAreFreeInTime ==
    \A r \in Requests :
        req[r].held <= RagTimeout + MaxAttempts * HttpTimeout + LlmTimeout

=============================================================================
