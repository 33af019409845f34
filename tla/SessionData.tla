---------------------------- MODULE SessionData ----------------------------
(***************************************************************************)
(* The rows the anonymous-session API keeps in PostgreSQL, and what each   *)
(* handler of backend/src/app/modules/sessions/api.py makes of them.  The  *)
(* operators have no state: SessionLedger applies them to the rows in one  *)
(* step, SessionStore through transactions.                                *)
(***************************************************************************)
EXTENDS QuestionEngine, Sequences

CONSTANTS
    Sessions,        \* session identities: a cookie token and its row id
    Policies,        \* policy ids
    PolicyCategory,  \* the category of a policy
    NoCategory,      \* selected_category_code is NULL; no scope in a key
    NoRow,           \* there is no anonymous_session row
    NoEvaluation,    \* there is no policy_evaluation row
    AbsoluteTTL,     \* anonymous_session_absolute_ttl_minutes
    IdleTTL          \* anonymous_session_idle_ttl_minutes

ASSUME SessionDataAssumption ==
    /\ PolicyCategory \in [Policies -> Categories]
    /\ NoCategory \notin Categories
    /\ AbsoluteTTL \in Nat \ {0}
    /\ IdleTTL \in Nat \ {0}

-----------------------------------------------------------------------------
(* anonymous_session.  last_seen_at is written by every request and read   *)
(* by none, so it is left out.                                             *)

Row == [expires : Nat, idle : Nat, category : Categories \cup {NoCategory}]

Earlier(a, b) == IF a <= b THEN a ELSE b

\* Mutant: a new session's category is the empty string, not NULL.
NewRowUnselected(now) == [expires |-> now + AbsoluteTTL, idle |-> now + IdleTTL, category |-> ""]

NewRow(now) ==
    [expires |-> now + AbsoluteTTL, idle |-> now + IdleTTL, category |-> NoCategory]

\* is_expired, and the condition of the clean-up's DELETE.
Expired(row, now) == row.expires <= now \/ row.idle <= now

\* refresh_session_access
Refreshed(row, now) == [row EXCEPT !.idle = Earlier(row.expires, now + IdleTTL)]

\* What the UPDATE of a flush leaves in the row: the ORM writes the columns
\* whose value differs from the one it loaded and leaves the others as they
\* are by now.  Two windows that both reach the absolute expiry are equal.
Flushed(current, loaded, updated) ==
    [ expires  |-> current.expires,
      idle     |-> IF loaded.idle = loaded.expires /\ updated.idle = loaded.expires
                   THEN current.idle ELSE updated.idle,
      category |-> IF updated.category = loaded.category
                   THEN current.category ELSE updated.category ]

ASSUME RowAssumption == NoRow \notin Row

-----------------------------------------------------------------------------
(* user_fact.  A condition key is a fact key with the category it is       *)
(* scoped to; keys without a scope come from the fact endpoint alone.      *)

ConditionKeys == (Categories \cup {NoCategory}) \X FactKeys

FactTable == [ConditionKeys -> Values \cup {NoFact}]

NoFacts == [k \in ConditionKeys |-> NoFact]

\* facts_to_category_dict
CategoryFacts(table, c) == [key \in FactKeys |-> table[<<c, key>>]]

\* The keys reset_category_session deletes: those of the category's
\* questions, with and without the scope.
ResetKeys(c) == {NoCategory, c} \X {q.fact_key : q \in CategoryQuestions(c)}

FactsAfterReset(table, c) ==
    [k \in ConditionKeys |-> IF k \in ResetKeys(c) THEN NoFact ELSE table[k]]

-----------------------------------------------------------------------------
(* POST /answers.  A batch is a sequence of answers; existing is the       *)
(* category's dictionary as the handler read it before storing anything.   *)

Answer == [key : FactKeys, value : Values]

IsChange(c, existing, answer) ==
    existing[answer.key] # NoFact /\ existing[answer.key] # answer.value

\* The dictionary of submitted facts keeps the last answer for a key.
IsLastFor(batch, i, key) ==
    batch[i].key = key /\ \A j \in DOMAIN batch : j > i => batch[j].key # key

\* Mutant: only the first answer of a batch is compared.
ConflictsOfFirst(c, existing, batch) ==
    {key \in FactKeys :
        /\ IsLastFor(batch, 1, key)
        /\ IsChange(c, existing, batch[1])
        /\ DependentFactKeys(c, key) = {}}

\* detect_answer_conflicts: a changed answer whose fact has no dependents.
Conflicts(c, existing, batch) ==
    {key \in FactKeys : \E i \in DOMAIN batch :
        /\ IsLastFor(batch, i, key)
        /\ IsChange(c, existing, batch[i])
        /\ DependentFactKeys(c, key) = {}}

\* Storing answer i deletes key, as a dependent of a changed answer.
Forgets(c, existing, batch, i, key) ==
    IsChange(c, existing, batch[i]) /\ key \in DependentFactKeys(c, batch[i].key)

\* Answer i leaves its mark on key: it stores it, or then deletes it, and no
\* later answer of the batch touches it.
Decides(c, existing, batch, i, key) ==
    /\ batch[i].key = key \/ Forgets(c, existing, batch, i, key)
    /\ \A j \in DOMAIN batch :
         j > i => batch[j].key # key /\ ~Forgets(c, existing, batch, j, key)

Stores(c, existing, batch, i, key) ==
    /\ Decides(c, existing, batch, i, key)
    /\ batch[i].key = key
    /\ ~Forgets(c, existing, batch, i, key)

\* The loop of submit_answers: for each answer the upsert of its fact, then the
\* deletion of the dependents of a changed one.
FactsAfterAnswers(table, c, existing, batch) ==
    [k \in ConditionKeys |->
        IF k[1] # c THEN table[k]
        ELSE IF \E i \in DOMAIN batch : Stores(c, existing, batch, i, k[2])
        THEN batch[CHOOSE i \in DOMAIN batch : Stores(c, existing, batch, i, k[2])].value
        ELSE IF \E i \in DOMAIN batch : Decides(c, existing, batch, i, k[2])
        THEN NoFact
        ELSE table[k]]

\* Mutant: chooses the follow-ups from the facts as they were.
MergedFactsBefore(existing, batch) == existing

\* merged_facts: the handler removes the scoped keys it deleted from a
\* dictionary of unscoped keys, which removes nothing.
MergedFacts(existing, batch) ==
    [key \in FactKeys |->
        IF \E i \in DOMAIN batch : IsLastFor(batch, i, key)
        THEN batch[CHOOSE i \in DOMAIN batch : IsLastFor(batch, i, key)].value
        ELSE existing[key]]

-----------------------------------------------------------------------------
(* policy and policy_evaluation.  An edition is the policy_version of the  *)
(* documentation: the code keeps none, so that the model's is a witness of *)
(* which policy text and rules an evaluation was made from.                *)

\* RULED: approved and active, every rule approved.  MIXED: approved and active
\* with approved and unapproved rules.  UNRULED: approved and active with no
\* approved rule.  WITHDRAWN: not approved or not active.
PolicyStates == {"RULED", "MIXED", "UNRULED", "WITHDRAWN"}

CatalogEntry == [state : PolicyStates, edition : Nat]

Evaluation ==
    [state : {"ACTIVE", "STALE"}, snapshot : CategoryDict, edition : Nat]

ASSUME EvaluationAssumption == NoEvaluation \notin Evaluation

NoEvaluations == [p \in Policies |-> NoEvaluation]

PoliciesIn(c) == {p \in Policies : PolicyCategory[p] = c}

\* list_active_policies_for_category narrows the rules of a MIXED policy by
\* assigning to the relationship, which the next flush writes to policy_rule as
\* a NULL policy_id: the column forbids it and the request fails.
NarrowsRules(catalog, c) == \E p \in PoliciesIn(c) : catalog[p].state = "MIXED"

\* create_session_evaluations: an upsert for each evaluable policy.
EvaluationsAfterEvaluate(table, c, facts, catalog) ==
    [p \in Policies |->
        IF p \in PoliciesIn(c) /\ catalog[p].state = "RULED"
        THEN [state |-> "ACTIVE", snapshot |-> facts, edition |-> catalog[p].edition]
        ELSE table[p]]

\* delete_session_evaluations_for_category
EvaluationsAfterReset(table, c, catalog) ==
    [p \in Policies |->
        IF p \in PoliciesIn(c) /\ catalog[p].state # "WITHDRAWN"
        THEN NoEvaluation
        ELSE table[p]]

\* mark_session_evaluations_stale
MarkedStale(table) ==
    [p \in Policies |->
        IF table[p] # NoEvaluation /\ table[p].state = "ACTIVE"
        THEN [table[p] EXCEPT !.state = "STALE"]
        ELSE table[p]]

=============================================================================
