----------------------- MODULE RecommendationsProofs -----------------------
(***************************************************************************)
(* Proofs about Recommendations, and the rules and graphs it is made of,   *)
(* for every set of policies, rules, answers, relations and requests.      *)
(***************************************************************************)
EXTENDS Recommendations, WellOrder, TLAPS

-----------------------------------------------------------------------------
(* Evidence.  A condition alone has one of four results, and the evidence  *)
(* of a list of conditions follows from those.                             *)

\* Evidence in one bucket.
LEMMA OneBucket ==
    ASSUME NEW S
    PROVE  /\ [NoEvidence EXCEPT !.satisfied = S]
                = [satisfied |-> S, unsatisfied |-> {}, needs |-> {}, official |-> {}]
           /\ [NoEvidence EXCEPT !.unsatisfied = S]
                = [satisfied |-> {}, unsatisfied |-> S, needs |-> {}, official |-> {}]
           /\ [NoEvidence EXCEPT !.needs = S]
                = [satisfied |-> {}, unsatisfied |-> {}, needs |-> S, official |-> {}]
           /\ [NoEvidence EXCEPT !.official = S]
                = [satisfied |-> {}, unsatisfied |-> {}, needs |-> {}, official |-> S]
  BY DEF NoEvidence

Result(c, a) == ConditionResult(EvaluateSingle(c, a))

Met(c, a) == ~ c.official /\ a[c.field] # NoAnswer /\ Compare(c.operator, a[c.field], c.expected)

\* The evidence of one condition is the condition itself, in the bucket its
\* result names; an optional condition that is not met leaves none.
LEMMA SingleEvidence ==
    ASSUME NEW c, NEW a, NEW x
    PROVE  /\ x \in EvaluateSingle(c, a).satisfied <=> x = c /\ Met(c, a)
           /\ x \in EvaluateSingle(c, a).unsatisfied <=> x = c /\ Result(c, a) = "UNMET"
           /\ x \in EvaluateSingle(c, a).needs <=> x = c /\ Result(c, a) = "UNKNOWN"
           /\ x \in EvaluateSingle(c, a).official <=> x = c /\ Result(c, a) = "OFFICIAL"
  BY OneBucket DEF EvaluateSingle, Result, ConditionResult, Met

\* Which result a condition has.
LEMMA SingleResult ==
    ASSUME NEW c, NEW a
    PROVE  /\ Result(c, a) \in {"MET", "UNKNOWN", "OFFICIAL", "UNMET"}
           /\ Result(c, a) = "OFFICIAL" <=> c.official
           /\ Result(c, a) = "UNKNOWN" <=> ~ c.official /\ a[c.field] = NoAnswer /\ c.required
           /\ Result(c, a) = "UNMET" <=> /\ ~ c.official /\ a[c.field] # NoAnswer /\ c.required
                                         /\ ~ Compare(c.operator, a[c.field], c.expected)
           /\ Met(c, a) => Result(c, a) = "MET"
  BY OneBucket DEF EvaluateSingle, Result, ConditionResult, Met

Singles(C, a, g) == {EvaluateSingle(c, a) : c \in {d \in C : d.group = g}}

\* What an OR of alternatives keeps: the evidence of the best results.
LEMMA OrEvidence ==
    ASSUME NEW C, NEW a, NEW g, NEW x
    PROVE  /\ x \in MergeOr(Singles(C, a, g)).satisfied
                <=> x \in C /\ x.group = g /\ Met(x, a)
           /\ x \in MergeOr(Singles(C, a, g)).unsatisfied
                <=> /\ x \in C /\ x.group = g
                    /\ \A d \in C : d.group = g => Result(d, a) = "UNMET"
           /\ x \in MergeOr(Singles(C, a, g)).needs
                <=> /\ x \in C /\ x.group = g /\ Result(x, a) = "UNKNOWN"
                    /\ \A d \in C : d.group = g => Result(d, a) # "MET"
           /\ x \in MergeOr(Singles(C, a, g)).official
                <=> /\ x \in C /\ x.group = g /\ Result(x, a) = "OFFICIAL"
                    /\ \A d \in C : d.group = g => Result(d, a) \notin {"MET", "UNKNOWN"}
  <1> DEFINE M == Singles(C, a, g)
             With(s) == {r \in M : ConditionResult(r) = s}
  <1>1. \A s : With(s) # {} <=> \E d \in C : d.group = g /\ Result(d, a) = s
    BY DEF Singles, Result
  <1>2. x \in UNION {r.satisfied : r \in With("MET")}
          <=> x \in C /\ x.group = g /\ Met(x, a)
    BY SingleEvidence, SingleResult DEF Singles, Result
  <1>3. x \in UNION {r.needs : r \in With("UNKNOWN")}
          <=> x \in C /\ x.group = g /\ Result(x, a) = "UNKNOWN"
    BY SingleEvidence DEF Singles, Result
  <1>4. x \in UNION {r.official : r \in With("OFFICIAL")}
          <=> x \in C /\ x.group = g /\ Result(x, a) = "OFFICIAL"
    BY SingleEvidence DEF Singles, Result
  <1>5. x \in UNION {r.unsatisfied : r \in M}
          <=> x \in C /\ x.group = g /\ Result(x, a) = "UNMET"
    BY SingleEvidence DEF Singles
  <1>6. MergeOr(M) =
          IF With("MET") # {}
          THEN [satisfied |-> UNION {r.satisfied : r \in With("MET")},
                unsatisfied |-> {}, needs |-> {}, official |-> {}]
          ELSE IF With("UNKNOWN") # {}
          THEN [satisfied |-> {}, unsatisfied |-> {},
                needs |-> UNION {r.needs : r \in With("UNKNOWN")}, official |-> {}]
          ELSE IF With("OFFICIAL") # {}
          THEN [satisfied |-> {}, unsatisfied |-> {}, needs |-> {},
                official |-> UNION {r.official : r \in With("OFFICIAL")}]
          ELSE [satisfied |-> {}, unsatisfied |-> UNION {r.unsatisfied : r \in M},
                needs |-> {}, official |-> {}]
    BY OneBucket DEF MergeOr
  <1> HIDE DEF M, With
  <1>7. \A d \in C : Result(d, a) \in {"MET", "UNKNOWN", "OFFICIAL", "UNMET"}
    BY SingleResult
  <1>8. Met(x, a) => Result(x, a) = "MET"
    BY SingleResult
  <1> QED  BY <1>1, <1>2, <1>3, <1>4, <1>5, <1>6, <1>7, <1>8 DEF M

\* The alternatives to a condition: itself, when it belongs to no group.
Peers(C, c) == IF c.group = NoGroup THEN {c} ELSE {d \in C : d.group = c.group}

\* The evidence of a list of conditions: a condition is listed with its result
\* unless an alternative has a better one.
LEMMA GroupEvidence ==
    ASSUME NEW C, NEW a, NEW c
    PROVE  /\ c \in EvaluateGroup(C, a).satisfied <=> c \in C /\ Met(c, a)
           /\ c \in EvaluateGroup(C, a).unsatisfied
                <=> c \in C /\ \A d \in Peers(C, c) : Result(d, a) = "UNMET"
           /\ c \in EvaluateGroup(C, a).needs
                <=> /\ c \in C /\ Result(c, a) = "UNKNOWN"
                    /\ \A d \in Peers(C, c) : Result(d, a) # "MET"
           /\ c \in EvaluateGroup(C, a).official
                <=> /\ c \in C /\ Result(c, a) = "OFFICIAL"
                    /\ \A d \in Peers(C, c) : Result(d, a) \notin {"MET", "UNKNOWN"}
  <1> DEFINE groups == {d.group : d \in C} \ {NoGroup}
             parts == Singles(C, a, NoGroup) \cup {MergeOr(Singles(C, a, g)) : g \in groups}
             Or(g) == MergeOr(Singles(C, a, g))
  <1>1. /\ EvaluateGroup(C, a).satisfied = UNION {r.satisfied : r \in parts}
        /\ EvaluateGroup(C, a).unsatisfied = UNION {r.unsatisfied : r \in parts}
        /\ EvaluateGroup(C, a).needs = UNION {r.needs : r \in parts}
        /\ EvaluateGroup(C, a).official = UNION {r.official : r \in parts}
    BY DEF EvaluateGroup, MergeAnd, Singles
  <1> HIDE DEF Or
  <1>2. \A r : r \in parts <=> \/ \E d \in C : d.group = NoGroup /\ r = EvaluateSingle(d, a)
                              \/ \E d \in C : d.group # NoGroup /\ r = Or(d.group)
    BY DEF Singles, Or
  <1> HIDE DEF parts
  <1>3. /\ \A g : c \in Or(g).satisfied <=> c \in C /\ c.group = g /\ Met(c, a)
        /\ \A g : c \in Or(g).unsatisfied
             <=> c \in C /\ c.group = g /\ \A d \in C : d.group = g => Result(d, a) = "UNMET"
        /\ \A g : c \in Or(g).needs
             <=> /\ c \in C /\ c.group = g /\ Result(c, a) = "UNKNOWN"
                 /\ \A d \in C : d.group = g => Result(d, a) # "MET"
        /\ \A g : c \in Or(g).official
             <=> /\ c \in C /\ c.group = g /\ Result(c, a) = "OFFICIAL"
                 /\ \A d \in C : d.group = g => Result(d, a) \notin {"MET", "UNKNOWN"}
    BY OrEvidence DEF Or
  <1>4. /\ \A d : c \in EvaluateSingle(d, a).satisfied <=> c = d /\ Met(d, a)
        /\ \A d : c \in EvaluateSingle(d, a).unsatisfied <=> c = d /\ Result(d, a) = "UNMET"
        /\ \A d : c \in EvaluateSingle(d, a).needs <=> c = d /\ Result(d, a) = "UNKNOWN"
        /\ \A d : c \in EvaluateSingle(d, a).official <=> c = d /\ Result(d, a) = "OFFICIAL"
    BY SingleEvidence
  <1>5. c \in UNION {r.satisfied : r \in parts} <=> c \in C /\ Met(c, a)
    BY <1>2, <1>3, <1>4
  <1>6. c \in UNION {r.unsatisfied : r \in parts}
          <=> c \in C /\ \A d \in Peers(C, c) : Result(d, a) = "UNMET"
    BY <1>2, <1>3, <1>4 DEF Peers
  <1>7. c \in UNION {r.needs : r \in parts}
          <=> /\ c \in C /\ Result(c, a) = "UNKNOWN"
              /\ \A d \in Peers(C, c) : Result(d, a) # "MET"
    BY <1>2, <1>3, <1>4 DEF Peers
  <1>8. c \in UNION {r.official : r \in parts}
          <=> /\ c \in C /\ Result(c, a) = "OFFICIAL"
              /\ \A d \in Peers(C, c) : Result(d, a) \notin {"MET", "UNKNOWN"}
    BY <1>2, <1>3, <1>4 DEF Peers
  <1> QED  BY <1>1, <1>5, <1>6, <1>7, <1>8

-----------------------------------------------------------------------------
(* The reference.  What counts is which results the alternatives have.     *)

LEMMA HoldsByPeers ==
    ASSUME NEW C, NEW S
    PROVE  HoldsWithout(C, S) <=> \A c \in C : \E d \in Peers(C, c) : d \notin S
  BY DEF HoldsWithout, Peers

\* The reference calls a condition open or failing by the answers alone; the
\* rules come to the same result.
LEMMA OpenByResult ==
    ASSUME NEW c
    PROVE  /\ Open(c) <=> Result(c, answers) \in {"UNKNOWN", "OFFICIAL"}
           /\ Open(c) /\ ~ c.official <=> Result(c, answers) = "UNKNOWN"
           /\ Fails(c) <=> Result(c, answers) = "UNMET"
  BY SingleResult DEF Open, Fails

\* A condition is its own alternative, and alternatives have the same ones.
LEMMA PeersAreMutual ==
    ASSUME NEW C, NEW c \in C
    PROVE  /\ c \in Peers(C, c)
           /\ \A d \in Peers(C, c) : d \in C /\ Peers(C, d) = Peers(C, c)
  BY DEF Peers

\* The policy fails already exactly when some condition is listed as failed.
LEMMA FailsByEvidence ==
    ASSUME NEW C
    PROVE  HoldsWithout(C, Failing(C)) <=> EvaluateGroup(C, answers).unsatisfied = {}
  <1>1. \A d \in C : d \in Failing(C) <=> Result(d, answers) = "UNMET"
    BY OpenByResult DEF Failing
  <1>2. \A c : c \in EvaluateGroup(C, answers).unsatisfied
                 <=> c \in C /\ \A d \in Peers(C, c) : Result(d, answers) = "UNMET"
    BY GroupEvidence
  <1>3. \A c \in C : Peers(C, c) \subseteq C
    BY PeersAreMutual
  <1> QED  BY <1>1, <1>2, <1>3, HoldsByPeers

\* When nothing failed, an answer can still matter exactly when its condition
\* is listed as unknown.
LEMMA AskedMatters ==
    ASSUME NEW C, NEW c \in C, Result(c, answers) = "UNKNOWN",
           EvaluateGroup(C, answers).unsatisfied = {}
    PROVE  Matters(c, C) <=> c \in EvaluateGroup(C, answers).needs
  <1> DEFINE F == Failing(C)
             O == OpenOf(C)
             R(d) == Result(d, answers)
  <1>1. \A d \in C : /\ d \in F <=> R(d) = "UNMET"
                     /\ d \in O <=> R(d) \in {"UNKNOWN", "OFFICIAL"}
                     /\ R(d) \in {"MET", "UNKNOWN", "OFFICIAL", "UNMET"}
    BY OpenByResult, SingleResult DEF Failing, OpenOf
  <1>2. F \subseteq C /\ O \subseteq C
    BY DEF Failing, OpenOf
  <1>3. \A d \in C : \E e \in Peers(C, d) : e \notin F
    BY FailsByEvidence, HoldsByPeers
  <1>4. c \in EvaluateGroup(C, answers).needs <=> \A d \in Peers(C, c) : R(d) # "MET"
    BY GroupEvidence
  <1>5. \A d \in C : /\ d \in Peers(C, d)
                     /\ \A e \in Peers(C, d) : e \in C /\ Peers(C, e) = Peers(C, d)
    BY PeersAreMutual
  <1>6. Matters(c, C) <=>
          \E S \in SUBSET (O \ {c}) : ~ (HoldsWithout(C, F \cup S) <=> HoldsWithout(C, F \cup S \cup {c}))
    BY DEF Matters, HoldsWithout
  <1> HIDE DEF F, O, R
  <1>7. ASSUME \A d \in Peers(C, c) : R(d) # "MET"
        PROVE  Matters(c, C)
    <2> DEFINE S == (O \cap Peers(C, c)) \ {c}
    <2>1. S \in SUBSET (O \ {c})
      OBVIOUS
    <2>2. HoldsWithout(C, F \cup S)
      <3>1. c \notin F
        BY <1>1 DEF R
      <3>2. ASSUME NEW d \in C
            PROVE  \E e \in Peers(C, d) : e \notin F \cup S
        <4>1. CASE d \in Peers(C, c)
          BY <3>1, <4>1, <1>5
        <4>2. CASE d \notin Peers(C, c)
          BY <4>2, <1>3, <1>5
        <4> QED  BY <4>1, <4>2
      <3> QED  BY <3>2, HoldsByPeers
    <2>3. ~ HoldsWithout(C, F \cup S \cup {c})
      <3>1. \A e \in Peers(C, c) : e \in F \cup S \cup {c}
        BY <1>1, <1>5, <1>7
      <3> QED  BY <3>1, HoldsByPeers
    <2> QED  BY <1>6, <2>1, <2>2, <2>3
  <1>8. ASSUME NEW d \in Peers(C, c), R(d) = "MET"
        PROVE  ~ Matters(c, C)
    <2>1. d \notin F /\ d \notin O /\ d # c
      BY <1>1, <1>5, <1>8 DEF R
    <2>2. ASSUME NEW S \in SUBSET (O \ {c}), HoldsWithout(C, F \cup S)
          PROVE  HoldsWithout(C, F \cup S \cup {c})
      <3>1. ASSUME NEW e \in C
            PROVE  \E x \in Peers(C, e) : x \notin F \cup S \cup {c}
        <4>1. CASE e \in Peers(C, c)
          BY <2>1, <4>1, <1>5
        <4>2. CASE e \notin Peers(C, c)
          BY <2>2, <4>2, <1>5, HoldsByPeers
        <4> QED  BY <4>1, <4>2
      <3> QED  BY <3>1, HoldsByPeers
    <2>3. ASSUME NEW S, HoldsWithout(C, F \cup S \cup {c})
          PROVE  HoldsWithout(C, F \cup S)
      BY <2>3, HoldsByPeers
    <2> QED  BY <1>6, <2>2, <2>3
  <1> QED  BY <1>4, <1>7, <1>8

\* Nothing is left open exactly when every outcome satisfies the policy.
LEMMA HoldsByEvidence ==
    ASSUME NEW C, EvaluateGroup(C, answers).unsatisfied = {}
    PROVE  HoldsWithout(C, Failing(C) \cup OpenOf(C)) <=>
             /\ EvaluateGroup(C, answers).needs = {}
             /\ EvaluateGroup(C, answers).official = {}
  <1> DEFINE R(d) == Result(d, answers)
             E == EvaluateGroup(C, answers)
  <1>1. \A d \in C : /\ d \in Failing(C) \cup OpenOf(C) <=> R(d) # "MET"
                     /\ R(d) \in {"MET", "UNKNOWN", "OFFICIAL", "UNMET"}
    BY OpenByResult, SingleResult DEF Failing, OpenOf
  <1>2. \A c \in C : /\ c \in E.unsatisfied <=> \A d \in Peers(C, c) : R(d) = "UNMET"
                     /\ c \in E.needs <=> /\ R(c) = "UNKNOWN"
                                          /\ \A d \in Peers(C, c) : R(d) # "MET"
                     /\ c \in E.official <=> /\ R(c) = "OFFICIAL"
                                             /\ \A d \in Peers(C, c) : R(d) \notin {"MET", "UNKNOWN"}
    BY GroupEvidence
  <1>3. E.needs \subseteq C /\ E.official \subseteq C
    BY GroupEvidence
  <1>4. \A d \in C : \A e \in Peers(C, d) : e \in C /\ Peers(C, e) = Peers(C, d)
    BY PeersAreMutual
  <1>5. E.unsatisfied = {}
    OBVIOUS
  <1> HIDE DEF R, E
  <1>6. (\A c \in C : \E d \in Peers(C, c) : R(d) = "MET") <=> E.needs = {} /\ E.official = {}
    <2>1. ASSUME \A c \in C : \E d \in Peers(C, c) : R(d) = "MET"
          PROVE  E.needs = {} /\ E.official = {}
      BY <2>1, <1>2, <1>3
    <2>2. ASSUME E.needs = {}, E.official = {}, NEW c \in C
          PROVE  \E d \in Peers(C, c) : R(d) = "MET"
      BY <2>2, <1>1, <1>2, <1>4, <1>5
    <2> QED  BY <2>1, <2>2
  <1>7. HoldsWithout(C, Failing(C) \cup OpenOf(C)) <=> \A c \in C : \E d \in Peers(C, c) : R(d) = "MET"
    BY <1>1, <1>4, HoldsByPeers
  <1> QED  BY <1>6, <1>7 DEF E

\* RulesAgreeWithReference holds of any list of conditions.
LEMMA StatusIsReference ==
    ASSUME NEW C
    PROVE  EvaluateConditionGroup(C, answers).status = ReferenceStatus(C)
  <1> DEFINE E == EvaluateGroup(C, answers)
             asked == {c \in C : Open(c) /\ ~ c.official}
  <1>1. EvaluateConditionGroup(C, answers).status = StatusFromEvidence(E)
    BY DEF EvaluateConditionGroup, Evaluation
  <1>2. HoldsWithout(C, Failing(C)) <=> E.unsatisfied = {}
    BY FailsByEvidence
  <1>3. CASE E.unsatisfied # {}
    BY <1>1, <1>2, <1>3 DEF StatusFromEvidence, ReferenceStatus
  <1>4. CASE E.unsatisfied = {}
    <2>1. HoldsWithout(C, Failing(C) \cup OpenOf(C)) <=> E.needs = {} /\ E.official = {}
      BY <1>4, HoldsByEvidence
    <2>2. (\E c \in asked : Matters(c, C)) <=> E.needs # {}
      <3>1. \A c \in asked : c \in C /\ Result(c, answers) = "UNKNOWN"
        BY OpenByResult
      <3>2. \A c \in E.needs : c \in asked
        BY GroupEvidence, OpenByResult
      <3>3. \A c \in asked : Matters(c, C) <=> c \in E.needs
        BY <1>4, <3>1, AskedMatters
      <3> QED  BY <3>2, <3>3
    <2>3. ReferenceStatus(C) =
            IF HoldsWithout(C, Failing(C) \cup OpenOf(C)) THEN "LIKELY_ELIGIBLE"
            ELSE IF \E c \in asked : Matters(c, C) THEN "NEEDS_CONFIRMATION"
            ELSE "OFFICIAL_CONFIRMATION_REQUIRED"
      BY <1>2, <1>4 DEF ReferenceStatus
    <2> HIDE DEF E, asked
    <2> QED  BY <1>1, <1>4, <2>1, <2>2, <2>3 DEF StatusFromEvidence
  <1> QED  BY <1>3, <1>4

\* The merging of AND and OR groups in rules.py decides what the answers decide
\* and nothing else, for every list of conditions and all answers: an invariant
\* of the rules, whatever state they are asked in.
THEOREM RulesDecideWhatAnswersDecide == Spec => []RulesAgreeWithReference
  <1>1. RulesAgreeWithReference
    BY StatusIsReference DEF RulesAgreeWithReference
  <1> QED  BY <1>1, PTL

\* needsConfirmation lists exactly the conditions whose answers can still
\* matter, for every list of conditions and all answers.
THEOREM QuestionsStillMatter == Spec => []OnlyWhatMattersIsAsked
  <1>1. ASSUME NEW C, ReferenceStatus(C) = "NEEDS_CONFIRMATION"
        PROVE  EvaluateConditionGroup(C, answers).evidence.needs =
                 {c \in C : Open(c) /\ ~ c.official /\ Matters(c, C)}
    <2> DEFINE E == EvaluateGroup(C, answers)
    <2>1. EvaluateConditionGroup(C, answers).evidence = E
      BY DEF EvaluateConditionGroup, Evaluation
    <2>2. E.unsatisfied = {}
      BY <1>1, FailsByEvidence DEF ReferenceStatus
    <2>3. \A c : c \in E.needs => c \in C /\ Result(c, answers) = "UNKNOWN"
      BY GroupEvidence
    <2>4. \A c \in C : Result(c, answers) = "UNKNOWN" => (Matters(c, C) <=> c \in E.needs)
      BY <2>2, AskedMatters
    <2>5. \A c \in C : Result(c, answers) = "UNKNOWN" <=> Open(c) /\ ~ c.official
      BY OpenByResult
    <2> HIDE DEF E
    <2> QED  BY <2>1, <2>3, <2>4, <2>5
  <1>2. OnlyWhatMattersIsAsked
    BY <1>1 DEF OnlyWhatMattersIsAsked
  <1> QED  BY <1>2, PTL

\* A status that is decided survives every further answer.
LEMMA DecidedStays ==
    ASSUME NEW C, NEW a, NEW b,
           \A c \in C : a[c.field] \in {NoAnswer, b[c.field]},
           EvaluateConditionGroup(C, a).status # "NEEDS_CONFIRMATION"
    PROVE  EvaluateConditionGroup(C, b).status = EvaluateConditionGroup(C, a).status
  <1> DEFINE R(d) == Result(d, a)
             Q(d) == Result(d, b)
             E == EvaluateGroup(C, a)
             G == EvaluateGroup(C, b)
  <1>1. /\ EvaluateConditionGroup(C, a).status = StatusFromEvidence(E)
        /\ EvaluateConditionGroup(C, b).status = StatusFromEvidence(G)
    BY DEF EvaluateConditionGroup, Evaluation
  <1>2. \A d \in C : /\ R(d) \in {"MET", "UNKNOWN", "OFFICIAL", "UNMET"}
                     /\ Q(d) \in {"MET", "UNKNOWN", "OFFICIAL", "UNMET"}
                     /\ Q(d) = "UNKNOWN" => R(d) = "UNKNOWN"
                     /\ Q(d) # R(d) => R(d) = "UNKNOWN" /\ Q(d) # "OFFICIAL"
    BY SingleResult
  <1>3. \A c : /\ c \in E.unsatisfied <=> c \in C /\ \A d \in Peers(C, c) : R(d) = "UNMET"
               /\ c \in E.needs <=> /\ c \in C /\ R(c) = "UNKNOWN"
                                    /\ \A d \in Peers(C, c) : R(d) # "MET"
               /\ c \in E.official <=> /\ c \in C /\ R(c) = "OFFICIAL"
                                       /\ \A d \in Peers(C, c) : R(d) \notin {"MET", "UNKNOWN"}
    BY GroupEvidence
  <1>4. \A c : /\ c \in G.unsatisfied <=> c \in C /\ \A d \in Peers(C, c) : Q(d) = "UNMET"
               /\ c \in G.needs <=> /\ c \in C /\ Q(c) = "UNKNOWN"
                                    /\ \A d \in Peers(C, c) : Q(d) # "MET"
               /\ c \in G.official <=> /\ c \in C /\ Q(c) = "OFFICIAL"
                                       /\ \A d \in Peers(C, c) : Q(d) \notin {"MET", "UNKNOWN"}
    BY GroupEvidence
  <1>5. \A c \in C : /\ c \in Peers(C, c)
                     /\ \A d \in Peers(C, c) : d \in C /\ Peers(C, d) = Peers(C, c)
    BY PeersAreMutual
  <1>6. E.unsatisfied # {} \/ (E.unsatisfied = {} /\ E.needs = {})
    BY <1>1 DEF StatusFromEvidence
  <1> HIDE DEF R, Q, E, G
  <1>7. CASE E.unsatisfied # {}
    <2>1. G.unsatisfied # {}
      BY <1>2, <1>3, <1>4, <1>5, <1>7
    <2> QED  BY <1>1, <1>7, <2>1 DEF StatusFromEvidence
  <1>8. CASE E.unsatisfied = {} /\ E.needs = {}
    \* Without an alternative that is met, none was open, and none can fail now.
    <2>1. \A c \in C : (\A d \in Peers(C, c) : R(d) # "MET") =>
                          \A d \in Peers(C, c) : R(d) # "UNKNOWN" /\ Q(d) = R(d)
      BY <1>2, <1>3, <1>5, <1>8
    <2>2. \A c \in C : (\E d \in Peers(C, c) : R(d) = "MET") =>
                          \E d \in Peers(C, c) : Q(d) = "MET"
      BY <1>2, <1>5
    <2>3. G.unsatisfied = {}
      BY <1>3, <1>4, <1>8, <2>1, <2>2
    <2>4. G.needs = {}
      BY <1>2, <1>4, <1>5, <2>1, <2>2
    <2>5. G.official = E.official
      <3>1. ASSUME NEW c
            PROVE  c \in G.official <=> c \in E.official
        BY <1>3, <1>4, <1>5, <2>1, <2>2
      <3> QED  BY <3>1
    <2> QED  BY <1>1, <1>8, <2>3, <2>4, <2>5 DEF StatusFromEvidence
  <1> QED  BY <1>6, <1>7, <1>8

\* Once the rules have said more than NEEDS_CONFIRMATION, answers to questions
\* that were open never change what they say, for every list of conditions.
THEOREM DecisionsAreFinal == Spec => DecidedStatusesAreFinal
  <1>1. ASSUME NEW C \in ConditionSets, OpenAnswersOnly,
               EvaluateConditionGroup(C, answers).status # "NEEDS_CONFIRMATION"
        PROVE  EvaluateConditionGroup(C, answers').status = EvaluateConditionGroup(C, answers).status
    <2>1. \A c \in C : c.field \in Fields
      BY RecommendationsAssumption
    <2>2. \A c \in C : answers[c.field] \in {NoAnswer, answers'[c.field]}
      BY <1>1, <2>1 DEF OpenAnswersOnly
    <2> QED  BY <1>1, <2>2, DecidedStays
  <1>2. [ \A conditions \in ConditionSets :
            LET status == EvaluateConditionGroup(conditions, answers).status
            IN  OpenAnswersOnly /\ Decides(conditions) /\ Decides(conditions)'
                /\ status # "NEEDS_CONFIRMATION"
                => EvaluateConditionGroup(conditions, answers').status = status ]_vars
    BY <1>1
  <1> QED  BY <1>2, PTL DEF Spec, DecidedStatusesAreFinal

-----------------------------------------------------------------------------
(* Stored evaluations.                                                     *)

\* A score is the one its status and its evidence make, and a condition is
\* listed once.
ScoreIsDue(e) ==
    /\ e.status = StatusFromEvidence(e.evidence)
    /\ e.score = Score(e.status, e.evidence)
    /\ e.evidence.official = {}
    /\ e.evidence.satisfied \cap e.evidence.needs = {}
    /\ e.evidence.satisfied \cap e.evidence.unsatisfied = {}
    /\ e.evidence.needs \cap e.evidence.unsatisfied = {}

\* The evidence is that of the answers a.
TellsOf(evidence, a) ==
    /\ \A c \in evidence.satisfied \cup evidence.unsatisfied : a[c.field] # NoAnswer
    /\ \A c \in evidence.needs : a[c.field] = NoAnswer

\* What holds of every evaluation that is stored.  An evaluation of a policy
\* that was withdrawn survives a reset of the answers, a stale one a change.
EvaluationsInv ==
    \A p \in Policies : stored[p] # NoEvaluation =>
        /\ PolicyCategory[p] = Category
        /\ Compared(p) => ScoreIsDue(stored[p])
        /\ p \in active /\ stored[p].state = "ACTIVE" => TellsOf(stored[p].evidence, answers)

Inv == TypeOK /\ EvaluationsInv

\* The evidence of a policy's conditions.
LEMMA EvidenceType ==
    ASSUME NEW C, NEW a
    PROVE  EvaluateGroup(C, a) \in EvidenceFrom(C)
  <1>1. EvaluateGroup(C, a) = [ satisfied |-> EvaluateGroup(C, a).satisfied,
                                unsatisfied |-> EvaluateGroup(C, a).unsatisfied,
                                needs |-> EvaluateGroup(C, a).needs,
                                official |-> EvaluateGroup(C, a).official ]
    BY DEF EvaluateGroup, MergeAnd
  <1>2. /\ EvaluateGroup(C, a).satisfied \subseteq C
        /\ EvaluateGroup(C, a).unsatisfied \subseteq C
        /\ EvaluateGroup(C, a).needs \subseteq C
        /\ EvaluateGroup(C, a).official \subseteq C
    <2>1. \A c : c \in EvaluateGroup(C, a).satisfied => c \in C
      BY GroupEvidence
    <2>2. \A c : c \in EvaluateGroup(C, a).unsatisfied => c \in C
      BY GroupEvidence
    <2>3. \A c : c \in EvaluateGroup(C, a).needs => c \in C
      BY GroupEvidence
    <2>4. \A c : c \in EvaluateGroup(C, a).official => c \in C
      BY GroupEvidence
    <2> QED  BY <2>1, <2>2, <2>3, <2>4
  <1> QED  BY <1>1, <1>2 DEF EvidenceFrom

\* A policy has at most as many conditions as rules, none of them official and
\* none in a group.
LEMMA ConditionsOfRules ==
    ASSUME NEW p \in Policies
    PROVE  /\ IsFiniteSet(Conditions(p))
           /\ Cardinality(Conditions(p)) <= Cardinality(PolicyRules[p])
           /\ \A c \in Conditions(p) : c.field \in Fields /\ c.group = NoGroup /\ ~ c.official
  <1> DEFINE f == [r \in PolicyRules[p] |-> ConditionFromPolicyRule(r)]
  <1>1. f \in Surjection(PolicyRules[p], Conditions(p))
    <2>1. f \in [PolicyRules[p] -> Conditions(p)]
      BY DEF Conditions
    <2>2. \A c \in Conditions(p) : \E r \in PolicyRules[p] : f[r] = c
      BY DEF Conditions
    <2> QED  BY <2>1, <2>2 DEF Surjection
  <1>2. IsFiniteSet(PolicyRules[p])
    BY RecommendationsAssumption
  <1>3. \A r \in PolicyRules[p] :
          /\ ConditionFromPolicyRule(r).field = r.field
          /\ ConditionFromPolicyRule(r).group = NoGroup
          /\ ConditionFromPolicyRule(r).official = FALSE
    BY DEF ConditionFromPolicyRule
  <1>4. \A r \in PolicyRules[p] : r.field \in Fields
    BY RecommendationsAssumption
  <1>5. \A c \in Conditions(p) : c.field \in Fields /\ c.group = NoGroup /\ ~ c.official
    BY <1>3, <1>4 DEF Conditions
  <1> HIDE DEF f
  <1> QED  BY <1>1, <1>2, <1>5, FS_Surjection

\* A count of evidence is a number.
LEMMA EvidenceCounts ==
    ASSUME NEW p \in Policies, NEW S \in SUBSET Conditions(p)
    PROVE  IsFiniteSet(S) /\ Cardinality(S) \in Nat
  BY ConditionsOfRules, FS_Subset, FS_CardinalityType

LEMMA ScoreType ==
    ASSUME NEW p \in Policies, NEW E \in EvidenceFrom(Conditions(p)), NEW status \in RuleStatuses
    PROVE  Score(status, E) \in Int
  <1>1. /\ Cardinality(E.satisfied) \in Int /\ Cardinality(E.unsatisfied) \in Int
        /\ Cardinality(E.needs) \in Int /\ Cardinality(E.official) \in Int
    BY EvidenceCounts DEF EvidenceFrom
  <1>2. Base(status) \in Int
    BY DEF Base, RuleStatuses
  <1> QED  BY <1>1, <1>2 DEF Score, Points

\* What an evaluation of a policy says, inside its period and outside.
LEMMA EvaluationOfPolicy ==
    ASSUME NEW p \in Policies
    PROVE  LET e == EvaluatePolicy(p)
           IN  /\ e.status \in EligibilityStatuses /\ e.score \in Int
               /\ e.evidence \in EvidenceFrom(Conditions(p))
               /\ e.evidence # NoEvidence => ScoreIsDue(e)
               /\ TellsOf(e.evidence, answers)
  <1> DEFINE C == Conditions(p)
             E == EvaluateGroup(C, answers)
             e == EvaluatePolicy(p)
  <1>1. CASE e = Evaluation("LIKELY_INELIGIBLE", -1000, NoEvidence)
    BY <1>1 DEF Evaluation, EligibilityStatuses, RuleStatuses, NoEvidence, EvidenceFrom, TellsOf
  <1>2. CASE e = Evaluation("AVAILABLE_LATER", -100, NoEvidence)
    BY <1>2 DEF Evaluation, EligibilityStatuses, RuleStatuses, NoEvidence, EvidenceFrom, TellsOf
  <1>3. CASE e = EvaluateConditionGroup(C, answers)
    <2>1. /\ e.status = StatusFromEvidence(E)
          /\ e.score = Score(StatusFromEvidence(E), E)
          /\ e.evidence = E
      BY <1>3 DEF EvaluateConditionGroup, Evaluation
    <2>2. StatusFromEvidence(E) \in RuleStatuses
      BY DEF StatusFromEvidence, RuleStatuses
    <2>3. E \in EvidenceFrom(C)
      BY EvidenceType
    <2>4. \A c : /\ c \in E.satisfied => c \in C /\ Met(c, answers)
                 /\ c \in E.unsatisfied => c \in C /\ Result(c, answers) = "UNMET"
                 /\ c \in E.needs => c \in C /\ Result(c, answers) = "UNKNOWN"
                 /\ c \in E.official => c \in C /\ Result(c, answers) = "OFFICIAL"
      <3>1. \A c \in C : c \in Peers(C, c)
        BY PeersAreMutual
      <3> QED  BY <3>1, GroupEvidence
    <2>5. \A c \in C : /\ Result(c, answers) # "OFFICIAL"
                       /\ Met(c, answers) => Result(c, answers) = "MET" /\ answers[c.field] # NoAnswer
                       /\ Result(c, answers) = "UNMET" => answers[c.field] # NoAnswer
                       /\ Result(c, answers) = "UNKNOWN" => answers[c.field] = NoAnswer
      BY ConditionsOfRules, SingleResult DEF Met
    <2> HIDE DEF E, e, C
    <2>6. ScoreIsDue(e)
      BY <2>1, <2>4, <2>5 DEF ScoreIsDue
    <2>7. TellsOf(e.evidence, answers)
      BY <2>1, <2>4, <2>5 DEF TellsOf
    <2>8. e.score \in Int
      BY <2>1, <2>2, <2>3, ScoreType DEF C
    <2> QED  BY <2>1, <2>2, <2>3, <2>6, <2>7, <2>8 DEF EligibilityStatuses, C, e
  <1> QED  BY <1>1, <1>2, <1>3 DEF EvaluatePolicy, EvaluateConditions

LEMMA InvInit == Init => Inv
  <1> SUFFICES ASSUME Init PROVE Inv
    OBVIOUS
  <1>1. TypeOK
    BY RecommendationsAssumption DEF Init, TypeOK
  <1>2. EvaluationsInv
    BY DEF Init, EvaluationsInv
  <1> QED  BY <1>1, <1>2 DEF Inv

\* Marking an evaluation stale changes nothing it says.
LEMMA StaleKeeps ==
    ASSUME TypeOK, NEW p \in Policies, Stale(stored[p]) # NoEvaluation
    PROVE  /\ stored[p] # NoEvaluation
           /\ Stale(stored[p]) \in StoredEvaluations(p)
           /\ Stale(stored[p]).state = "STALE"
           /\ Stale(stored[p]).status = stored[p].status
           /\ Stale(stored[p]).score = stored[p].score
           /\ Stale(stored[p]).evidence = stored[p].evidence
  <1>1. stored[p] # NoEvaluation
    BY DEF Stale
  <1>2. stored[p] \in StoredEvaluations(p)
    BY <1>1 DEF TypeOK
  <1>3. Stale(stored[p]) = [stored[p] EXCEPT !.state = "STALE"]
    BY <1>1 DEF Stale
  <1> QED  BY <1>1, <1>2, <1>3 DEF StoredEvaluations

\* An answer makes every evaluation stale.
LEMMA PutAnswerInv ==
    ASSUME Inv, NEW f \in Fields, NEW v \in Options[f], PutAnswer(f, v)
    PROVE  Inv'
  <1> USE DEF Inv
  <1>1. v \in Value
    BY RecommendationsAssumption
  <1>2. /\ DOMAIN stored' = Policies
        /\ \A p \in Policies : stored'[p] = Stale(stored[p])
    BY DEF PutAnswer
  <1>3. \A p \in Policies : stored'[p] \in StoredEvaluations(p) \cup {NoEvaluation}
    BY <1>2, StaleKeeps
  <1>4. /\ answers' \in [Fields -> Value \cup {NoAnswer}]
        /\ \A g \in Fields : answers'[g] \in Options[g] \cup {NoAnswer}
    BY <1>1 DEF PutAnswer, TypeOK
  <1>5. TypeOK'
    BY <1>2, <1>3, <1>4 DEF PutAnswer, TypeOK, StoredEvaluations, Conditions
  <1>6. ASSUME NEW p \in Policies, stored'[p] # NoEvaluation
        PROVE  /\ PolicyCategory[p] = Category
               /\ Compared(p)' => ScoreIsDue(stored'[p])
               /\ stored'[p].state # "ACTIVE"
    <2>1. stored[p] # NoEvaluation /\ PolicyCategory[p] = Category
      BY <1>2, <1>6, StaleKeeps DEF EvaluationsInv
    <2>2. /\ stored'[p].state = "STALE"
          /\ stored'[p].status = stored[p].status
          /\ stored'[p].score = stored[p].score
          /\ stored'[p].evidence = stored[p].evidence
      BY <1>2, <1>6, StaleKeeps
    <2>3. Compared(p) => ScoreIsDue(stored[p])
      BY <2>1 DEF EvaluationsInv
    <2> QED  BY <2>1, <2>2, <2>3 DEF Compared, ScoreIsDue
  <1>7. EvaluationsInv'
    BY <1>6 DEF EvaluationsInv
  <1> QED  BY <1>5, <1>7

\* A request for evaluations makes them anew, for the policies of the category.
LEMMA EvaluateInv ==
    ASSUME Inv, Evaluate
    PROVE  Inv'
  <1> USE DEF Inv
  <1>1. ASSUME NEW p \in Policies, p \in Evaluable
        PROVE  /\ stored'[p] \in StoredEvaluations(p)
               /\ PolicyCategory[p] = Category
               /\ Compared(p)' => ScoreIsDue(stored'[p])
               /\ TellsOf(stored'[p].evidence, answers)
    <2> DEFINE e == EvaluatePolicy(p)
    <2>1. stored'[p] = [state |-> "ACTIVE", status |-> e.status, score |-> e.score,
                        evidence |-> e.evidence]
      BY <1>1 DEF Evaluate, StoredEvaluation
    <2>2. /\ e.status \in EligibilityStatuses /\ e.score \in Int
          /\ e.evidence \in EvidenceFrom(Conditions(p))
          /\ e.evidence # NoEvidence => ScoreIsDue(e)
          /\ TellsOf(e.evidence, answers)
      BY EvaluationOfPolicy
    <2>3. PolicyCategory[p] = Category
      BY <1>1 DEF Evaluable
    <2> HIDE DEF e
    <2> QED  BY <2>1, <2>2, <2>3 DEF StoredEvaluations, Compared, ScoreIsDue
  <1>2. /\ DOMAIN stored' = Policies
        /\ \A p \in Policies : p \notin Evaluable => stored'[p] = stored[p]
        /\ UNCHANGED <<today, answers, active>>
    BY DEF Evaluate
  <1>3. TypeOK'
    <2>1. \A p \in Policies : stored'[p] \in StoredEvaluations(p) \cup {NoEvaluation}
      BY <1>1, <1>2 DEF TypeOK
    <2> QED  BY <1>2, <2>1 DEF TypeOK, StoredEvaluations, Conditions
  <1>4. ASSUME NEW p \in Policies, stored'[p] # NoEvaluation
        PROVE  /\ PolicyCategory[p] = Category
               /\ Compared(p)' => ScoreIsDue(stored'[p])
               /\ p \in active' /\ stored'[p].state = "ACTIVE" => TellsOf(stored'[p].evidence, answers')
    <2>1. CASE p \in Evaluable
      BY <1>1, <1>2, <2>1
    <2>2. CASE p \notin Evaluable
      BY <1>2, <1>4, <2>2 DEF EvaluationsInv, Compared
    <2> QED  BY <2>1, <2>2
  <1>5. EvaluationsInv'
    BY <1>4 DEF EvaluationsInv
  <1> QED  BY <1>3, <1>5

\* A reset deletes the answers and the evaluations of the active policies of
\* the category: there are no others that are active.
LEMMA ResetInv ==
    ASSUME Inv, Reset
    PROVE  Inv'
  <1> USE DEF Inv
  <1>1. /\ DOMAIN stored' = Policies
        /\ \A p \in Policies : stored'[p] = IF p \in active /\ PolicyCategory[p] = Category
                                            THEN NoEvaluation ELSE stored[p]
        /\ UNCHANGED <<today, active>>
    BY DEF Reset
  <1>2. TypeOK'
    BY <1>1 DEF Reset, TypeOK, StoredEvaluations, Conditions
  <1>3. ASSUME NEW p \in Policies, stored'[p] # NoEvaluation
        PROVE  /\ PolicyCategory[p] = Category
               /\ Compared(p)' => ScoreIsDue(stored'[p])
               /\ p \notin active'
    BY <1>1, <1>3 DEF EvaluationsInv, Compared
  <1>4. EvaluationsInv'
    BY <1>3 DEF EvaluationsInv
  <1> QED  BY <1>2, <1>4

LEMMA InvNext == Inv /\ [Next]_vars => Inv'
  <1> SUFFICES ASSUME Inv, [Next]_vars PROVE Inv'
    OBVIOUS
  <1> USE DEF Inv
  <1>1. CASE NextDay
    <2>1. TypeOK'
      BY <1>1, RecommendationsAssumption DEF NextDay, TypeOK, StoredEvaluations, Conditions
    <2>2. EvaluationsInv'
      BY <1>1 DEF NextDay, EvaluationsInv, Compared
    <2> QED  BY <2>1, <2>2
  <1>2. ASSUME NEW p \in Withdrawable, Withdraw(p) PROVE Inv'
    <2>1. TypeOK'
      BY <1>2 DEF Withdraw, TypeOK, StoredEvaluations, Conditions
    <2>2. EvaluationsInv'
      BY <1>2 DEF Withdraw, EvaluationsInv, Compared
    <2> QED  BY <2>1, <2>2
  <1>3. CASE UNCHANGED vars
    <2>1. TypeOK'
      BY <1>3 DEF vars, TypeOK, StoredEvaluations, Conditions
    <2>2. EvaluationsInv'
      BY <1>3 DEF vars, EvaluationsInv, Compared
    <2> QED  BY <2>1, <2>2
  <1> QED  BY <1>1, <1>2, <1>3, PutAnswerInv, EvaluateInv, ResetInv DEF Next

LEMMA Invariance == Spec => []Inv
  BY InvInit, InvNext, PTL DEF Spec

\* Answers, evaluations and the day have their types in every reachable state,
\* and no evaluation cites a condition of another policy.
THEOREM TypeCorrect == Spec => []TypeOK
  <1>1. Inv => TypeOK
    BY DEF Inv
  <1> QED  BY <1>1, Invariance, PTL

-----------------------------------------------------------------------------
(* Scores and periods.                                                     *)

LEMMA DisjointUnion ==
    ASSUME NEW S, IsFiniteSet(S), NEW T, IsFiniteSet(T), S \cap T = {}
    PROVE  /\ IsFiniteSet(S \cup T)
           /\ Cardinality(S \cup T) = Cardinality(S) + Cardinality(T)
  <1> DEFINE both == S \cap T
  <1>1. /\ IsFiniteSet(S \cup T)
        /\ Cardinality(S \cup T) = Cardinality(S) + Cardinality(T) - Cardinality(both)
    BY FS_Union
  <1>2. Cardinality(S) \in Nat /\ Cardinality(T) \in Nat
    BY FS_CardinalityType
  <1>3. both = {}
    OBVIOUS
  <1> HIDE DEF both
  <1>4. Cardinality(both) = 0
    BY <1>3, FS_EmptySet
  <1> QED  BY <1>1, <1>2, <1>4

\* How much evidence there is: one entry for each condition at most.
LEMMA EvidenceIsBounded ==
    ASSUME FewRules, Inv, NEW p \in Policies, Compared(p),
           NEW s, s = Cardinality(stored[p].evidence.satisfied),
           NEW u, u = Cardinality(stored[p].evidence.unsatisfied),
           NEW n, n = Cardinality(stored[p].evidence.needs)
    PROVE  /\ s \in Nat /\ u \in Nat /\ n \in Nat
           /\ s + u + n <= 42
           /\ s = 0 <=> stored[p].evidence.satisfied = {}
           /\ u = 0 <=> stored[p].evidence.unsatisfied = {}
           /\ n = 0 <=> stored[p].evidence.needs = {}
  <1> DEFINE E == stored[p].evidence
             C == Conditions(p)
  <1>1. E.satisfied \subseteq C /\ E.unsatisfied \subseteq C /\ E.needs \subseteq C
    BY DEF Inv, TypeOK, StoredEvaluations, EvidenceFrom, Compared
  <1>2. ScoreIsDue(stored[p])
    BY DEF Inv, EvaluationsInv, Compared
  <1>3. /\ E.satisfied \cap E.unsatisfied = {}
        /\ (E.satisfied \cup E.unsatisfied) \cap E.needs = {}
    BY <1>2 DEF ScoreIsDue
  <1>4. /\ IsFiniteSet(E.satisfied) /\ s \in Nat
        /\ IsFiniteSet(E.unsatisfied) /\ u \in Nat
        /\ IsFiniteSet(E.needs) /\ n \in Nat
    BY <1>1, EvidenceCounts
  <1> DEFINE SU == E.satisfied \cup E.unsatisfied
  <1>5. IsFiniteSet(SU) /\ Cardinality(SU) = s + u
    BY <1>3, <1>4, DisjointUnion
  <1>6. IsFiniteSet(SU \cup E.needs) /\ Cardinality(SU \cup E.needs) = s + u + n
    <2> HIDE DEF SU
    <2>1. SU \cap E.needs = {}
      BY <1>3 DEF SU
    <2> QED  BY <1>4, <1>5, <2>1, DisjointUnion
  <1>7. Cardinality(SU \cup E.needs) <= Cardinality(C)
    BY <1>1, ConditionsOfRules, FS_Subset
  <1>8. Cardinality(C) <= Cardinality(PolicyRules[p]) /\ Cardinality(PolicyRules[p]) <= 42
    BY ConditionsOfRules DEF FewRules
  <1>9. Cardinality(C) \in Nat /\ Cardinality(PolicyRules[p]) \in Nat
    BY ConditionsOfRules, RecommendationsAssumption, FS_CardinalityType
  <1>10. s + u + n <= 42
    BY <1>4, <1>6, <1>7, <1>8, <1>9
  <1> QED  BY <1>4, <1>10, FS_EmptySet

\* The scores of each status lie apart.
LEMMA ScoreBands ==
    ASSUME FewRules, Inv, NEW p \in Policies, Compared(p)
    PROVE  /\ stored[p].score \in Int
           /\ \/ stored[p].status = "LIKELY_ELIGIBLE" /\ 1010 <= stored[p].score
              \/ stored[p].status = "NEEDS_CONFIRMATION"
                 /\ 390 <= stored[p].score /\ stored[p].score <= 1005
              \/ stored[p].status = "LIKELY_INELIGIBLE" /\ stored[p].score <= 360
  <1> DEFINE e == stored[p]
             s == Cardinality(e.evidence.satisfied)
             u == Cardinality(e.evidence.unsatisfied)
             n == Cardinality(e.evidence.needs)
  <1>1. ScoreIsDue(e)
    BY DEF Inv, EvaluationsInv, Compared
  <1>2. /\ e.evidence \in EvidenceFrom(Conditions(p))
        /\ e.evidence # NoEvidence
    BY DEF Inv, TypeOK, StoredEvaluations, Compared
  <1>3. \/ e.evidence.satisfied # {} \/ e.evidence.unsatisfied # {} \/ e.evidence.needs # {}
    BY <1>1, <1>2 DEF ScoreIsDue, EvidenceFrom, NoEvidence
  <1>4. e.score = Base(e.status) + 10 * s - 5 * n - 3 * 0 - 50 * u
    BY <1>1, FS_EmptySet DEF ScoreIsDue, Score, Points
  <1>5. /\ s \in Nat /\ u \in Nat /\ n \in Nat
        /\ s + u + n <= 42
        /\ s = 0 <=> e.evidence.satisfied = {}
        /\ u = 0 <=> e.evidence.unsatisfied = {}
        /\ n = 0 <=> e.evidence.needs = {}
    BY EvidenceIsBounded
  <1>6. e.status = IF u # 0 THEN "LIKELY_INELIGIBLE"
                   ELSE IF n # 0 THEN "NEEDS_CONFIRMATION" ELSE "LIKELY_ELIGIBLE"
    BY <1>1, <1>5 DEF ScoreIsDue, StatusFromEvidence
  <1>7. /\ Base("LIKELY_INELIGIBLE") = 0
        /\ Base("NEEDS_CONFIRMATION") = 600
        /\ Base("LIKELY_ELIGIBLE") = 1000
    BY DEF Base
  <1> HIDE DEF s, u, n
  <1>8. CASE u # 0
    BY <1>4, <1>5, <1>6, <1>7, <1>8
  <1>9. CASE u = 0 /\ n # 0
    BY <1>4, <1>5, <1>6, <1>7, <1>9
  <1>10. CASE u = 0 /\ n = 0
    BY <1>3, <1>4, <1>5, <1>6, <1>7, <1>10
  <1> QED  BY <1>5, <1>8, <1>9, <1>10

\* The bound on the rules is exact: with one rule more, a policy of which 42
\* conditions are met and one is open passes one whose only condition is met.
LEMMA ScoresMeetAtFortyThree ==
    Points("NEEDS_CONFIRMATION", 42, 0, 1, 0) > Points("LIKELY_ELIGIBLE", 1, 0, 0, 0)
  BY DEF Points, Base

\* The list ordered by recommendation score never puts evidence of a worse
\* status first, as long as no policy has more than 42 rules: for all policies,
\* rules and answers.
THEOREM BetterStatusScoresMore == FewRules => (Spec => []ScoresRankByStatus)
  <1> SUFFICES ASSUME FewRules PROVE Spec => []ScoresRankByStatus
    OBVIOUS
  <1>1. Inv => ScoresRankByStatus
    <2> SUFFICES ASSUME Inv, NEW p \in Policies, NEW q \in Policies, Compared(p), Compared(q),
                        Band(stored[p].status) > Band(stored[q].status)
                 PROVE  stored[p].score > stored[q].score
      BY DEF ScoresRankByStatus
    <2>1. /\ Band("LIKELY_ELIGIBLE") = 3
          /\ Band("NEEDS_CONFIRMATION") = 1
          /\ Band("LIKELY_INELIGIBLE") = 0
      BY DEF Band
    <2> QED  BY <2>1, ScoreBands
  <1> QED  BY <1>1, Invariance, PTL

\* A policy is evaluated by its conditions on the first and the last day of its
\* period and between, for all periods; on other days its evaluation differs
\* from the one its conditions would make, whatever they are.
THEOREM PeriodsAreInclusive == Spec => []PeriodsIncludeBothEnds
  <1>1. Inv => PeriodsIncludeBothEnds
    <2> SUFFICES ASSUME Inv, NEW p \in Policies,
                        Period[p].starts # NoDate, Period[p].ends # NoDate
                 PROVE  today \in Period[p].starts..Period[p].ends
                          <=> EvaluatePolicy(p) = EvaluateConditionGroup(Conditions(p), answers)
      BY DEF PeriodsIncludeBothEnds
    <2> DEFINE starts == Period[p].starts
               ends == Period[p].ends
               G == EvaluateConditionGroup(Conditions(p), answers)
    <2>1. starts \in Nat /\ ends \in Nat /\ today \in Nat
      BY RecommendationsAssumption DEF Inv, TypeOK
    <2>2. PolicyWindow(p) = [starts |-> starts, ends |-> ends]
      BY DEF PolicyWindow, ParseApplicationPeriod
    <2>3. EvaluatePolicy(p) =
            IF today > ends THEN Evaluation("LIKELY_INELIGIBLE", -1000, NoEvidence)
            ELSE IF today < starts THEN Evaluation("AVAILABLE_LATER", -100, NoEvidence)
            ELSE G
      BY <2>2 DEF EvaluatePolicy, EvaluateConditions, Ended, NotStarted
    <2>4. G.evidence = NoEvidence => G.status = "LIKELY_ELIGIBLE"
      BY DEF EvaluateConditionGroup, Evaluation, StatusFromEvidence, NoEvidence
    <2>5. /\ G # Evaluation("LIKELY_INELIGIBLE", -1000, NoEvidence)
          /\ G # Evaluation("AVAILABLE_LATER", -100, NoEvidence)
      BY <2>4 DEF Evaluation
    <2> HIDE DEF G, starts, ends
    <2>6. today \in starts..ends <=> EvaluatePolicy(p) = G
      BY <2>1, <2>3, <2>5
    <2> QED  BY <2>6 DEF G, starts, ends
  <1> QED  BY <1>1, Invariance, PTL

-----------------------------------------------------------------------------
(* Graphs.                                                                 *)

\* The search to CenteredGraphMaxDepth, written out.
LEMMA AroundIsTwoSteps ==
    ASSUME NEW p, NEW relations, NEW x
    PROVE  x \in Around(p, relations, CenteredGraphMaxDepth) <=>
             \/ x = p
             \/ x \in Neighbours({p}, relations)
             \/ \E q \in Neighbours({p}, relations) : x \in Neighbours({q}, relations)
  <1> DEFINE one == {p} \cup Neighbours({p}, relations)
             two == one \cup Neighbours(one, relations)
             steps == [i \in 0..2 |-> IF i = 0 THEN {p} ELSE IF i = 1 THEN one ELSE two]
             Search(v) == v = [i \in 0..2 |-> IF i = 0 THEN {p}
                                              ELSE v[i - 1] \cup Neighbours(v[i - 1], relations)]
             visited == CHOOSE v : Search(v)
  <1>1. Search(steps)
    <2> HIDE DEF one, two
    <2>1. steps[0] = {p} /\ steps[1] = one /\ steps[2] = two
      OBVIOUS
    <2>2. one = {p} \cup Neighbours({p}, relations) /\ two = one \cup Neighbours(one, relations)
      BY DEF one, two
    <2> QED  BY <2>1, <2>2
  <1>2. Search(visited)
    BY <1>1
  <1>3. Around(p, relations, CenteredGraphMaxDepth) = visited[2]
    BY DEF Around, CenteredGraphMaxDepth
  <1> HIDE DEF visited
  <1>4. visited[2] = two
    <2>1. visited[0] = {p}
      BY <1>2
    <2>2. visited[1] = visited[0] \cup Neighbours(visited[0], relations)
      BY <1>2
    <2>3. visited[2] = visited[1] \cup Neighbours(visited[1], relations)
      BY <1>2
    <2> QED  BY <2>1, <2>2, <2>3
  <1>5. x \in Neighbours(one, relations) <=> \E q \in one : x \in Neighbours({q}, relations)
    BY DEF Neighbours
  <1> QED  BY <1>3, <1>4, <1>5

\* The policies that may be shown: active and of the category asked for.
Showable(request) == {p \in active : InCategory(p, request.category)}

Visible(request) == VisiblePolicyIds(request, active)

\* Who is shown can be shown, and beside the centre only its relatives are.
LEMMA VisibleIsShowable ==
    ASSUME NEW request, NEW p \in Visible(request)
    PROVE  /\ p \in Showable(request)
           /\ request.policy # NoPolicy =>
                \/ p = request.policy
                \/ \E q \in Showable(request) :
                     /\ p \in Neighbours({q}, Relations) \cup {q}
                     /\ q \in Neighbours({request.policy}, Relations)
  <1> DEFINE policies == {q \in GraphPolicies(request, active) : InCategory(q, request.category)}
             N(q) == Neighbours({q}, GraphRelations(policies))
  <1>1. policies \subseteq Showable(request)
    BY DEF GraphPolicies, Showable
  <1>2. \A q, r : q \in N(r) => q \in policies /\ q \in Neighbours({r}, Relations)
    BY DEF Neighbours, GraphRelations
  <1>3. CASE request.policy = NoPolicy
    BY <1>1, <1>3 DEF Visible, VisiblePolicyIds
  <1>4. CASE request.policy # NoPolicy
    <2>1. request.policy \in policies
      BY <1>4 DEF Visible, VisiblePolicyIds
    <2>2. p \in Around(request.policy, GraphRelations(policies), CenteredGraphMaxDepth)
      BY <1>4, <2>1 DEF Visible, VisiblePolicyIds
    <2>3. \/ p = request.policy
          \/ p \in N(request.policy)
          \/ \E q \in N(request.policy) : p \in N(q)
      BY <2>2, AroundIsTwoSteps
    <2> HIDE DEF policies, N
    <2> QED  BY <1>1, <1>2, <2>1, <2>3
  <1> QED  BY <1>3, <1>4

Evaluations(request) == GraphEvaluations(request, active, FactKeysOf(request), stored)

Candidates(request) == NodesOf(Visible(request), FactKeysOf(request), Evaluations(request))

EdgesAround(request) == EdgesOf(Visible(request), FactKeysOf(request), Evaluations(request))

\* A graph is a choice of the candidates, with the edges between them.
LEMMA GraphIsChoice ==
    ASSUME NEW request, NEW g \in SessionGraphs(request)
    PROVE  /\ g.nodes \in MostImportant(Candidates(request), NormalizeMaxNodes(request.limit),
                                        request, Evaluations(request))
           /\ g.nodes \subseteq Candidates(request)
           /\ g.edges = {e \in EdgesAround(request) : e.source \in g.nodes /\ e.target \in g.nodes}
           /\ g.truncated <=> g.nodes # Candidates(request)
  <1> DEFINE M == MostImportant(Candidates(request), NormalizeMaxNodes(request.limit),
                                request, Evaluations(request))
  <1>1. PICK S \in M :
          g = [ nodes |-> S,
                edges |-> {e \in EdgesAround(request) : e.source \in S /\ e.target \in S},
                truncated |-> S # Candidates(request) ]
    BY DEF SessionGraphs, BuildSessionGraph, Visible, Evaluations, Candidates, EdgesAround
  <1>2. \A T \in M : T \subseteq Candidates(request)
    BY DEF MostImportant, kSubset
  <1> QED  BY <1>1, <1>2

\* Policies are shown because they are visible.
LEMMA PolicyNodes ==
    ASSUME NEW request, NEW p
    PROVE  PolicyNode(p) \in Candidates(request) <=> p \in Visible(request)
  BY DEF Candidates, NodesOf, UserNode, CategoryNode, PolicyNode, ConditionNode, ActionNode,
         EvaluationEdges, Edge

\* However the graph is cut: a policy of a centred graph is the centre, one of
\* its relatives or a relative of one that may be shown, for all relations.
THEOREM PoliciesStayNear == Spec => []ShownPoliciesAreNear
  <1>1. ShownPoliciesAreNear
    <2> SUFFICES ASSUME NEW request \in Requests, NEW g \in SessionGraphs(request),
                        request.policy # NoPolicy, NEW p \in PoliciesShown(g),
                        p # request.policy
                 PROVE  \E q \in {p} \cup active :
                          /\ InCategory(q, request.category)
                          /\ p \in Neighbours({q}, Relations) \cup {q}
                          /\ q \in Neighbours({request.policy}, Relations)
      BY DEF ShownPoliciesAreNear
    <2>1. PICK n \in g.nodes : n[1] = "POLICY" /\ p = n[2]
      BY DEF PoliciesShown
    <2>2. n \in Candidates(request)
      BY GraphIsChoice
    <2>3. p \in Visible(request)
      BY <2>1, <2>2 DEF Candidates, NodesOf, UserNode, CategoryNode, PolicyNode, ConditionNode,
                        ActionNode, EvaluationEdges, Edge
    <2> QED  BY <2>3, VisibleIsShowable DEF Showable
  <1> QED  BY <1>1, PTL

\* A cut keeps a node that comes before every other.
LEMMA CutKeepsTheFirst ==
    ASSUME NEW nodes, NEW limit, NEW request, NEW evaluations, ~ (limit < 1),
           NEW S \in MostImportant(nodes, limit, request, evaluations),
           NEW first \in nodes,
           \A n \in nodes \ {first} :
               Before(NodePriority(first, request, evaluations), NodePriority(n, request, evaluations))
    PROVE  first \in S
  <1> DEFINE P(n) == NodePriority(n, request, evaluations)
  <1>1. CASE S = nodes
    BY <1>1
  <1>2. CASE S # nodes
    <2>1. /\ S \in SUBSET nodes /\ Cardinality(S) = limit
          /\ \A n \in S, m \in nodes \ S : ~ Before(P(m), P(n))
      BY <1>2 DEF MostImportant, kSubset
    <2>2. S # {}
      BY <2>1, FS_EmptySet
    <2> QED  BY <2>1, <2>2
  <1> QED  BY <1>1, <1>2

\* With room for two it keeps the one that comes before all but the first.
LEMMA CutKeepsTheSecond ==
    ASSUME NEW nodes, NEW limit, NEW request, NEW evaluations, limit >= 2, ~ (limit < 1),
           NEW S \in MostImportant(nodes, limit, request, evaluations),
           NEW first \in S, NEW second \in nodes,
           \A n \in nodes \ {first, second} :
               Before(NodePriority(second, request, evaluations), NodePriority(n, request, evaluations))
    PROVE  second \in S
  <1> DEFINE P(n) == NodePriority(n, request, evaluations)
  <1>1. CASE S = nodes
    BY <1>1
  <1>2. CASE S # nodes
    <2>1. /\ S \in SUBSET nodes /\ Cardinality(S) = limit
          /\ \A n \in S, m \in nodes \ S : ~ Before(P(m), P(n))
      BY <1>2 DEF MostImportant, kSubset
    <2>2. S # {first}
      <3> DEFINE one == {first}
      <3>1. Cardinality(one) = 1
        BY FS_Singleton
      <3> HIDE DEF one
      <3>2. S # one
        BY <2>1, <3>1
      <3> QED  BY <3>2 DEF one
    <2> QED  BY <2>1, <2>2
  <1> QED  BY <1>1, <1>2

\* Priorities: the user comes first, then the policy in the centre.
LEMMA UserComesFirst ==
    ASSUME NEW request, NEW n \in Candidates(request) \ {UserNode}
    PROVE  Before(NodePriority(UserNode, request, Evaluations(request)),
                  NodePriority(n, request, Evaluations(request)))
  <1> DEFINE P(m) == NodePriority(m, request, Evaluations(request))
  <1>1. P(UserNode) = <<0, 0, 0>>
    BY DEF NodePriority, UserNode
  <1>2. n[1] \in {"POLICY", "CONDITION", "ACTION", "CATEGORY"}
    BY DEF Candidates, NodesOf, UserNode, CategoryNode, PolicyNode, ConditionNode, ActionNode,
           EvaluationEdges, Edge
  <1>3. P(n)[1] \in {10, 20, 30, 40, 50, 60, 70}
    <2>1. CASE n[1] = "POLICY"
      BY <2>1 DEF NodePriority, PolicyPriority
    <2>2. CASE n[1] = "CONDITION"
      BY <2>2 DEF NodePriority
    <2>3. CASE n[1] = "ACTION"
      BY <2>3 DEF NodePriority
    <2>4. CASE n[1] = "CATEGORY"
      BY <2>4 DEF NodePriority
    <2> QED  BY <1>2, <2>1, <2>2, <2>3, <2>4
  <1> HIDE DEF P
  <1>4. Before(P(UserNode), P(n))
    BY <1>1, <1>3 DEF Before
  <1> QED  BY <1>4 DEF P

LEMMA CentreComesNext ==
    ASSUME NEW request, NEW n \in Candidates(request) \ {UserNode, PolicyNode(request.policy)}
    PROVE  Before(NodePriority(PolicyNode(request.policy), request, Evaluations(request)),
                  NodePriority(n, request, Evaluations(request)))
  <1> DEFINE P(m) == NodePriority(m, request, Evaluations(request))
             centre == PolicyNode(request.policy)
  <1>1. P(centre)[1] = 10
    BY DEF NodePriority, PolicyNode, PolicyPriority
  <1>2. /\ n[1] \in {"POLICY", "CONDITION", "ACTION", "CATEGORY"}
        /\ n[1] = "POLICY" => n[2] # request.policy
    BY DEF Candidates, NodesOf, UserNode, CategoryNode, PolicyNode, ConditionNode, ActionNode,
           EvaluationEdges, Edge
  <1>3. P(n)[1] \in {20, 30, 40, 50, 60, 70}
    <2>1. CASE n[1] = "POLICY"
      BY <1>2, <2>1 DEF NodePriority, PolicyPriority
    <2>2. CASE n[1] = "CONDITION"
      BY <2>2 DEF NodePriority
    <2>3. CASE n[1] = "ACTION"
      BY <2>3 DEF NodePriority
    <2>4. CASE n[1] = "CATEGORY"
      BY <2>4 DEF NodePriority
    <2> QED  BY <1>2, <2>1, <2>2, <2>3, <2>4
  <1> HIDE DEF P, centre
  <1>4. Before(P(centre), P(n))
    BY <1>1, <1>3 DEF Before
  <1> QED  BY <1>4 DEF P, centre

\* The user and the policy a graph is centred on survive every cut, for all
\* policies, relations, evaluations and limits.
THEOREM CentreSurvives == Spec => []TheCentreIsShown
  <1>1. Inv => TheCentreIsShown
    <2> SUFFICES ASSUME Inv, NEW request \in Requests, NEW g \in SessionGraphs(request)
                 PROVE  /\ UserNode \in g.nodes
                        /\ /\ request.policy \in active
                           /\ InCategory(request.policy, request.category)
                           /\ NormalizeMaxNodes(request.limit) >= 2
                           => PolicyNode(request.policy) \in g.nodes
      BY DEF TheCentreIsShown
    <2> DEFINE limit == NormalizeMaxNodes(request.limit)
               E == Evaluations(request)
               nodes == Candidates(request)
               centre == PolicyNode(request.policy)
    <2>1. ~ (limit < 1)
      BY DEF NormalizeMaxNodes, DefaultMaxGraphNodes, MaxGraphNodes
    <2>2. g.nodes \in MostImportant(nodes, limit, request, E)
      BY GraphIsChoice
    <2>3. UserNode \in nodes
      BY DEF Candidates, NodesOf
    <2>4. \A n \in nodes \ {UserNode} : Before(NodePriority(UserNode, request, E), NodePriority(n, request, E))
      BY UserComesFirst
    <2>5. \A n \in nodes \ {UserNode, centre} :
            Before(NodePriority(centre, request, E), NodePriority(n, request, E))
      BY CentreComesNext
    <2> HIDE DEF limit, E, nodes, centre
    <2>6. UserNode \in g.nodes
      BY <2>1, <2>2, <2>3, <2>4, CutKeepsTheFirst
    <2>7. ASSUME request.policy \in active, InCategory(request.policy, request.category)
          PROVE  centre \in nodes
      <3>1. request.policy # NoPolicy
        BY <2>7, RecommendationsAssumption DEF Inv, TypeOK
      <3>2. request.policy \in Around(request.policy, Relations, CenteredGraphMaxDepth)
        BY AroundIsTwoSteps
      <3>3. request.policy \in GraphPolicies(request, active)
        BY <2>7, <3>1, <3>2 DEF GraphPolicies, CenteredGraphPolicyIds
      <3>4. request.policy \in Visible(request)
        BY <2>7, <3>1, <3>3, AroundIsTwoSteps DEF Visible, VisiblePolicyIds
      <3> QED  BY <3>4, PolicyNodes DEF nodes, centre
    <2>8. ASSUME centre \in nodes, limit >= 2
          PROVE  centre \in g.nodes
      BY <2>1, <2>2, <2>5, <2>6, <2>8, CutKeepsTheSecond
    <2> QED  BY <2>6, <2>7, <2>8 DEF limit, centre
  <1> QED  BY <1>1, Invariance, PTL

\* Which evaluation a graph draws for a policy.
LEMMA DrawnEvaluation ==
    ASSUME NEW request, NEW p \in Visible(request), Evaluations(request)[p] # NoEvaluation
    PROVE  p \in active /\ Evaluations(request)[p] = stored[p]
  <1>1. p \in active
    BY VisibleIsShowable DEF Showable
  <1> QED  BY <1>1 DEF Evaluations, GraphEvaluations

\* An edge between a condition and a policy was drawn from the evaluation of
\* the policy, and its type tells the bucket the condition was in.
LEMMA ConditionEdges ==
    ASSUME NEW request, NEW e \in EdgesAround(request),
           e.type \in {"MATCHES", "MISSING_CONDITION", "FAILED_CONDITION"}
    PROVE  \E p \in active :
             /\ stored[p] # NoEvaluation
             /\ e.target[2] = p
             /\ IF e.type = "MISSING_CONDITION"
                THEN \E c \in stored[p].evidence.needs : e.source[2] = c.field
                ELSE \E c \in stored[p].evidence.satisfied \cup stored[p].evidence.unsatisfied :
                       e.source[2] = c.field
  <1>1. PICK p \in Visible(request) : /\ Evaluations(request)[p] # NoEvaluation
                                      /\ e \in EvaluationEdges(p, Evaluations(request)[p])
    <2> DEFINE E == Evaluations(request)
               drawn == {EvaluationEdges(p, E[p]) : p \in {q \in Visible(request) : E[q] # NoEvaluation}}
    <2>1. \A type, source, target : Edge(type, source, target).type = type
      BY DEF Edge
    <2>2. \/ \E p \in Visible(request) :
               e = Edge("SELECTED", UserNode, CategoryNode(PolicyCategory[p]))
          \/ \E f \in FactKeysOf(request) : e = Edge("HAS_FACT", UserNode, ConditionNode(f))
          \/ \E p \in Visible(request) :
               e = Edge("RECOMMENDS", CategoryNode(PolicyCategory[p]), PolicyNode(p))
          \/ e \in UNION drawn
          \/ \E p \in Visible(request) : e = Edge("NEXT_ACTION", PolicyNode(p), ActionNode(p))
          \/ \E r \in GraphRelations(Visible(request)) :
               e = Edge("RELATED", PolicyNode(r[1]), PolicyNode(r[2]))
      BY DEF EdgesAround, EdgesOf
    <2>3. e \in UNION drawn
      BY <2>1, <2>2
    <2> QED  BY <2>3
  <1>2. p \in active /\ Evaluations(request)[p] = stored[p] /\ stored[p] # NoEvaluation
    BY <1>1, DrawnEvaluation
  <1>3. PICK d \in DrawnEvidence(stored[p]) : e = Edge(d[1], ConditionNode(d[2]), PolicyNode(p))
    BY <1>1, <1>2 DEF EvaluationEdges
  <1>4. e.type = d[1] /\ e.source[2] = d[2] /\ e.target[2] = p
    BY <1>3 DEF Edge, ConditionNode, PolicyNode
  <1>5. \/ \E c \in stored[p].evidence.satisfied : d = <<"MATCHES", c.field>>
        \/ \E c \in stored[p].evidence.needs : d = <<"MISSING_CONDITION", c.field>>
        \/ \E c \in stored[p].evidence.unsatisfied : d = <<"FAILED_CONDITION", c.field>>
    BY <1>2, <1>3 DEF DrawnEvidence
  <1> QED  BY <1>2, <1>4, <1>5

\* What a graph shows of an ACTIVE evaluation agrees with the answers, for all
\* rules, answers and relations: a condition is shown as missing exactly when
\* its question is unanswered.
THEOREM GraphsAgreeWithAnswers == Spec => []MissingConditionsAreUnanswered
  <1>1. Inv => MissingConditionsAreUnanswered
    <2> SUFFICES ASSUME Inv, NEW request \in Requests, NEW g \in SessionGraphs(request),
                        NEW e \in g.edges,
                        e.type \in {"MATCHES", "MISSING_CONDITION", "FAILED_CONDITION"},
                        stored[e.target[2]].state = "ACTIVE"
                 PROVE  e.type = "MISSING_CONDITION" <=> answers[e.source[2]] = NoAnswer
      BY DEF MissingConditionsAreUnanswered
    <2>1. e \in EdgesAround(request)
      BY GraphIsChoice
    <2>2. PICK p \in active :
            /\ stored[p] # NoEvaluation
            /\ e.target[2] = p
            /\ IF e.type = "MISSING_CONDITION"
               THEN \E c \in stored[p].evidence.needs : e.source[2] = c.field
               ELSE \E c \in stored[p].evidence.satisfied \cup stored[p].evidence.unsatisfied :
                      e.source[2] = c.field
      BY <2>1, ConditionEdges
    <2>3. TellsOf(stored[p].evidence, answers)
      BY <2>2 DEF Inv, TypeOK, EvaluationsInv
    <2> QED  BY <2>2, <2>3 DEF TellsOf
  <1> QED  BY <1>1, Invariance, PTL

LEMMA LinkedKeeps ==
    ASSUME NEW g, NEW S
    PROVE  S \subseteq WithLinked(g, S)
  BY DEF WithLinked

\* A graph that was not cut hangs together: whatever is evaluated, answered or
\* related, each of its nodes is at most three edges from the user.
THEOREM GraphsHangTogether == Spec => []WholeGraphsAreConnected
  <1>1. ASSUME NEW request \in Requests, NEW g \in SessionGraphs(request), ~ g.truncated
        PROVE  g.nodes \subseteq WithLinked(g, WithLinked(g, WithLinked(g, {UserNode})))
    <2> DEFINE V == Visible(request)
               facts == FactKeysOf(request)
               E == Evaluations(request)
               one == WithLinked(g, {UserNode})
               two == WithLinked(g, one)
               three == WithLinked(g, two)
               Drawn(p) == EvaluationEdges(p, E[p])
    <2>1. g.nodes = NodesOf(V, facts, E)
      BY <1>1, GraphIsChoice DEF Candidates
    <2>2. \A e \in EdgesOf(V, facts, E) :
            e.source \in g.nodes /\ e.target \in g.nodes => e \in g.edges
      BY GraphIsChoice DEF EdgesAround
    <2>3. /\ UserNode \in g.nodes
          /\ \A p \in V : CategoryNode(PolicyCategory[p]) \in g.nodes /\ PolicyNode(p) \in g.nodes
          /\ \A f \in facts : ConditionNode(f) \in g.nodes
          /\ \A p \in V : E[p] # NoEvaluation => ActionNode(p) \in g.nodes
          /\ \A p \in V : E[p] # NoEvaluation => \A e \in Drawn(p) : e.source \in g.nodes
      BY <2>1 DEF NodesOf
    <2>4. /\ \A p \in V : Edge("SELECTED", UserNode, CategoryNode(PolicyCategory[p])) \in g.edges
          /\ \A p \in V :
               Edge("RECOMMENDS", CategoryNode(PolicyCategory[p]), PolicyNode(p)) \in g.edges
          /\ \A f \in facts : Edge("HAS_FACT", UserNode, ConditionNode(f)) \in g.edges
          /\ \A p \in V : E[p] # NoEvaluation =>
               Edge("NEXT_ACTION", PolicyNode(p), ActionNode(p)) \in g.edges
      <3>1. \A type, source, target : /\ Edge(type, source, target).source = source
                                      /\ Edge(type, source, target).target = target
        BY DEF Edge
      <3>2. /\ \A p \in V : Edge("SELECTED", UserNode, CategoryNode(PolicyCategory[p]))
                               \in EdgesOf(V, facts, E)
            /\ \A p \in V : Edge("RECOMMENDS", CategoryNode(PolicyCategory[p]), PolicyNode(p))
                               \in EdgesOf(V, facts, E)
        BY DEF EdgesOf
      <3>3. \A f \in facts : Edge("HAS_FACT", UserNode, ConditionNode(f)) \in EdgesOf(V, facts, E)
        BY DEF EdgesOf
      <3>4. ASSUME NEW p \in V, E[p] # NoEvaluation
            PROVE  Edge("NEXT_ACTION", PolicyNode(p), ActionNode(p)) \in EdgesOf(V, facts, E)
        BY <3>4 DEF EdgesOf
      <3> HIDE DEF V, facts, E
      <3> QED  BY <2>2, <2>3, <3>1, <3>2, <3>3, <3>4
    <2>5. \A p \in V : E[p] # NoEvaluation =>
            \A e \in Drawn(p) : e \in g.edges /\ e.target = PolicyNode(p)
      <3> SUFFICES ASSUME NEW p \in V, E[p] # NoEvaluation, NEW e \in Drawn(p)
                   PROVE  e \in g.edges /\ e.target = PolicyNode(p)
        OBVIOUS
      <3>1. e.target = PolicyNode(p)
        BY DEF EvaluationEdges, Edge
      <3>2. e \in EdgesOf(V, facts, E)
        BY DEF EdgesOf
      <3> QED  BY <2>2, <2>3, <3>1, <3>2
    <2> HIDE DEF V, facts, E, Drawn
    <2>6. UserNode \in one
      BY LinkedKeeps
    <2>7. \A p \in V : CategoryNode(PolicyCategory[p]) \in one
      BY <2>3, <2>4 DEF WithLinked, Edge
    <2>8. \A f \in facts : ConditionNode(f) \in one
      BY <2>3, <2>4 DEF WithLinked, Edge
    <2> HIDE DEF one
    <2>9. \A p \in V : PolicyNode(p) \in two
      BY <2>3, <2>4, <2>7 DEF WithLinked, Edge
    <2>10. one \subseteq two
      BY LinkedKeeps
    <2> HIDE DEF two
    <2>11. \A p \in V : E[p] # NoEvaluation => ActionNode(p) \in three
      BY <2>3, <2>4, <2>9 DEF WithLinked, Edge
    <2>12. \A p \in V : E[p] # NoEvaluation => \A e \in Drawn(p) : e.source \in three
      BY <2>3, <2>5, <2>9 DEF WithLinked
    <2>13. two \subseteq three
      BY LinkedKeeps
    <2> HIDE DEF three
    <2>14. \A n \in g.nodes :
             \/ n = UserNode
             \/ \E p \in V : n = CategoryNode(PolicyCategory[p]) \/ n = PolicyNode(p)
             \/ \E f \in facts : n = ConditionNode(f)
             \/ \E p \in V : E[p] # NoEvaluation /\ \E e \in Drawn(p) : n = e.source
             \/ \E p \in V : E[p] # NoEvaluation /\ n = ActionNode(p)
      BY <2>1 DEF NodesOf, Drawn
    <2>15. g.nodes \subseteq three
      BY <2>6, <2>7, <2>8, <2>9, <2>10, <2>11, <2>12, <2>13, <2>14
    <2> QED  BY <2>15 DEF three, two, one
  <1>2. WholeGraphsAreConnected
    BY <1>1 DEF WholeGraphsAreConnected
  <1> QED  BY <1>2, PTL

-----------------------------------------------------------------------------
(* There is a graph, and it is bounded.                                    *)

Priorities == Int \X Int \X Int

\* Priorities are compared like tuples.
LEMMA BeforeOrders ==
    /\ \A a \in Priorities : ~ Before(a, a)
    /\ \A a, b, c \in Priorities : Before(a, b) /\ Before(b, c) => Before(a, c)
  <1>1. \A a \in Priorities : a[1] \in Int /\ a[2] \in Int /\ a[3] \in Int
    BY DEF Priorities
  <1> QED  BY <1>1 DEF Before

\* A finite set of nodes can be cut to any number of them.
LEMMA CutsExist ==
    ASSUME NEW nodes, IsFiniteSet(nodes), NEW limit \in Nat, NEW request, NEW evaluations,
           \A n \in nodes : NodePriority(n, request, evaluations) \in Priorities
    PROVE  MostImportant(nodes, limit, request, evaluations) # {}
  <1> DEFINE P(n) == NodePriority(n, request, evaluations)
             R == {e \in nodes \X nodes : Before(P(e[1]), P(e[2]))}
             First(S) == \A n \in S, m \in nodes \ S : ~ Before(P(m), P(n))
             T == {k \in Nat : k <= Cardinality(nodes) =>
                                 \E S \in SUBSET nodes : Cardinality(S) = k /\ First(S)}
  <1>0. Cardinality(nodes) \in Nat
    BY FS_CardinalityType
  <1>1. /\ \A n \in nodes : <<n, n>> \notin R
        /\ \A x, y, z \in nodes : <<x, y>> \in R /\ <<y, z>> \in R => <<x, z>> \in R
        /\ \A x, y \in nodes : Before(P(x), P(y)) => <<x, y>> \in R
    <2> HIDE DEF P
    <2>1. \A n \in nodes : P(n) \in Priorities
      BY DEF P
    <2> QED  BY <2>1, BeforeOrders
  <1>2. 0 \in T
    <2>1. Cardinality({}) = 0 /\ {} \in SUBSET nodes /\ First({})
      BY FS_EmptySet
    <2> QED  BY <2>1
  <1>3. ASSUME NEW k \in Nat, k \in T PROVE k + 1 \in T
    <2> SUFFICES ASSUME k + 1 <= Cardinality(nodes)
                 PROVE  \E S \in SUBSET nodes : Cardinality(S) = k + 1 /\ First(S)
      OBVIOUS
    <2>1. PICK S \in SUBSET nodes : Cardinality(S) = k /\ First(S)
      BY <1>0, <1>3
    <2>2. IsFiniteSet(S) /\ IsFiniteSet(nodes \ S)
      BY <2>1, FS_Subset
    <2>3. nodes \ S # {}
      <3>1. S # nodes
        BY <1>0, <2>1
      <3> QED  BY <3>1
    <2>4. PICK m \in nodes \ S : \A n \in nodes \ S : <<n, m>> \notin R
      <3> DEFINE U == nodes \ S
      <3>1. /\ \A n \in U : <<n, n>> \notin R
            /\ \A x, y, z \in U : <<x, y>> \in R /\ <<y, z>> \in R => <<x, z>> \in R
        BY <1>1
      <3>2. IsFiniteSet(U) /\ U # {}
        BY <2>2, <2>3
      <3> HIDE DEF R, U
      <3>3. \E x \in U : \A y \in U : <<y, x>> \notin R
        BY <3>1, <3>2, FirstElement
      <3> QED  BY <3>3 DEF U
    <2> DEFINE N == S \cup {m}
    <2>5. Cardinality(N) = k + 1
      BY <2>1, <2>2, <2>4, FS_AddElement
    <2>6. N \in SUBSET nodes
      BY <2>1, <2>4
    <2>7. First(N)
      <3> SUFFICES ASSUME NEW n \in N, NEW x \in nodes \ N PROVE ~ Before(P(x), P(n))
        OBVIOUS
      <3> HIDE DEF P
      <3>1. CASE n \in S
        BY <2>1, <3>1
      <3>2. CASE n = m
        BY <1>1, <2>4, <3>2
      <3> QED  BY <3>1, <3>2
    <2> QED  BY <2>5, <2>6, <2>7
  <1>4. Nat \subseteq T
    <2> HIDE DEF T
    <2> QED  BY <1>2, <1>3, AllNumbers
  <1>5. CASE Cardinality(nodes) <= limit
    BY <1>5 DEF MostImportant
  <1>6. CASE ~ (Cardinality(nodes) <= limit)
    <2>1. PICK S \in SUBSET nodes : Cardinality(S) = limit /\ First(S)
      BY <1>0, <1>4, <1>6
    <2>2. S \in MostImportant(nodes, limit, request, evaluations)
      BY <1>6, <2>1 DEF MostImportant, kSubset
    <2> QED  BY <2>2
  <1> QED  BY <1>5, <1>6

\* There are finitely many nodes to choose from.
LEMMA CandidatesAreFinite ==
    ASSUME Inv, NEW request
    PROVE  IsFiniteSet(Candidates(request))
  <1> DEFINE V == Visible(request)
             E == Evaluations(request)
             codes == {PolicyCategory[p] : p \in Policies}
             names == (({0} \cup codes) \cup Policies) \cup Fields
             types == {"USER", "CATEGORY"} \cup {"POLICY", "CONDITION", "ACTION"}
  <1>1. IsFiniteSet(codes)
    <2>1. PolicyCategory \in Surjection(Policies, codes)
      BY RecommendationsAssumption DEF Surjection
    <2> HIDE DEF codes
    <2> QED  BY <2>1, RecommendationsAssumption, FS_Surjection
  <1>2. IsFiniteSet(names)
    <2> HIDE DEF codes
    <2>1. IsFiniteSet({0}) /\ IsFiniteSet(Policies) /\ IsFiniteSet(Fields)
      BY RecommendationsAssumption, FS_Singleton
    <2>2. IsFiniteSet({0} \cup codes)
      BY <1>1, <2>1, FS_Union
    <2>3. IsFiniteSet(({0} \cup codes) \cup Policies)
      BY <2>1, <2>2, FS_Union
    <2> QED  BY <2>1, <2>3, FS_Union
  <1>3. IsFiniteSet(types)
    <2>2. IsFiniteSet({"POLICY"} \cup {"CONDITION"})
      BY FS_Singleton, FS_Union
    <2>3. IsFiniteSet(({"POLICY"} \cup {"CONDITION"}) \cup {"ACTION"})
      BY <2>2, FS_Singleton, FS_Union
    <2>4. {"POLICY", "CONDITION", "ACTION"} = ({"POLICY"} \cup {"CONDITION"}) \cup {"ACTION"}
      OBVIOUS
    <2>5. IsFiniteSet({"USER"} \cup {"CATEGORY"})
      BY FS_Singleton, FS_Union
    <2>6. {"USER", "CATEGORY"} = {"USER"} \cup {"CATEGORY"}
      OBVIOUS
    <2>7. IsFiniteSet({"USER", "CATEGORY"}) /\ IsFiniteSet({"POLICY", "CONDITION", "ACTION"})
      BY <2>3, <2>4, <2>5, <2>6
    <2> QED  BY <2>7, FS_Union
  <1>4. Candidates(request) \subseteq types \X names
    <2>1. V \subseteq Policies
      BY VisibleIsShowable DEF Showable, Inv, TypeOK
    <2>2. FactKeysOf(request) \subseteq Fields
      BY DEF FactKeysOf
    <2>3. ASSUME NEW p \in V, NEW e \in EvaluationEdges(p, E[p])
          PROVE  \E f \in Fields : e.source = ConditionNode(f)
      <3>1. PICK d \in DrawnEvidence(E[p]) : e = Edge(d[1], ConditionNode(d[2]), PolicyNode(p))
        BY DEF EvaluationEdges
      <3>2. d[2] \in Fields
        <4>1. /\ E[p] # NoEvaluation
              /\ \E c \in (E[p].evidence.satisfied \cup E[p].evidence.needs)
                              \cup E[p].evidence.unsatisfied : d[2] = c.field
          BY <3>1 DEF DrawnEvidence
        <4>2. p \in active /\ p \in Policies
          BY <2>1, VisibleIsShowable DEF Showable
        <4>3. E[p] = stored[p]
          BY <4>1, <4>2 DEF Evaluations, GraphEvaluations
        <4>4. stored[p].evidence \in EvidenceFrom(Conditions(p))
          BY <4>1, <4>2, <4>3 DEF Inv, TypeOK, StoredEvaluations
        <4>5. PICK c \in Conditions(p) : d[2] = c.field
          BY <4>1, <4>3, <4>4 DEF EvidenceFrom
        <4>6. c.field \in Fields
          BY <4>2, RecommendationsAssumption DEF Conditions, ConditionFromPolicyRule
        <4> QED  BY <4>5, <4>6
      <3> QED  BY <3>1, <3>2 DEF Edge
    <2> SUFFICES ASSUME NEW n \in Candidates(request) PROVE n \in types \X names
      OBVIOUS
    <2>4. CASE n = UserNode
      BY <2>4 DEF UserNode
    <2>5. CASE \E p \in V : n = CategoryNode(PolicyCategory[p])
      BY <2>1, <2>5 DEF CategoryNode
    <2>6. CASE \E p \in V : n = PolicyNode(p) \/ n = ActionNode(p)
      BY <2>1, <2>6 DEF PolicyNode, ActionNode
    <2>7. CASE \E f \in Fields : n = ConditionNode(f)
      BY <2>7 DEF ConditionNode
    <2>8. CASE \E p \in V : \E e \in EvaluationEdges(p, E[p]) : n = e.source
      BY <2>3, <2>7, <2>8
    <2> QED  BY <2>2, <2>4, <2>5, <2>6, <2>7, <2>8 DEF Candidates, NodesOf
  <1>5. IsFiniteSet(types \X names)
    <2> HIDE DEF types, names
    <2> QED  BY <1>2, <1>3, FS_Product
  <1> HIDE DEF types, names
  <1> QED  BY <1>4, <1>5, FS_Subset

\* Every candidate has a priority.
LEMMA CandidatesArePrioritised ==
    ASSUME Inv, NEW request, NEW n \in Candidates(request)
    PROVE  NodePriority(n, request, Evaluations(request)) \in Priorities
  <1> DEFINE E == Evaluations(request)
  <1>1. \/ n[1] \in {"USER", "CONDITION", "CATEGORY"}
        \/ \E p \in Visible(request) : n = PolicyNode(p) \/ n = ActionNode(p)
    BY DEF Candidates, NodesOf, UserNode, CategoryNode, PolicyNode, ConditionNode, ActionNode,
           EvaluationEdges, Edge
  <1>2. CASE n[1] \in {"USER", "CONDITION", "CATEGORY"}
    BY <1>2 DEF NodePriority, Priorities
  <1>3. ASSUME NEW p \in Visible(request), n = PolicyNode(p) \/ n = ActionNode(p)
        PROVE  NodePriority(n, request, E) \in Priorities
    <2>1. p \in active /\ p \in Policies /\ p \in Int
      <3>1. p \in active
        BY VisibleIsShowable DEF Showable
      <3>2. p \in Policies
        BY <3>1 DEF Inv, TypeOK
      <3> QED  BY <3>1, <3>2, RecommendationsAssumption
    <2>2. E[p] = NoEvaluation \/ E[p].score \in Int
      <3>1. E[p] = NoEvaluation \/ E[p] = stored[p]
        BY <2>1 DEF Evaluations, GraphEvaluations
      <3>2. stored[p] = NoEvaluation \/ stored[p].score \in Int
        BY <2>1 DEF Inv, TypeOK, StoredEvaluations
      <3> QED  BY <3>1, <3>2
    <2>3. CASE n = ActionNode(p)
      BY <2>1, <2>3 DEF NodePriority, ActionNode, Priorities
    <2>4. CASE n = PolicyNode(p)
      <3>1. PolicyPriority(p, request, E[p]) \in Priorities
        BY <2>1, <2>2 DEF PolicyPriority, Priorities
      <3>2. NodePriority(n, request, E) = PolicyPriority(p, request, E[p])
        BY <2>4 DEF NodePriority, PolicyNode
      <3> QED  BY <3>1, <3>2
    <2> QED  BY <1>3, <2>3, <2>4
  <1> QED  BY <1>1, <1>2, <1>3

\* Every request gets a graph, never of more nodes than it asks for or than 120,
\* and of exactly as many when the graph is cut: what the other theorems say of
\* all graphs of a request is never said of none.
THEOREM EveryRequestHasAGraph ==
    Spec => [](\A request \in Requests :
                 /\ SessionGraphs(request) # {}
                 /\ \A g \in SessionGraphs(request) :
                      /\ Cardinality(g.nodes) <= NormalizeMaxNodes(request.limit)
                      /\ Cardinality(g.nodes) <= MaxGraphNodes
                      /\ g.truncated => Cardinality(g.nodes) = NormalizeMaxNodes(request.limit))
  <1>1. Inv => \A request \in Requests :
                 /\ SessionGraphs(request) # {}
                 /\ \A g \in SessionGraphs(request) :
                      /\ Cardinality(g.nodes) <= NormalizeMaxNodes(request.limit)
                      /\ Cardinality(g.nodes) <= MaxGraphNodes
                      /\ g.truncated => Cardinality(g.nodes) = NormalizeMaxNodes(request.limit)
    <2> SUFFICES ASSUME Inv, NEW request \in Requests
                 PROVE  /\ SessionGraphs(request) # {}
                        /\ \A g \in SessionGraphs(request) :
                             /\ Cardinality(g.nodes) <= NormalizeMaxNodes(request.limit)
                             /\ Cardinality(g.nodes) <= MaxGraphNodes
                             /\ g.truncated =>
                                  Cardinality(g.nodes) = NormalizeMaxNodes(request.limit)
      OBVIOUS
    <2> DEFINE limit == NormalizeMaxNodes(request.limit)
               M == MostImportant(Candidates(request), limit, request, Evaluations(request))
    <2>1. limit \in Nat /\ limit <= MaxGraphNodes
      BY RecommendationsAssumption DEF NormalizeMaxNodes, DefaultMaxGraphNodes, MaxGraphNodes
    <2>2. IsFiniteSet(Candidates(request)) /\ Cardinality(Candidates(request)) \in Nat
      BY CandidatesAreFinite, FS_CardinalityType
    <2>3. M # {}
      <3> HIDE DEF limit
      <3> QED  BY <2>1, <2>2, CandidatesArePrioritised, CutsExist
    <2>4. SessionGraphs(request) # {}
      BY <2>3 DEF SessionGraphs, BuildSessionGraph, Visible, Evaluations, Candidates
    <2>5. ASSUME NEW g \in SessionGraphs(request)
          PROVE  /\ Cardinality(g.nodes) <= limit
                 /\ g.truncated => Cardinality(g.nodes) = limit
      <3>1. g.nodes \in M /\ (g.truncated <=> g.nodes # Candidates(request))
        BY GraphIsChoice
      <3>2. CASE Cardinality(Candidates(request)) <= limit
        BY <3>1, <3>2 DEF MostImportant
      <3>3. CASE ~ (Cardinality(Candidates(request)) <= limit)
        <4>1. Cardinality(g.nodes) = limit
          BY <3>1, <3>3 DEF MostImportant, kSubset
        <4> HIDE DEF limit
        <4> QED  BY <2>1, <4>1
      <3> QED  BY <3>2, <3>3
    <2>6. MaxGraphNodes \in Nat
      BY DEF MaxGraphNodes
    <2>7. \A g \in SessionGraphs(request) : Cardinality(g.nodes) <= MaxGraphNodes
      <3> TAKE g \in SessionGraphs(request)
      <3>1. Cardinality(g.nodes) <= limit
        BY <2>5
      <3>2. IsFiniteSet(g.nodes)
        BY <2>2, GraphIsChoice, FS_Subset
      <3>3. Cardinality(g.nodes) \in Nat
        BY <3>2, FS_CardinalityType
      <3> HIDE DEF limit
      <3> QED  BY <2>1, <2>6, <3>1, <3>3
    <2> QED  BY <2>4, <2>5, <2>7
  <1> QED  BY <1>1, Invariance, PTL

=============================================================================
