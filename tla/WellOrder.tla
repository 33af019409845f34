----------------------------- MODULE WellOrder -----------------------------
(***************************************************************************)
(* Least numbers, induction and first elements of finite sets.  The        *)
(* induction theorems of the library take a predicate as a parameter;      *)
(* here it is a set, so that the provers can use them.                     *)
(***************************************************************************)
EXTENDS Integers, FiniteSets, FiniteSetTheorems, TLAPS

\* Every set of natural numbers has a least one.
LEMMA LeastNumber ==
    ASSUME NEW S, S \subseteq Nat, S # {}
    PROVE  \E n \in S : \A m \in S : n <= m
  <1> DEFINE T == {0..n : n \in S}
             R == StrictSubsetOrdering(Nat)
  <1>1. T \subseteq FiniteSubsetsOf(Nat)
    <2> SUFFICES ASSUME NEW n \in S PROVE 0..n \in FiniteSubsetsOf(Nat)
      OBVIOUS
    <2>1. IsFiniteSet(0..n)
      BY FS_Interval
    <2> QED  BY <2>1 DEF FiniteSubsetsOf
  <1>2. \E x \in T : \A y \in T : <<y, x>> \notin R
    <2>1. T # {}
      OBVIOUS
    <2> HIDE DEF T, R
    <2>2. IsWellFoundedOn(R, FiniteSubsetsOf(Nat))
      BY FS_StrictSubsetOrderingWellFounded DEF R
    <2> QED  BY <1>1, <2>1, <2>2, WFMin
  <1>3. PICK n \in S : \A m \in S : <<0..m, 0..n>> \notin R
    BY <1>2
  <1>4. ASSUME NEW m \in S PROVE n <= m
    <2> SUFFICES ASSUME m < n PROVE FALSE
      OBVIOUS
    <2>1. 0..m \subseteq 0..n /\ 0..m # 0..n
      <3>1. n \in 0..n /\ n \notin 0..m
        OBVIOUS
      <3> QED  BY <3>1
    <2>2. 0..m \in SUBSET Nat /\ 0..n \in SUBSET Nat
      OBVIOUS
    <2>3. <<0..m, 0..n>> \in R
      BY <2>1, <2>2 DEF StrictSubsetOrdering
    <2> QED  BY <2>3, <1>3
  <1> QED  BY <1>4

\* Induction: a set with 0 and the successor of each of its numbers has them all.
LEMMA AllNumbers ==
    ASSUME NEW T, 0 \in T, \A n \in Nat : n \in T => n + 1 \in T
    PROVE  Nat \subseteq T
  <1> SUFFICES ASSUME NEW k \in Nat, k \notin T PROVE FALSE
    OBVIOUS
  <1> DEFINE S == {n \in Nat : n \notin T}
  <1>1. S \subseteq Nat /\ S # {}
    OBVIOUS
  <1> HIDE DEF S
  <1>2. PICK n \in S : \A m \in S : n <= m
    BY <1>1, LeastNumber
  <1>3. n \in Nat /\ n \notin T /\ n # 0
    BY <1>2 DEF S
  <1>4. n - 1 \in Nat /\ n = (n - 1) + 1
    BY <1>3
  <1>5. n - 1 \notin S
    BY <1>2, <1>3, <1>4
  <1>6. n - 1 \in T
    BY <1>4, <1>5 DEF S
  <1> QED  BY <1>3, <1>4, <1>6

\* A part of a finite set that lacks something has fewer elements.
LEMMA FewerElements ==
    ASSUME NEW S, NEW T, IsFiniteSet(T), S \subseteq T, S # T
    PROVE  IsFiniteSet(S) /\ Cardinality(S) \in Nat /\ Cardinality(T) \in Nat
           /\ Cardinality(S) < Cardinality(T)
  <1>1. IsFiniteSet(S) /\ Cardinality(S) <= Cardinality(T)
        /\ (Cardinality(S) = Cardinality(T) => S = T)
    BY FS_Subset
  <1>2. Cardinality(S) \in Nat /\ Cardinality(T) \in Nat
    BY <1>1, FS_CardinalityType
  <1> QED  BY <1>1, <1>2

\* A finite set that is not empty has an element nothing comes before, in any
\* relation that is transitive and never relates an element to itself.
LEMMA FirstElement ==
    ASSUME NEW S, IsFiniteSet(S), S # {}, NEW R,
           \A x \in S : <<x, x>> \notin R,
           \A x, y, z \in S : <<x, y>> \in R /\ <<y, z>> \in R => <<x, z>> \in R
    PROVE  \E x \in S : \A y \in S : <<y, x>> \notin R
  <1> DEFINE before(x) == {y \in S : <<y, x>> \in R}
             N == {Cardinality(before(x)) : x \in S}
  <1>1. \A x \in S : IsFiniteSet(before(x)) /\ Cardinality(before(x)) \in Nat
    <2> TAKE x \in S
    <2>1. before(x) \subseteq S
      OBVIOUS
    <2> HIDE DEF before
    <2>2. IsFiniteSet(before(x))
      BY <2>1, FS_Subset
    <2> QED  BY <2>2, FS_CardinalityType
  <1>2. PICK x \in S : \A y \in S : Cardinality(before(x)) <= Cardinality(before(y))
    <2> HIDE DEF before
    <2>1. N \subseteq Nat /\ N # {}
      BY <1>1
    <2> HIDE DEF N
    <2>2. PICK n \in N : \A m \in N : n <= m
      BY <2>1, LeastNumber
    <2> QED  BY <2>2 DEF N
  <1>3. ASSUME NEW y \in S, <<y, x>> \in R PROVE FALSE
    <2>1. before(y) \subseteq before(x) /\ before(y) # before(x)
      <3>1. y \in before(x) /\ y \notin before(y)
        BY <1>3
      <3>2. before(y) \subseteq before(x)
        BY <1>3
      <3> QED  BY <3>1, <3>2
    <2>2. IsFiniteSet(before(x)) /\ Cardinality(before(x)) <= Cardinality(before(y))
      BY <1>1, <1>2
    <2> HIDE DEF before
    <2>3. Cardinality(before(y)) < Cardinality(before(x)) /\ Cardinality(before(y)) \in Nat
          /\ Cardinality(before(x)) \in Nat
      BY <2>1, <2>2, FewerElements
    <2> QED  BY <2>2, <2>3
  <1> QED  BY <1>3

\* f lists the values of F applied again and again.
Iterates(f, F, start) == f[0] = start /\ \A n \in Nat : f[n + 1] = F[f[n]]

LEMMA EveryStartIterates ==
    ASSUME NEW U, NEW F \in [U -> U], NEW start \in U
    PROVE  \E f : f \in [Nat -> U] /\ Iterates(f, F, start)
  <1> DEFINE Run(n, g) == /\ g \in [0..n -> U]
                          /\ g[0] = start
                          /\ \A i \in 0..n : i + 1 <= n => g[i + 1] = F[g[i]]
             T == {n \in Nat : \E g \in [0..n -> U] : Run(n, g)}
  <1>1. Nat \subseteq T
    <2>1. 0 \in T
      <3>1. Run(0, [i \in 0..0 |-> start])
        OBVIOUS
      <3> QED  BY <3>1
    <2>2. ASSUME NEW n \in Nat, n \in T PROVE n + 1 \in T
      <3>1. PICK g : Run(n, g)
        BY <2>2
      <3> DEFINE h == [i \in 0..(n + 1) |-> IF i = n + 1 THEN F[g[n]] ELSE g[i]]
      <3>2. h \in [0..(n + 1) -> U]
        BY <3>1
      <3>3. h[0] = start
        BY <3>1
      <3>4. ASSUME NEW i \in 0..(n + 1), i + 1 <= n + 1 PROVE h[i + 1] = F[h[i]]
        <4>1. i \in 0..n /\ h[i] = g[i]
          BY <3>4
        <4>2. CASE i = n
          BY <4>1, <4>2
        <4>3. CASE i # n
          <5>1. i + 1 \in 0..n /\ h[i + 1] = g[i + 1]
            BY <4>1, <4>3
          <5> QED  BY <3>1, <4>1, <5>1
        <4> QED  BY <4>2, <4>3
      <3>5. Run(n + 1, h)
        BY <3>2, <3>3, <3>4
      <3> QED  BY <3>2, <3>5
    <2> HIDE DEF T
    <2> QED  BY <2>1, <2>2, AllNumbers
  <1>2. ASSUME NEW n \in Nat, NEW m \in Nat, NEW g, Run(n, g), NEW h, Run(m, h)
        PROVE  \A i \in Nat : i <= n /\ i <= m => g[i] = h[i]
    <2> DEFINE S == {i \in Nat : i <= n /\ i <= m => g[i] = h[i]}
    <2>1. 0 \in S
      BY <1>2
    <2>2. ASSUME NEW i \in Nat, i \in S PROVE i + 1 \in S
      <3> SUFFICES ASSUME i + 1 <= n, i + 1 <= m PROVE g[i + 1] = h[i + 1]
        OBVIOUS
      <3>1. i \in 0..n /\ i \in 0..m
        OBVIOUS
      <3>2. g[i + 1] = F[g[i]] /\ h[i + 1] = F[h[i]]
        BY <1>2, <3>1
      <3>3. g[i] = h[i]
        BY <2>2
      <3> QED  BY <3>2, <3>3
    <2> HIDE DEF S
    <2>3. Nat \subseteq S
      BY <2>1, <2>2, AllNumbers
    <2> QED  BY <2>3 DEF S
  <1> DEFINE run(n) == CHOOSE g : Run(n, g)
             f == [n \in Nat |-> run(n)[n]]
  <1>3. \A n \in Nat : Run(n, run(n))
    BY <1>1
  <1> HIDE DEF run
  <1>4. f \in [Nat -> U] /\ f[0] = start
    BY <1>3
  <1>5. ASSUME NEW n \in Nat PROVE f[n + 1] = F[f[n]]
    <2>1. Run(n, run(n)) /\ Run(n + 1, run(n + 1))
      BY <1>3
    <2>2. run(n + 1)[n + 1] = F[run(n + 1)[n]]
      BY <2>1
    <2>3. run(n)[n] = run(n + 1)[n]
      <3> HIDE DEF Run
      <3>1. \A i \in Nat : i <= n /\ i <= n + 1 => run(n)[i] = run(n + 1)[i]
        BY <1>2, <2>1
      <3> QED  BY <3>1
    <2> QED  BY <2>2, <2>3
  <1>6. Iterates(f, F, start)
    BY <1>4, <1>5 DEF Iterates
  <1> QED  BY <1>4, <1>6

=============================================================================
