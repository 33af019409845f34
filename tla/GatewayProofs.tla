--------------------------- MODULE GatewayProofs ---------------------------
(***************************************************************************)
(* Proofs about Gateway for every set of clients and proxies, every limit, *)
(* every window, every number of requests and every workload.              *)
(***************************************************************************)
EXTENDS Gateway, TLAPS, FiniteSetTheorems, SequenceTheorems

-----------------------------------------------------------------------------
(* What a deque keeps of a log.                                            *)

\* The times of a log never decrease and lie in the past.
Ordered(l, t) ==
    /\ \A j, k \in 1..Len(l) : j <= k => l[j] <= l[k]
    /\ \A k \in 1..Len(l) : l[k] <= t

\* A deque is the end of its log, and what it lacks has left the window.
Remembers(d, l, t) ==
    /\ Len(d) <= Len(l)
    /\ Len(d) <= Limit
    /\ \A k \in 1..Len(d) : d[k] = l[k + (Len(l) - Len(d))]
    /\ \A k \in 1..(Len(l) - Len(d)) : l[k] <= t - Window

\* Any Limit + 1 entries of the log span a whole window.
Spaced(l) == \A k \in 1..(Len(l) - Limit) : l[k + Limit] - l[k] >= Window

Deque(b) == IF b = NoBucket THEN <<>> ELSE b

\* A set of positions that contains every later position has a first one.  The
\* positions before it are counted, since the provers cannot do induction.
LEMMA FirstPosition ==
    ASSUME NEW n \in Nat, NEW kept \in SUBSET (1..n), kept # {},
           \A j, k \in 1..n : j <= k /\ j \in kept => k \in kept
    PROVE  \E k \in kept : \A j \in kept : k <= j
  <1> DEFINE before == (1..n) \ kept
             d == Cardinality(before)
  <1>0. IsFiniteSet(1..n)
    BY FS_Interval
  <1>1. before \subseteq 1..n /\ IsFiniteSet(before)
    <2>1. before \in SUBSET (1..n)
      OBVIOUS
    <2> HIDE DEF before
    <2> QED  BY <1>0, <2>1, FS_Subset
  <1>2. d \in Nat
    BY <1>1, FS_CardinalityType
  <1>3. \A m \in Nat : IsFiniteSet(1..m) /\ Cardinality(1..m) = m
    BY FS_Interval
  <1>4. ASSUME NEW m \in 1..n, m \in before
        PROVE  m <= d
    <2>1. (1..m) \subseteq before
      BY <1>4
    <2>2. Cardinality(1..m) <= d
      BY <1>1, <2>1, FS_Subset
    <2> QED  BY <1>2, <1>3, <2>2
  <1>5. ASSUME NEW m \in kept
        PROVE  d < m
    <2>1. before \subseteq 1..(m - 1)
      BY <1>5
    <2>2. m - 1 \in Nat
      OBVIOUS
    <2>3. d <= m - 1
      BY <1>3, <2>1, <2>2, FS_Subset
    <2> QED  BY <1>2, <2>2, <2>3
  <1>6. d + 1 \in kept
    <2>1. PICK m \in kept : TRUE
      OBVIOUS
    <2>2. d + 1 \in 1..n
      BY <1>2, <1>5, <2>1
    <2> HIDE DEF d
    <2>3. d + 1 \notin before
      BY <1>2, <1>4, <2>2
    <2> QED  BY <2>2, <2>3
  <1> HIDE DEF d
  <1> QED  BY <1>2, <1>5, <1>6

\* What is left of a deque after the stale times were popped is still the end
\* of the log, and all of it lies within the window.
LEMMA FreshRemembers ==
    ASSUME NEW l \in Seq(Nat), NEW b \in Seq(Nat), now \in Nat,
           Ordered(l, now), Remembers(b, l, now)
    PROVE  /\ Fresh(b) = NoBucket \/ Fresh(b) \in Seq(Nat) \ {<<>>}
           /\ Deque(Fresh(b)) \in Seq(Nat)
           /\ Remembers(Deque(Fresh(b)), l, now)
           /\ \A k \in 1..Len(Deque(Fresh(b))) : Deque(Fresh(b))[k] > now - Window
  <1> DEFINE kept == {k \in 1..Len(b) : b[k] > now - Window}
  <1>0. /\ now \in Nat /\ Window \in Nat /\ Limit \in Nat /\ NoBucket \notin Seq(Nat)
        /\ Len(l) \in Nat /\ Len(b) \in Nat
        /\ \A k \in 1..Len(l) : l[k] \in Nat
        /\ \A k \in 1..Len(b) : b[k] \in Nat
    BY GatewayAssumption
  <1>1. CASE kept = {}
    <2>1. Fresh(b) = NoBucket /\ Deque(Fresh(b)) = <<>>
      BY <1>1 DEF Fresh, Deque
    <2>2. ASSUME NEW k \in 1..Len(b)
          PROVE  b[k] <= now - Window
      <3>1. k \notin kept
        BY <1>1
      <3> QED  BY <1>0, <3>1
    <2>3. ASSUME NEW k \in 1..Len(l)
          PROVE  l[k] <= now - Window
      <3>1. CASE k <= Len(l) - Len(b)
        BY <1>0, <3>1 DEF Remembers
      <3>2. CASE k > Len(l) - Len(b)
        <4>1. k - (Len(l) - Len(b)) \in 1..Len(b)
          BY <1>0, <3>2 DEF Remembers
        <4>2. b[k - (Len(l) - Len(b))] = l[k]
          BY <4>1 DEF Remembers
        <4> QED  BY <2>2, <4>1, <4>2
      <3> QED  BY <3>1, <3>2
    <2> QED  BY <1>0, <2>1, <2>3 DEF Remembers
  <1>2. CASE kept # {}
    <2> DEFINE first == CHOOSE k \in kept : \A j \in kept : k <= j
    <2>1. \A j, k \in 1..Len(b) : j <= k => b[j] <= b[k]
      <3> TAKE j, k \in 1..Len(b)
      <3> DEFINE o == Len(l) - Len(b)
      <3>1. b[j] = l[j + o] /\ b[k] = l[k + o]
        BY DEF Remembers
      <3>2. o \in Nat /\ j + o \in 1..Len(l) /\ k + o \in 1..Len(l)
        BY <1>0 DEF Remembers
      <3> HIDE DEF o
      <3>3. j <= k => j + o <= k + o
        BY <1>0, <3>2
      <3> QED  BY <3>1, <3>2, <3>3 DEF Ordered
    <2>2. \A j, k \in 1..Len(b) : j <= k /\ j \in kept => k \in kept
      <3> TAKE j, k \in 1..Len(b)
      <3> QED  BY <1>0, <2>1
    <2>3. \E k \in kept : \A j \in kept : k <= j
      <3> HIDE DEF kept
      <3>1. kept \in SUBSET (1..Len(b))
        BY DEF kept
      <3>2. Len(b) \in Nat
        BY <1>0
      <3> QED  BY <1>2, <2>2, <3>1, <3>2, FirstPosition
    <2>4. first \in kept /\ \A j \in kept : first <= j
      BY <2>3
    <2> HIDE DEF first
    <2>5. first \in 1..Len(b)
      BY <2>4
    <2>6. Fresh(b) = SubSeq(b, first, Len(b))
      BY <1>2 DEF Fresh, first
    <2> DEFINE f == SubSeq(b, first, Len(b))
    <2>7. /\ f \in Seq(Nat)
          /\ Len(f) = Len(b) - first + 1
          /\ \A i \in 1..Len(f) : f[i] = b[first + i - 1]
      BY <2>5, SubSeqProperties
    <2> HIDE DEF f
    <2>8. f # <<>> /\ Deque(Fresh(b)) = f
      <3>1. Fresh(b) = f
        BY <2>6 DEF f
      <3>2. f # NoBucket
        BY <1>0, <2>7
      <3>3. Len(f) # 0
        BY <1>0, <2>5, <2>7
      <3> QED  BY <3>1, <3>2, <3>3 DEF Deque
    <2>9. \A k \in 1..Len(f) : f[k] > now - Window
      <3> TAKE k \in 1..Len(f)
      <3>1. first + k - 1 \in 1..Len(b) /\ first <= first + k - 1
        BY <1>0, <2>5, <2>7
      <3>2. first + k - 1 \in kept
        BY <2>2, <2>4, <2>5, <3>1
      <3> QED  BY <2>7, <3>2
    <2>10. Remembers(f, l, now)
      <3>0. Len(f) \in Nat /\ Len(f) <= Len(b)
        BY <1>0, <2>5, <2>7
      <3>1. Len(f) <= Len(l) /\ Len(f) <= Limit
        BY <1>0, <3>0 DEF Remembers
      <3>2. ASSUME NEW k \in 1..Len(f)
            PROVE  f[k] = l[k + (Len(l) - Len(f))]
        <4>1. first + k - 1 \in 1..Len(b)
          BY <1>0, <2>5, <2>7
        <4>2. b[first + k - 1] = l[(first + k - 1) + (Len(l) - Len(b))]
          BY <4>1 DEF Remembers
        <4>3. (first + k - 1) + (Len(l) - Len(b)) = k + (Len(l) - Len(f))
          BY <1>0, <2>5, <2>7
        <4> QED  BY <2>7, <4>2, <4>3
      <3>3. ASSUME NEW k \in 1..(Len(l) - Len(f))
            PROVE  l[k] <= now - Window
        <4>1. CASE k <= Len(l) - Len(b)
          BY <4>1 DEF Remembers
        <4>2. CASE k > Len(l) - Len(b)
          <5> DEFINE j == k - (Len(l) - Len(b))
          <5>0. k <= (Len(l) - Len(b)) + first - 1 /\ Len(b) <= Len(l)
            BY <1>0, <2>5, <2>7, <3>0 DEF Remembers
          <5>1. j \in 1..Len(b) /\ j < first
            BY <1>0, <2>5, <3>0, <4>2, <5>0
          <5>2. j \notin kept
            BY <2>4, <2>5, <5>1
          <5>3. b[j] = l[k]
            BY <5>1 DEF Remembers
          <5>4. b[j] \in Nat
            BY <5>1
          <5> QED  BY <1>0, <5>1, <5>2, <5>3, <5>4
        <4> QED  BY <4>1, <4>2
      <3> QED  BY <3>1, <3>2, <3>3 DEF Remembers
    <2> QED  BY <2>6, <2>7, <2>8, <2>9, <2>10 DEF f
  <1> QED  BY <1>1, <1>2

\* The deque has room exactly when the log has.
LEMMA RoomAgrees ==
    ASSUME NEW l \in Seq(Nat), NEW f \in Seq(Nat), now \in Nat, Remembers(f, l, now),
           \A k \in 1..Len(f) : f[k] > now - Window
    PROVE  Len(f) < Limit
             <=> (Len(l) < Limit \/ l[Len(l) - Limit + 1] <= now - Window)
  <1>0. /\ now \in Nat /\ Window \in Nat /\ Limit \in Nat \ {0}
        /\ Len(l) \in Nat /\ Len(f) \in Nat /\ Len(f) <= Len(l) /\ Len(f) <= Limit
        /\ \A k \in 1..Len(l) : l[k] \in Nat
    BY GatewayAssumption DEF Remembers
  <1> DEFINE edge == Len(l) - Limit + 1
  <1>1. CASE Len(l) < Limit
    BY <1>0, <1>1
  <1>2. CASE Len(l) >= Limit /\ Len(f) < Limit
    <2>1. edge \in 1..(Len(l) - Len(f))
      BY <1>0, <1>2
    <2>2. l[edge] <= now - Window
      BY <2>1 DEF Remembers
    <2> QED  BY <1>2, <2>2
  <1>3. CASE Len(l) >= Limit /\ Len(f) = Limit
    <2>1. 1 \in 1..Len(f) /\ 1 + (Len(l) - Len(f)) = edge /\ edge \in 1..Len(l)
      BY <1>0, <1>3
    <2>2. f[1] = l[edge] /\ f[1] > now - Window
      BY <2>1 DEF Remembers
    <2> QED  BY <1>0, <1>3, <2>1, <2>2
  <1> QED  BY <1>0, <1>1, <1>2, <1>3

\* Admitting a request with room keeps the log ordered, remembered and spaced.
LEMMA AppendKeeps ==
    ASSUME NEW l \in Seq(Nat), NEW f \in Seq(Nat), now \in Nat,
           Ordered(l, now), Remembers(f, l, now), Spaced(l), Len(f) < Limit
    PROVE  /\ Ordered(Append(l, now), now)
           /\ Remembers(Append(f, now), Append(l, now), now)
           /\ Spaced(Append(l, now))
  <1> DEFINE ll == Append(l, now)
             ff == Append(f, now)
  <1>0. /\ now \in Nat /\ Window \in Nat /\ Limit \in Nat \ {0}
        /\ Len(l) \in Nat /\ Len(f) \in Nat /\ Len(f) <= Len(l)
        /\ \A k \in 1..Len(l) : l[k] \in Nat
    BY GatewayAssumption DEF Remembers
  <1>1. /\ Len(ll) = Len(l) + 1
        /\ \A k \in 1..Len(l) : ll[k] = l[k]
        /\ ll[Len(l) + 1] = now
    BY AppendProperties
  <1>2. /\ Len(ff) = Len(f) + 1
        /\ \A k \in 1..Len(f) : ff[k] = f[k]
        /\ ff[Len(f) + 1] = now
    BY AppendProperties
  <1> HIDE DEF ll, ff
  <1>3. \A k \in 1..Len(ll) : k \in 1..Len(l) \/ k = Len(l) + 1
    <2>1. 1..Len(ll) = 1..(Len(l) + 1)
      BY <1>1
    <2> QED  BY <1>0, <2>1
  <1>4. Ordered(ll, now)
    <2>1. ASSUME NEW k \in 1..Len(ll)
          PROVE  ll[k] \in Nat /\ ll[k] <= now
      <3>1. CASE k \in 1..Len(l)
        BY <1>0, <1>1, <3>1 DEF Ordered
      <3>2. CASE k = Len(l) + 1
        BY <1>0, <1>1, <3>2
      <3> QED  BY <1>3, <3>1, <3>2
    <2>2. ASSUME NEW j \in 1..Len(ll), NEW k \in 1..Len(ll), j <= k
          PROVE  ll[j] <= ll[k]
      <3>1. CASE k \in 1..Len(l)
        <4>1. j \in 1..Len(l)
          BY <1>0, <2>2, <3>1
        <4> QED  BY <1>1, <2>2, <3>1, <4>1 DEF Ordered
      <3>2. CASE k = Len(l) + 1
        BY <1>1, <2>1, <3>2
      <3> QED  BY <1>3, <3>1, <3>2
    <2> QED  BY <2>1, <2>2 DEF Ordered
  <1>5. Remembers(ff, ll, now)
    <2>1. Len(ff) <= Len(ll) /\ Len(ff) <= Limit /\ Len(ll) - Len(ff) = Len(l) - Len(f)
      BY <1>0, <1>1, <1>2
    <2>2. ASSUME NEW k \in 1..Len(ff)
          PROVE  ff[k] = ll[k + (Len(l) - Len(f))]
      <3>1. CASE k \in 1..Len(f)
        <4>1. k + (Len(l) - Len(f)) \in 1..Len(l)
          BY <1>0, <3>1
        <4>2. f[k] = l[k + (Len(l) - Len(f))]
          BY <3>1 DEF Remembers
        <4> QED  BY <1>1, <1>2, <3>1, <4>1, <4>2
      <3>2. CASE k = Len(f) + 1
        <4>1. k + (Len(l) - Len(f)) = Len(l) + 1
          BY <1>0, <3>2
        <4> QED  BY <1>1, <1>2, <3>2, <4>1
      <3> QED  BY <1>0, <1>2, <3>1, <3>2
    <2>3. ASSUME NEW k \in 1..(Len(l) - Len(f))
          PROVE  ll[k] <= now - Window
      <3>1. k \in 1..Len(l)
        BY <1>0
      <3> QED  BY <1>1, <3>1 DEF Remembers
    <2> QED  BY <2>1, <2>2, <2>3 DEF Remembers
  <1>7. Spaced(ll)
    <2>0. /\ Len(l) \in Nat /\ Limit \in Nat
          /\ 1..(Len(ll) - Limit) = 1..(Len(l) + 1 - Limit)
      BY <1>0, <1>1
    <2> SUFFICES ASSUME NEW k \in 1..(Len(l) + 1 - Limit)
                 PROVE  ll[k + Limit] - ll[k] >= Window
      BY <2>0 DEF Spaced
    <2>1. k \in 1..Len(l) /\ ll[k] = l[k]
      BY <1>0, <1>1
    <2>2. CASE k + Limit \in 1..Len(l)
      <3>1. k \in 1..(Len(l) - Limit)
        BY <1>0, <2>1, <2>2
      <3>2. l[k + Limit] - l[k] >= Window
        BY <3>1 DEF Spaced
      <3> QED  BY <1>1, <2>1, <2>2, <3>2
    <2>3. CASE k + Limit = Len(l) + 1
      <3>1. k \in 1..(Len(l) - Len(f))
        BY <1>0, <2>1, <2>3
      <3>2. l[k] <= now - Window
        BY <3>1 DEF Remembers
      <3> QED  BY <1>0, <1>1, <2>1, <2>3, <3>2
    <2>4. k + Limit \in 1..Len(l) \/ k + Limit = Len(l) + 1
      <3>1. k \in Int /\ 1 <= k /\ k <= Len(l) + 1 - Limit
        BY <2>0
      <3>2. 1 <= k + Limit /\ k + Limit <= Len(l) + 1
        BY <2>0, <3>1
      <3> QED  BY <2>0, <3>1, <3>2
    <2> QED  BY <2>2, <2>3, <2>4
  <1> QED  BY <1>4, <1>5, <1>7 DEF ll, ff

-----------------------------------------------------------------------------
(* The inductive invariant.                                                *)

\* A request in flight is one of the workload's; an idle one holds nothing.
FlightOK ==
    \A r \in Requests :
        /\ stage[r] # "idle" => call[r] \in Calls
        /\ stage[r] \in {"idle", "declared", "reading"} => body[r] = NoBody

LimiterOK ==
    \A i \in Identities :
        /\ Ordered(log[i], now)
        /\ Remembers(Deque(bucket[i]), log[i], now)
        /\ Spaced(log[i])

\* No theorem about the limiter needs the bound on the clock.
Types ==
    /\ now \in Nat
    /\ bucket \in [Identities -> (Seq(Nat) \ {<<>>}) \cup {NoBucket}]
    /\ log \in [Identities -> Seq(Nat)]
    /\ stage \in [Requests -> Stages]
    /\ call \in [Requests -> Calls \cup {NoCall}]
    /\ received \in [Requests -> Nat]
    /\ body \in [Requests -> Nat \cup {NoBody}]

GatewayInv ==
    /\ Types
    /\ FlightOK
    /\ LimiterOK
    /\ DeliveredBodiesAreWhole
    /\ RefusedForAReason

LEMMA ClientIpType ==
    ASSUME NEW c \in Calls
    PROVE  ClientIp(c) \in Identities
  BY GatewayAssumption DEF ClientIp, AllCalls

LEMMA CallTypes ==
    ASSUME NEW c \in Calls
    PROVE  c.size \in Nat
  BY GatewayAssumption DEF AllCalls

\* The bucket a dispatch works on, for the client of any request it serves.
LEMMA BucketOfRemembers ==
    ASSUME GatewayInv, NEW i \in Identities
    PROVE  /\ BucketOf(i) \in Seq(Nat)
           /\ Remembers(BucketOf(i), log[i], now)
           /\ \A k \in 1..Len(BucketOf(i)) : BucketOf(i)[k] > now - Window
           /\ Len(BucketOf(i)) < Limit <=> SlidingWindowLog!HasRoom(i)
  <1>0. /\ now \in Nat /\ log[i] \in Seq(Nat) /\ Ordered(log[i], now)
        /\ Remembers(Deque(bucket[i]), log[i], now)
        /\ bucket[i] # NoBucket => bucket[i] \in Seq(Nat)
    BY DEF GatewayInv, Types, LimiterOK
  <1>1. /\ BucketOf(i) \in Seq(Nat)
        /\ Remembers(BucketOf(i), log[i], now)
        /\ \A k \in 1..Len(BucketOf(i)) : BucketOf(i)[k] > now - Window
    <2>1. CASE bucket[i] = NoBucket
      <3>1. BucketOf(i) = <<>> /\ Deque(bucket[i]) = <<>>
        BY <2>1 DEF BucketOf, Deque
      <3> QED  BY <1>0, <3>1
    <2>2. CASE bucket[i] # NoBucket
      <3>1. Deque(bucket[i]) = bucket[i] /\ BucketOf(i) = Deque(Fresh(bucket[i]))
        BY <2>2 DEF BucketOf, Deque
      <3> QED  BY <1>0, <2>2, <3>1, FreshRemembers
    <2> QED  BY <2>1, <2>2
  <1>2. Len(BucketOf(i)) < Limit
          <=> (Len(log[i]) < Limit \/ log[i][Len(log[i]) - Limit + 1] <= now - Window)
    BY <1>0, <1>1, RoomAgrees
  <1> QED  BY <1>1, <1>2 DEF SlidingWindowLog!HasRoom

LEMMA InitInv == Init => GatewayInv
  <1> SUFFICES ASSUME Init PROVE GatewayInv
    OBVIOUS
  <1> USE GatewayAssumption DEF Init
  <1>1. Types
    BY DEF Types, Stages
  <1>2. FlightOK
    BY DEF FlightOK
  <1>3. LimiterOK
    <2> SUFFICES ASSUME NEW i \in Identities
                 PROVE  /\ Ordered(log[i], now)
                        /\ Remembers(Deque(bucket[i]), log[i], now)
                        /\ Spaced(log[i])
      BY DEF LimiterOK
    <2>1. log[i] = <<>> /\ Deque(bucket[i]) = <<>> /\ now \in Nat
      BY DEF Deque
    <2>2. Ordered(<<>>, now) /\ Remembers(<<>>, <<>>, now)
      BY <2>1 DEF Ordered, Remembers
    <2>3. Spaced(<<>>)
      BY DEF Spaced
    <2> QED  BY <2>1, <2>2, <2>3
  <1>4. DeliveredBodiesAreWhole /\ RefusedForAReason
    BY DEF DeliveredBodiesAreWhole, RefusedForAReason
  <1> QED  BY <1>1, <1>2, <1>3, <1>4 DEF GatewayInv

\* The steps of the body limit leave the limiter alone.
LEMMA BodyStepInv ==
    ASSUME GatewayInv, NEW r \in Requests,
           \/ \E c \in Calls : Arrive(r, c)
           \/ RefuseDeclared(r)
           \/ StartReading(r)
           \/ Read(r)
           \/ Respond(r)
    PROVE  /\ GatewayInv'
           /\ UNCHANGED <<now, limiter>>
           /\ ~ (stage[r] = "buffered" /\ stage'[r] = "limited")
           /\ \A q \in Requests \ {r} : stage'[q] = stage[q]
  <1>0. /\ Types /\ FlightOK /\ LimiterOK
        /\ DeliveredBodiesAreWhole /\ RefusedForAReason
        /\ MaxBody \in Nat /\ NoBody \notin Nat
    BY GatewayAssumption DEF GatewayInv
  <1> DEFINE Kept == /\ UNCHANGED <<now, limiter>>
                     /\ ~ (stage[r] = "buffered" /\ stage'[r] = "limited")
                     /\ \A q \in Requests \ {r} : stage'[q] = stage[q]
                     /\ Types' /\ FlightOK'
                     /\ DeliveredBodiesAreWhole' /\ RefusedForAReason'
  <1>1. ASSUME NEW c \in Calls, Arrive(r, c)
        PROVE  Kept
    BY <1>0, <1>1 DEF Arrive, Goes, limiter, Types, Stages, FlightOK,
                      DeliveredBodiesAreWhole, RefusedForAReason
  <1>2. ASSUME RefuseDeclared(r)
        PROVE  Kept
    BY <1>0, <1>2 DEF RefuseDeclared, Goes, limiter, Types, Stages, FlightOK,
                      DeliveredBodiesAreWhole, RefusedForAReason
  <1>3. ASSUME StartReading(r)
        PROVE  Kept
    BY <1>0, <1>3 DEF StartReading, Goes, limiter, Types, Stages, FlightOK,
                      DeliveredBodiesAreWhole, RefusedForAReason
  <1>4. ASSUME Read(r)
        PROVE  Kept
    <2>1. ASSUME Disconnect(r)
          PROVE  Kept
      BY <1>0, <2>1 DEF Disconnect, Goes, limiter, Types, Stages, FlightOK,
                        DeliveredBodiesAreWhole, RefusedForAReason
    <2> SUFFICES ASSUME NEW n \in 0..(call[r].size - received[r]),
                        RefuseChunk(r, n) \/ ReceiveChunk(r, n) \/ ReceiveLastChunk(r, n)
                 PROVE  Kept
      BY <1>4, <2>1 DEF Read
    <2>0. /\ stage[r] = "reading" /\ call[r] \in Calls /\ call[r].size \in Nat
          /\ received[r] \in Nat
      BY <1>0, CallTypes DEF RefuseChunk, ReceiveChunk, ReceiveLastChunk, Goes, Types, FlightOK
    <2>2. n \in Nat /\ received[r] + n <= call[r].size
      BY <2>0
    <2>3. CASE RefuseChunk(r, n)
      <3>1. call[r].size > MaxBody
        BY <1>0, <2>0, <2>2, <2>3 DEF RefuseChunk, Fits
      <3> QED
        BY <1>0, <2>3, <3>1 DEF RefuseChunk, Goes, limiter, Types, Stages, FlightOK,
                                DeliveredBodiesAreWhole, RefusedForAReason
    <2>4. CASE ReceiveChunk(r, n)
      <3>1. received[r] + n \in Nat
        BY <2>0, <2>2
      <3> QED
        BY <1>0, <2>4, <3>1 DEF ReceiveChunk, limiter, Types, FlightOK,
                                DeliveredBodiesAreWhole, RefusedForAReason
    <2>5. CASE ReceiveLastChunk(r, n)
      <3>1. /\ received[r] + n \in Nat
            /\ received[r] + n = call[r].size /\ received[r] + n <= MaxBody
        BY <2>0, <2>2, <2>5 DEF ReceiveLastChunk, Fits
      <3> QED
        BY <1>0, <2>0, <2>5, <3>1 DEF ReceiveLastChunk, Goes, limiter, Types, Stages,
                                      FlightOK, DeliveredBodiesAreWhole, RefusedForAReason
    <2> QED  BY <2>3, <2>4, <2>5
  <1>5. ASSUME Respond(r)
        PROVE  Kept
    BY <1>0, <1>5 DEF Respond, limiter, Types, Stages, FlightOK,
                      DeliveredBodiesAreWhole, RefusedForAReason
  <1>6. Kept
    BY <1>1, <1>2, <1>3, <1>4, <1>5
  <1>7. LimiterOK'
    BY <1>0, <1>6 DEF LimiterOK, Ordered, Remembers, Spaced, Deque, limiter
  <1> QED  BY <1>6, <1>7 DEF GatewayInv

\* A dispatch that lets the request through is an admission of the log.
LEMMA AdmitInv ==
    ASSUME GatewayInv, NEW r \in Requests, Admit(r)
    PROVE  /\ GatewayInv'
           /\ \E i \in Identities : SlidingWindowLog!Admit(i)
           /\ \A q \in Requests : ~ (stage[q] = "buffered" /\ stage'[q] = "limited")
  <1> DEFINE i == ClientIp(call[r])
  <1>0. /\ Types /\ FlightOK /\ LimiterOK
        /\ DeliveredBodiesAreWhole /\ RefusedForAReason /\ now \in Nat
    BY DEF GatewayInv, Types
  <1>1. i \in Identities
    BY <1>0, ClientIpType DEF FlightOK, Admit, Goes
  <1> HIDE DEF i
  <1>2. /\ BucketOf(i) \in Seq(Nat) /\ Len(BucketOf(i)) < Limit
        /\ Remembers(BucketOf(i), log[i], now)
        /\ SlidingWindowLog!HasRoom(i)
    BY <1>1, BucketOfRemembers DEF Admit, i
  <1>3. /\ stage' = [stage EXCEPT ![r] = "admitted"] /\ stage[r] = "buffered"
        /\ bucket' = [bucket EXCEPT ![i] = Append(BucketOf(i), now)]
        /\ log' = [log EXCEPT ![i] = Append(log[i], now)]
        /\ UNCHANGED <<now, call, received, body>>
    BY DEF Admit, Goes, i
  <1>4. /\ Append(BucketOf(i), now) \in Seq(Nat) \ {<<>>}
        /\ Append(log[i], now) \in Seq(Nat)
    <2>1. log[i] \in Seq(Nat)
      BY <1>0, <1>1 DEF Types
    <2> QED  BY <1>0, <1>2, <2>1, AppendProperties
  <1>5. Types'
    BY <1>0, <1>1, <1>3, <1>4 DEF Types, Stages
  <1>6. FlightOK' /\ DeliveredBodiesAreWhole' /\ RefusedForAReason'
    BY <1>0, <1>3 DEF Types, FlightOK, DeliveredBodiesAreWhole, RefusedForAReason
  <1>7. LimiterOK'
    <2> SUFFICES ASSUME NEW j \in Identities
                 PROVE  /\ Ordered(log'[j], now')
                        /\ Remembers(Deque(bucket'[j]), log'[j], now')
                        /\ Spaced(log'[j])
      BY DEF LimiterOK, Ordered, Remembers, Spaced, Deque
    <2>1. CASE j = i
      <3>1. /\ Ordered(log[i], now) /\ Spaced(log[i]) /\ log[i] \in Seq(Nat)
        BY <1>0, <1>1 DEF LimiterOK, Types
      <3>2. /\ log'[i] = Append(log[i], now) /\ now' = now
            /\ bucket'[i] = Append(BucketOf(i), now)
        BY <1>0, <1>1, <1>3 DEF Types
      <3>3. Deque(bucket'[i]) = Append(BucketOf(i), now)
        BY <1>4, <3>2, GatewayAssumption DEF Deque
      <3> QED  BY <1>0, <1>2, <2>1, <3>1, <3>2, <3>3, AppendKeeps
    <2>2. CASE j # i
      <3>1. log'[j] = log[j] /\ bucket'[j] = bucket[j] /\ now' = now
        BY <1>0, <1>1, <1>3, <2>2 DEF Types
      <3> QED  BY <1>0, <3>1 DEF LimiterOK
    <2> QED  BY <2>1, <2>2
  <1>8. \E k \in Identities : SlidingWindowLog!Admit(k)
    BY <1>1, <1>2, <1>3 DEF SlidingWindowLog!Admit
  <1>9. \A q \in Requests : ~ (stage[q] = "buffered" /\ stage'[q] = "limited")
    BY <1>0, <1>3 DEF Types
  <1> QED  BY <1>5, <1>6, <1>7, <1>8, <1>9 DEF GatewayInv

\* A dispatch that turns the request away leaves the log alone.
LEMMA TurnAwayInv ==
    ASSUME GatewayInv, NEW r \in Requests, TurnAway(r)
    PROVE  /\ GatewayInv'
           /\ UNCHANGED <<now, log>>
           /\ \A q \in Requests : stage[q] = "buffered" /\ stage'[q] = "limited"
                => ~ SlidingWindowLog!HasRoom(ClientIp(call[q]))
  <1> DEFINE i == ClientIp(call[r])
  <1>0. /\ Types /\ FlightOK /\ LimiterOK
        /\ DeliveredBodiesAreWhole /\ RefusedForAReason /\ now \in Nat
    BY DEF GatewayInv, Types
  <1>1. i \in Identities
    BY <1>0, ClientIpType DEF FlightOK, TurnAway, Goes
  <1> HIDE DEF i
  <1>2. /\ BucketOf(i) \in Seq(Nat) /\ Len(BucketOf(i)) >= Limit /\ Limit \in Nat \ {0}
        /\ Remembers(BucketOf(i), log[i], now)
        /\ Len(BucketOf(i)) < Limit <=> SlidingWindowLog!HasRoom(i)
    BY <1>1, BucketOfRemembers, GatewayAssumption DEF TurnAway, i
  <1>3. /\ stage' = [stage EXCEPT ![r] = "limited"] /\ stage[r] = "buffered"
        /\ bucket' = [bucket EXCEPT ![i] = BucketOf(i)]
        /\ UNCHANGED <<now, log, call, received, body>>
    BY DEF TurnAway, Goes, i
  <1>4. ~ SlidingWindowLog!HasRoom(i)
    BY <1>2
  <1>5. BucketOf(i) # <<>> /\ Deque(BucketOf(i)) = BucketOf(i)
    BY <1>2, GatewayAssumption DEF Deque
  <1>6. Types'
    BY <1>0, <1>1, <1>2, <1>3, <1>5 DEF Types, Stages
  <1>7. FlightOK' /\ DeliveredBodiesAreWhole' /\ RefusedForAReason'
    BY <1>0, <1>3 DEF Types, FlightOK, DeliveredBodiesAreWhole, RefusedForAReason
  <1>8. LimiterOK'
    <2> SUFFICES ASSUME NEW j \in Identities
                 PROVE  Remembers(Deque(bucket'[j]), log[j], now)
      <3>1. log' = log /\ now' = now
        BY <1>3
      <3> QED  BY <1>0, <3>1 DEF LimiterOK, Ordered, Remembers, Spaced, Deque
    <2>1. CASE j = i
      BY <1>0, <1>1, <1>2, <1>3, <1>5, <2>1 DEF Types
    <2>2. CASE j # i
      <3>1. bucket'[j] = bucket[j]
        BY <1>0, <1>3, <2>2 DEF Types
      <3> QED  BY <1>0, <3>1 DEF LimiterOK
    <2> QED  BY <2>1, <2>2
  <1>9. ASSUME NEW q \in Requests, stage[q] = "buffered", stage'[q] = "limited"
        PROVE  ~ SlidingWindowLog!HasRoom(ClientIp(call[q]))
    <2>1. q = r
      BY <1>0, <1>3, <1>9 DEF Types
    <2> QED  BY <1>4, <2>1 DEF i
  <1> QED  BY <1>3, <1>6, <1>7, <1>8, <1>9 DEF GatewayInv

LEMMA TickInv ==
    ASSUME GatewayInv, Tick
    PROVE  GatewayInv' /\ SlidingWindowLog!Tick /\ stage' = stage
  <1>0. /\ Types /\ FlightOK /\ LimiterOK /\ now \in Nat /\ now' = now + 1
        /\ DeliveredBodiesAreWhole /\ RefusedForAReason
        /\ UNCHANGED <<bucket, log, stage, call, received, body>>
    BY DEF GatewayInv, Types, Tick, limiter
  <1>1. Types' /\ FlightOK' /\ DeliveredBodiesAreWhole' /\ RefusedForAReason'
    BY <1>0 DEF Types, FlightOK, DeliveredBodiesAreWhole, RefusedForAReason
  <1>2. LimiterOK'
    <2> SUFFICES ASSUME NEW i \in Identities
                 PROVE  /\ Ordered(log[i], now + 1)
                        /\ Remembers(Deque(bucket[i]), log[i], now + 1)
                        /\ Spaced(log[i])
      BY <1>0 DEF LimiterOK, Ordered, Remembers, Spaced, Deque
    <2>1. /\ Ordered(log[i], now) /\ Remembers(Deque(bucket[i]), log[i], now)
          /\ Spaced(log[i]) /\ log[i] \in Seq(Nat) /\ Window \in Nat
      BY <1>0, GatewayAssumption DEF LimiterOK, Types
    <2>2. \A k \in 1..Len(log[i]) : log[i][k] \in Nat
      BY <2>1
    <2>3. Ordered(log[i], now + 1)
      BY <1>0, <2>1, <2>2 DEF Ordered
    <2> DEFINE d == Deque(bucket[i])
    <2>4. /\ d \in Seq(Nat)
          /\ Remembers(d, log[i], now)
      BY <1>0, <2>1 DEF Types, Deque
    <2> HIDE DEF d
    <2>5. Remembers(d, log[i], now + 1)
      <3>1. \A k \in 1..(Len(log[i]) - Len(d)) : log[i][k] <= (now + 1) - Window
        <4> TAKE k \in 1..(Len(log[i]) - Len(d))
        <4>1. k \in 1..Len(log[i])
          BY <2>1, <2>4
        <4>2. log[i][k] <= now - Window
          BY <2>4 DEF Remembers
        <4> QED  BY <1>0, <2>1, <2>2, <4>1, <4>2
      <3> QED  BY <2>4, <3>1 DEF Remembers
    <2>6. Remembers(Deque(bucket[i]), log[i], now + 1)
      BY <2>5 DEF d
    <2> QED  BY <2>1, <2>3, <2>6
  <1>3. SlidingWindowLog!Tick
    BY <1>0 DEF SlidingWindowLog!Tick
  <1> QED  BY <1>0, <1>1, <1>2, <1>3 DEF GatewayInv

LEMMA StutterInv ==
    ASSUME GatewayInv, UNCHANGED vars
    PROVE  GatewayInv'
  BY DEF GatewayInv, vars, limiter, Types, FlightOK, LimiterOK, Ordered, Remembers, Spaced,
         Deque, DeliveredBodiesAreWhole, RefusedForAReason

\* What a step of the gateway does to the log, and when it turns a client away.
StepMeaning ==
    /\ SlidingWindowLog!Next \/ UNCHANGED <<now, log>>
    /\ \A r \in Requests : stage[r] = "buffered" /\ stage'[r] = "limited"
         => ~ SlidingWindowLog!HasRoom(ClientIp(call[r]))

LEMMA NextInv ==
    ASSUME GatewayInv, Next
    PROVE  GatewayInv' /\ StepMeaning
  <1>1. CASE Tick
    BY <1>1, TickInv DEF StepMeaning, SlidingWindowLog!Next
  <1> SUFFICES ASSUME NEW r \in Requests, Step(r)
               PROVE  GatewayInv' /\ StepMeaning
    BY <1>1 DEF Next
  <1>2. CASE Admit(r)
    BY <1>2, AdmitInv DEF StepMeaning, SlidingWindowLog!Next
  <1>3. CASE TurnAway(r)
    BY <1>3, TurnAwayInv DEF StepMeaning
  <1>4. CASE ~ Admit(r) /\ ~ TurnAway(r)
    <2>1. /\ GatewayInv'
          /\ UNCHANGED <<now, limiter>>
          /\ ~ (stage[r] = "buffered" /\ stage'[r] = "limited")
          /\ \A q \in Requests \ {r} : stage'[q] = stage[q]
      BY <1>4, BodyStepInv DEF Step
    <2>2. ASSUME NEW q \in Requests, stage[q] = "buffered", stage'[q] = "limited"
          PROVE  FALSE
      BY <2>1, <2>2
    <2> QED  BY <2>1, <2>2 DEF StepMeaning, limiter
  <1> QED  BY <1>2, <1>3, <1>4

LEMMA AlwaysInv == Spec => []GatewayInv
  <1>1. GatewayInv /\ [Next]_vars => GatewayInv'
    BY NextInv, StutterInv
  <1> QED  BY InitInv, <1>1, PTL DEF Spec

-----------------------------------------------------------------------------

LEMMA SmallerTimes ==
    ASSUME NEW s \in Seq(Nat), NEW t \in Nat, \A k \in 1..Len(s) : s[k] <= t
    PROVE  s \in Seq(0..t)
  <1>1. s \in [1..Len(s) -> 0..t]
    OBVIOUS
  <1>2. Len(s) \in Nat
    OBVIOUS
  <1> QED  BY <1>1, <1>2, SeqDef

\* Every variable keeps its type: every time in the table was read from the
\* clock, and a deque that empties leaves the table.
THEOREM TypeCorrect == Spec => []TypeOK
  <1> DEFINE Clock == now \in 0..MaxClock
  <1>1. Init => Clock
    BY GatewayAssumption DEF Init
  <1>2. Clock /\ [Next]_vars => Clock'
    <2> SUFFICES ASSUME Clock, [Next]_vars PROVE Clock'
      OBVIOUS
    <2>1. CASE Tick
      BY <2>1, GatewayAssumption DEF Tick
    <2>2. CASE UNCHANGED vars
      BY <2>2 DEF vars
    <2>3. ASSUME NEW r \in Requests, Step(r)
          PROVE  now' = now
      BY <2>3 DEF Step, Read, Arrive, RefuseDeclared, StartReading, RefuseChunk, ReceiveChunk,
                  ReceiveLastChunk, Disconnect, Admit, TurnAway, Respond
    <2> QED  BY <2>1, <2>2, <2>3 DEF Next
  <1>3. GatewayInv /\ Clock => TypeOK
    <2> SUFFICES ASSUME GatewayInv, Clock PROVE TypeOK
      OBVIOUS
    <2>0. Types /\ LimiterOK /\ MaxClock \in Nat
      BY GatewayAssumption DEF GatewayInv
    <2>1. ASSUME NEW i \in Identities
          PROVE  /\ log[i] \in Seq(0..MaxClock)
                 /\ Deque(bucket[i]) \in Seq(0..MaxClock)
      <3> DEFINE l == log[i]
                 d == Deque(bucket[i])
      <3>1. l \in Seq(Nat) /\ d \in Seq(Nat) /\ Ordered(l, now) /\ Remembers(d, l, now)
        BY <2>0 DEF Types, LimiterOK, Deque
      <3> HIDE DEF l, d
      <3>2. \A k \in 1..Len(l) : l[k] \in Nat /\ l[k] <= MaxClock
        <4> TAKE k \in 1..Len(l)
        <4>1. l[k] \in Nat /\ l[k] <= now
          BY <3>1 DEF Ordered
        <4> QED  BY <2>0, <4>1
      <3>3. \A k \in 1..Len(d) : d[k] <= MaxClock
        <4> TAKE k \in 1..Len(d)
        <4>1. k + (Len(l) - Len(d)) \in 1..Len(l)
          BY <3>1 DEF Remembers
        <4>2. d[k] = l[k + (Len(l) - Len(d))]
          BY <3>1 DEF Remembers
        <4> QED  BY <3>2, <4>1, <4>2
      <3>4. l \in Seq(0..MaxClock) /\ d \in Seq(0..MaxClock)
        BY <2>0, <3>1, <3>2, <3>3, SmallerTimes
      <3> QED  BY <3>4 DEF l, d
    <2>2. log \in [Identities -> Seq(0..MaxClock)]
      BY <2>0, <2>1 DEF Types
    <2>3. bucket \in [Identities -> (Seq(0..MaxClock) \ {<<>>}) \cup {NoBucket}]
      <3>1. ASSUME NEW i \in Identities
            PROVE  bucket[i] \in (Seq(0..MaxClock) \ {<<>>}) \cup {NoBucket}
        BY <2>0, <2>1 DEF Types, Deque
      <3> QED  BY <2>0, <3>1 DEF Types
    <2> QED  BY <2>0, <2>2, <2>3 DEF Types, TypeOK
  <1> QED  BY AlwaysInv, <1>1, <1>2, <1>3, PTL DEF Spec

\* At any limit and window, no window of the limiter's length holds more than
\* Limit admissions of one client, though deques are cut and dropped.
THEOREM WindowIsRespected == Spec => []NoWindowExceedsLimit
  <1>1. GatewayInv => NoWindowExceedsLimit
    BY DEF GatewayInv, LimiterOK, Spaced, NoWindowExceedsLimit,
           SlidingWindowLog!NoWindowExceedsLimit
  <1> QED  BY AlwaysInv, <1>1, PTL

\* A body the application sees is complete and within the limit.
THEOREM BodiesAreWhole == Spec => []DeliveredBodiesAreWhole
  <1>1. GatewayInv => DeliveredBodiesAreWhole
    BY DEF GatewayInv
  <1> QED  BY AlwaysInv, <1>1, PTL

\* Only a body or a declaration that is too large, or a malformed one, is
\* refused for its size.
THEOREM RefusalsAreJustified == Spec => []RefusedForAReason
  <1>1. GatewayInv => RefusedForAReason
    BY DEF GatewayInv
  <1> QED  BY AlwaysInv, <1>1, PTL

\* A client is turned away only when its last Limit admissions are all within
\* the window.
THEOREM NobodyIsTurnedAwayEarly == Spec => TurnedAwayOnlyWhenFull
  <1>1. GatewayInv /\ [Next]_vars
          => [ \A r \in Requests : stage[r] = "buffered" /\ stage'[r] = "limited"
                 => ~ SlidingWindowLog!HasRoom(ClientIp(call[r])) ]_vars
    BY NextInv DEF StepMeaning
  <1> QED  BY AlwaysInv, <1>1, PTL DEF Spec, TurnedAwayOnlyWhenFull

\* The table of deques implements the window over the whole history.
THEOREM GatewayImplementsWindow == Spec => ImplementsSlidingWindow
  <1>1. Init => SlidingWindowLog!Init
    BY DEF Init, SlidingWindowLog!Init
  <1>2. GatewayInv /\ [Next]_vars => [SlidingWindowLog!Next]_<<now, log>>
    BY NextInv DEF StepMeaning, vars, limiter
  <1> QED
    BY AlwaysInv, <1>1, <1>2, PTL
    DEF Spec, ImplementsSlidingWindow, SlidingWindowLog!Spec, SlidingWindowLog!windowVars

=============================================================================
