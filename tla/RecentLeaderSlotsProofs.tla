----------------------- MODULE RecentLeaderSlotsProofs -----------------------
(***************************************************************************)
(* Proofs about RecentLeaderSlots, for any set of slots, any length of the *)
(* window and any skip distance.                                           *)
(*                                                                         *)
(* The bounds on the estimate are facts about every window, so the         *)
(* invariant behind them is the type of the window alone.  What they need  *)
(* is that the median exists: in a non-empty window, the least slot with   *)
(* more than k entries up to it has at most k entries below it.            *)
(***************************************************************************)
EXTENDS RecentLeaderSlots, SortedSetsProofs, SequenceTheorems, WellFoundedInduction

-----------------------------------------------------------------------------
(* Least and greatest numbers.                                             *)

\* A non-empty set of numbers has a least one.
LEMMA LeastExists ==
  ASSUME NEW S \in SUBSET Nat, S # {}
  PROVE  \E x \in S : \A y \in S : x <= y
<1>1. PICK x \in S : \A y \in S : ~ (<<y, x>> \in OpToRel(<, Nat))
  BY NatLessThanWellFounded, WFMin
<1>2. ASSUME NEW y \in S PROVE x <= y
  <2>1. x \in Nat /\ y \in Nat
    OBVIOUS
  <2>2. <<y, x>> \in Nat \X Nat
    BY <2>1
  <2>3. ~ (y < x)
    BY <1>1, <2>2 DEF OpToRel
  <2> QED
    BY <2>1, <2>3
<1> QED
  BY <1>2

\* A non-empty set of numbers with a bound has a greatest one, which is its Max.
LEMMA MaxOfBounded ==
  ASSUME NEW S \in SUBSET Nat, S # {}, NEW b \in Nat, \A s \in S : s <= b
  PROVE  Max(S) \in S /\ \A s \in S : s <= Max(S)
<1> DEFINE D == {b - s : s \in S}
<1>0. \A s \in S : b - s \in Nat
  OBVIOUS
<1>1. D \in SUBSET Nat /\ D # {}
  BY <1>0
<1>2. PICK d \in D : \A e \in D : d <= e
  BY <1>1, LeastExists
<1>3. PICK m \in S : d = b - m
  OBVIOUS
<1>4. \A s \in S : m >= s
  <2> SUFFICES ASSUME NEW s \in S PROVE m >= s
    OBVIOUS
  <2>1. b - m <= b - s
    BY <1>2, <1>3
  <2> QED
    BY <2>1
<1>5. Max(S) \in S /\ \A s \in S : Max(S) >= s
  BY <1>4 DEF Max
<1> QED
  BY <1>5

\* The Max of two numbers.
LEMMA MaxOfTwo ==
  ASSUME NEW a \in Nat, NEW b \in Int
  PROVE  /\ Max({a, b}) \in {a, b}
         /\ Max({a, b}) >= a /\ Max({a, b}) >= b
<1>1. \E x \in {a, b} : \A y \in {a, b} : x >= y
  OBVIOUS
<1> QED
  BY <1>1 DEF Max

-----------------------------------------------------------------------------
(* Windows.                                                                *)

Window(w) == Len(w) \in Nat \ {0} /\ w \in [1 .. Len(w) -> Nat]

\* The indices below, up to and beyond a value can be counted.
LEMMA Counting ==
  ASSUME NEW w, Window(w), NEW v
  PROVE  /\ IsFiniteSet(DOMAIN w) /\ Cardinality(DOMAIN w) = Len(w)
         /\ IsFiniteSet(Below(w, v)) /\ Cardinality(Below(w, v)) \in Nat
         /\ IsFiniteSet(UpTo(w, v)) /\ Cardinality(UpTo(w, v)) \in Nat
         /\ IsFiniteSet(Beyond(w, v)) /\ Cardinality(Beyond(w, v)) \in Nat
<1>1. DOMAIN w = 1 .. Len(w)
  BY DEF Window
<1>2. IsFiniteSet(DOMAIN w) /\ Cardinality(DOMAIN w) = Len(w)
  BY <1>1, FS_Interval DEF Window
<1>3. \A T \in SUBSET DOMAIN w : IsFiniteSet(T) /\ Cardinality(T) \in Nat
  BY <1>2, FS_Subset, FS_CardinalityType
<1> QED
  BY <1>2, <1>3 DEF Below, UpTo, Beyond

\* Some number bounds the slots of a window.
LEMMA Bounded ==
  ASSUME NEW w, Window(w)
  PROVE  \E b \in Nat : \A i \in DOMAIN w : w[i] <= b
<1> DEFINE Good(n) == \E b \in Nat : \A i \in 1 .. n : w[i] <= b
<1> DEFINE Bad == {n \in Nat : n <= Len(w) /\ ~Good(n)}
<1>1. /\ Len(w) \in Nat /\ DOMAIN w = 1 .. Len(w)
      /\ \A i \in 1 .. Len(w) : w[i] \in Nat
  BY DEF Window
<1>2. Good(0)
  <2>1. \A i \in 1 .. 0 : w[i] <= 0
    OBVIOUS
  <2> QED
    BY <2>1
<1>3. ASSUME NEW n \in Nat, n + 1 <= Len(w), Good(n) PROVE Good(n + 1)
  <2>1. PICK b \in Nat : \A i \in 1 .. n : w[i] <= b
    BY <1>3
  <2>2. w[n + 1] \in Nat
    BY <1>1, <1>3
  <2>3. ASSUME NEW i \in 1 .. (n + 1) PROVE w[i] <= b + w[n + 1]
    <3>1. CASE i = n + 1
      BY <3>1, <2>2
    <3>2. CASE i # n + 1
      <4>1. i \in 1 .. n /\ i \in 1 .. Len(w)
        BY <3>2, <1>1, <1>3
      <4>2. w[i] \in Nat /\ w[i] <= b
        BY <4>1, <2>1, <1>1
      <4> QED
        BY <4>2, <2>2
    <3> QED
      BY <3>1, <3>2
  <2>4. b + w[n + 1] \in Nat
    BY <2>2
  <2> QED
    BY <2>3, <2>4
<1> HIDE DEF Good
<1>4. Bad = {}
  <2> SUFFICES ASSUME Bad # {} PROVE FALSE
    OBVIOUS
  <2>1. PICK n \in Bad : \A m \in Bad : n <= m
    BY LeastExists
  <2>2. n \in Nat /\ n # 0 /\ n <= Len(w) /\ ~Good(n)
    BY <2>1, <1>2
  <2>3. n - 1 \in Nat /\ n - 1 <= Len(w) /\ n - 1 \notin Bad
    BY <2>1, <2>2, <1>1
  <2>4. Good(n - 1)
    BY <2>3
  <2>5. Good((n - 1) + 1)
    BY <2>2, <2>3, <2>4, <1>1, <1>3
  <2>6. (n - 1) + 1 = n
    BY <2>2
  <2> QED
    BY <2>2, <2>5, <2>6
<1>5. Good(Len(w))
  BY <1>1, <1>4
<1> QED
  BY <1>1, <1>5 DEF Good

\* Every index of the sorted window has a slot: the CHOOSE of SortedAt is met.
LEMMA SortedAtExists ==
  ASSUME NEW w, Window(w), NEW k \in 0 .. (Len(w) - 1)
  PROVE  /\ SortedAt(w, k) \in ToSet(w)
         /\ Cardinality(Below(w, SortedAt(w, k))) <= k
         /\ k < Cardinality(UpTo(w, SortedAt(w, k)))
<1>1. DOMAIN w = 1 .. Len(w) /\ \A i \in DOMAIN w : w[i] \in Nat
  BY DEF Window
<1>2. ToSet(w) \in SUBSET Nat
  BY <1>1 DEF ToSet
<1> DEFINE V == {v \in Nat : k < Cardinality(UpTo(w, v))}
<1>3. V # {}
  <2>1. PICK b \in Nat : \A i \in DOMAIN w : w[i] <= b
    BY Bounded
  <2>2. UpTo(w, b) = DOMAIN w
    BY <2>1 DEF UpTo
  <2>3. b \in V
    BY <2>2, Counting DEF Window
  <2> QED
    BY <2>3
<1>4. PICK v \in V : \A u \in V : v <= u
  BY <1>3, LeastExists
\* Below the least such v fewer slots can be found: w has no slot in between.
<1>5. Cardinality(Below(w, v)) <= k
  <2>1. CASE v = 0
    <3>1. Below(w, v) = {}
      BY <2>1, <1>1 DEF Below
    <3> QED
      BY <3>1, FS_EmptySet
  <2>2. CASE v # 0
    <3>1. v - 1 \in Nat /\ v - 1 \notin V
      BY <2>2, <1>4
    <3>2. Cardinality(UpTo(w, v - 1)) <= k
      BY <3>1, Counting
    <3>3. Below(w, v) = UpTo(w, v - 1)
      BY <3>1, <1>1 DEF Below, UpTo
    <3> QED
      BY <3>2, <3>3
  <2> QED
    BY <2>1, <2>2
<1>6. v \in ToSet(w)
  <2> SUFFICES ASSUME v \notin ToSet(w) PROVE FALSE
    OBVIOUS
  <2>1. \A i \in DOMAIN w : w[i] # v
    BY DEF ToSet
  <2>2. UpTo(w, v) = Below(w, v)
    BY <2>1, <1>1 DEF UpTo, Below
  <2> QED
    BY <2>2, <1>4, <1>5, Counting
<1>7. \E u \in ToSet(w) : Cardinality(Below(w, u)) <= k /\ k < Cardinality(UpTo(w, u))
  BY <1>4, <1>5, <1>6
<1> QED
  BY <1>7 DEF SortedAt

-----------------------------------------------------------------------------
(* The estimate of a window.                                               *)

Median(w) == SortedAt(w, MedianIndex(w))

\* Where the median is, and how many slots lie on either side of it.
LEMMA MedianFacts ==
  ASSUME NEW w, Window(w)
  PROVE  /\ MedianIndex(w) \in Nat /\ Spread(w) \in Nat
         /\ 2 * MedianIndex(w) <= Len(w) - 1 /\ Len(w) <= 2 * MedianIndex(w) + 2
         /\ Median(w) \in ToSet(w) /\ Median(w) \in Nat
         /\ Cardinality(Below(w, Median(w))) <= MedianIndex(w)
         /\ MedianIndex(w) < Cardinality(UpTo(w, Median(w)))
<1>1. Len(w) \in Nat /\ Len(w) >= 1
  BY DEF Window
<1>2. /\ MedianIndex(w) \in Nat /\ Spread(w) \in Nat
      /\ 2 * MedianIndex(w) <= Len(w) - 1 /\ Len(w) <= 2 * MedianIndex(w) + 2
      /\ MedianIndex(w) \in 0 .. (Len(w) - 1)
  BY <1>1 DEF MedianIndex, MaxIndex, Spread
<1>3. /\ Median(w) \in ToSet(w)
      /\ Cardinality(Below(w, Median(w))) <= MedianIndex(w)
      /\ MedianIndex(w) < Cardinality(UpTo(w, Median(w)))
  BY <1>2, SortedAtExists DEF Median
<1>4. Median(w) \in Nat
  BY <1>3 DEF ToSet, Window
<1> QED
  BY <1>2, <1>3, <1>4

\* The estimate is a recorded slot between the median and the reasonable
\* maximum, so that the find in estimated_current_slot never comes back empty.
LEMMA EstimateBetween ==
  ASSUME NEW w, Window(w)
  PROVE  /\ EstimatedSlot(w) \in ToSet(w) /\ EstimatedSlot(w) \in Nat
         /\ Median(w) <= EstimatedSlot(w)
         /\ EstimatedSlot(w) <= Median(w) + Spread(w) + MaxSlotSkipDistance
<1> DEFINE S == {s \in ToSet(w) : s <= MaxReasonableSlot(w)}
<1>1. ToSet(w) \in SUBSET Nat
  BY DEF ToSet, Window
<1>2. MaxReasonableSlot(w) = Median(w) + Spread(w) + MaxSlotSkipDistance
  BY DEF MaxReasonableSlot, Median
<1>3. MaxReasonableSlot(w) \in Nat /\ Median(w) <= MaxReasonableSlot(w)
  BY <1>2, MedianFacts, SkipAssumption
<1>4. Median(w) \in S
  BY <1>3, MedianFacts
<1>5. Max(S) \in S /\ \A s \in S : s <= Max(S)
  BY <1>1, <1>3, <1>4, MaxOfBounded
<1>6. EstimatedSlot(w) = Max(S)
  BY DEF EstimatedSlot
<1> QED
  BY <1>1, <1>2, <1>4, <1>5, <1>6

\* If fewer than half of a window lies below T, neither does the estimate.
LEMMA PastSlots ==
  ASSUME NEW w, Window(w), NEW T \in Nat, 2 * Cardinality(Below(w, T)) < Len(w)
  PROVE  EstimatedSlot(w) >= T
<1>1. Median(w) >= T
  <2> SUFFICES ASSUME Median(w) < T PROVE FALSE
    BY MedianFacts
  <2>0. Median(w) \in Nat /\ \A i \in DOMAIN w : w[i] \in Nat
    BY MedianFacts DEF Window
  <2>1. UpTo(w, Median(w)) \subseteq Below(w, T)
    BY <2>0 DEF UpTo, Below
  <2>2. Cardinality(UpTo(w, Median(w))) <= Cardinality(Below(w, T))
    BY <2>1, Counting, FS_Subset
  <2>3. MedianIndex(w) + 1 <= Cardinality(Below(w, T))
    BY <2>2, MedianFacts, Counting
  <2>4. MedianIndex(w) \in Nat /\ Len(w) \in Nat /\ Len(w) <= 2 * MedianIndex(w) + 2
    BY MedianFacts DEF Window
  <2>5. Cardinality(Below(w, T)) \in Nat
    BY Counting
  <2> QED
    BY <2>3, <2>4, <2>5
<1> QED
  BY <1>1, EstimateBetween, MedianFacts

\* If at most half of a window lies beyond T, the estimate exceeds T by no more
\* than the spread and the skip distance.
LEMMA FutureSlots ==
  ASSUME NEW w, Window(w), NEW T \in Nat, 2 * Cardinality(Beyond(w, T)) <= Len(w)
  PROVE  EstimatedSlot(w) <= T + Spread(w) + MaxSlotSkipDistance
<1>1. Median(w) <= T
  <2> SUFFICES ASSUME Median(w) > T PROVE FALSE
    BY MedianFacts
  <2>0. Median(w) \in Nat /\ \A i \in DOMAIN w : w[i] \in Nat
    BY MedianFacts DEF Window
  <2>1. DOMAIN w \ Below(w, Median(w)) \subseteq Beyond(w, T)
    BY <2>0 DEF Below, Beyond
  <2>2. Below(w, Median(w)) \subseteq DOMAIN w
    BY DEF Below
  <2>3. DOMAIN w \cap Below(w, Median(w)) = Below(w, Median(w))
    BY <2>2
  <2>4. Cardinality(DOMAIN w \ Below(w, Median(w))) = Len(w) - Cardinality(Below(w, Median(w)))
    <3>1. IsFiniteSet(DOMAIN w) /\ Cardinality(DOMAIN w) = Len(w)
      BY Counting
    <3>2. Cardinality(DOMAIN w \ Below(w, Median(w)))
            = Cardinality(DOMAIN w) - Cardinality(DOMAIN w \cap Below(w, Median(w)))
      BY <3>1, FS_Difference
    <3> QED
      BY <3>1, <3>2, <2>3
  <2>5. Len(w) - Cardinality(Below(w, Median(w))) <= Cardinality(Beyond(w, T))
    BY <2>1, <2>4, Counting, FS_Subset
  <2>6. /\ MedianIndex(w) \in Nat /\ Len(w) \in Nat /\ 2 * MedianIndex(w) <= Len(w) - 1
        /\ Cardinality(Below(w, Median(w))) <= MedianIndex(w)
    BY MedianFacts DEF Window
  <2>7. Cardinality(Below(w, Median(w))) \in Nat /\ Cardinality(Beyond(w, T)) \in Nat
    BY Counting
  <2> QED
    BY <2>5, <2>6, <2>7
<1> QED
  BY <1>1, EstimateBetween, MedianFacts, SkipAssumption

-----------------------------------------------------------------------------
(* Windows in order.                                                       *)

\* Recording appends a slot, and drops the oldest one once the deque is full.
LEMMA RecordedIs ==
  ASSUME NEW w \in Seq(Nat), Len(w) \in 1 .. RecentLen, NEW s \in Nat
  PROVE  LET r == Recorded(w, s)
         IN  /\ r \in Seq(Nat)
             /\ r[Len(r)] = s
             /\ Len(w) < RecentLen => /\ Len(r) = Len(w) + 1
                                      /\ \A i \in 1 .. Len(w) : r[i] = w[i]
             /\ Len(w) = RecentLen => /\ Len(r) = Len(w)
                                      /\ \A i \in 1 .. Len(w) - 1 : r[i] = w[i + 1]
<1> DEFINE a == Append(w, s)
           first == Max({1, Len(a) - RecentLen + 1})
<1>1. /\ a \in Seq(Nat) /\ Len(a) = Len(w) + 1
      /\ \A i \in 1 .. Len(w) : a[i] = w[i]
      /\ a[Len(w) + 1] = s
  OBVIOUS
<1>2. first = IF Len(w) < RecentLen THEN 1 ELSE 2
  <2>1. first \in {1, Len(a) - RecentLen + 1} /\ first >= 1 /\ first >= Len(a) - RecentLen + 1
    BY <1>1, MaxOfTwo, RecentLenAssumption
  <2> HIDE DEF first
  <2> QED
    BY <1>1, <2>1, RecentLenAssumption
<1> HIDE DEF a, first
<1>3. first \in 1 .. Len(a)
  BY <1>1, <1>2
<1>4. /\ SubSeq(a, first, Len(a)) \in Seq(Nat)
      /\ Len(SubSeq(a, first, Len(a))) = Len(a) - first + 1
      /\ \A i \in 1 .. Len(a) - first + 1 : SubSeq(a, first, Len(a))[i] = a[first + i - 1]
  <2>1. first \in Int /\ Len(a) \in Int /\ first <= Len(a)
    BY <1>1, <1>3
  <2>2. \A i \in first .. Len(a) : a[i] \in Nat
    BY <1>1, <1>3
  <2>3. /\ SubSeq(a, first, Len(a)) \in Seq(Nat)
        /\ Len(SubSeq(a, first, Len(a))) = IF first <= Len(a) THEN Len(a) - first + 1 ELSE 0
        /\ \A i \in 1 .. Len(a) - first + 1 : SubSeq(a, first, Len(a))[i] = a[first + i - 1]
    BY <2>1, <2>2, SubSeqProperties
  <2> QED
    BY <2>1, <2>3
<1>5. Recorded(w, s) = SubSeq(a, first, Len(a))
  BY DEF Recorded, a, first
<1> DEFINE r == Recorded(w, s)
<1>6. /\ r \in Seq(Nat) /\ Len(r) = Len(a) - first + 1
      /\ \A i \in 1 .. Len(r) : r[i] = a[first + i - 1]
  BY <1>4, <1>5
<1> HIDE DEF r
<1>7. r[Len(r)] = s
  <2>1. Len(r) \in 1 .. Len(r) /\ first + Len(r) - 1 = Len(w) + 1
    BY <1>1, <1>2, <1>6
  <2> QED
    BY <1>1, <1>6, <2>1
<1>8. CASE Len(w) < RecentLen
  <2>1. first = 1 /\ Len(r) = Len(w) + 1
    BY <1>1, <1>2, <1>6, <1>8
  <2>2. \A i \in 1 .. Len(w) : r[i] = w[i]
    BY <1>1, <1>6, <2>1
  <2> QED
    BY <1>6, <1>7, <1>8, <2>1, <2>2, RecentLenAssumption DEF r
<1>9. CASE Len(w) = RecentLen
  <2>1. first = 2 /\ Len(r) = Len(w)
    BY <1>1, <1>2, <1>6, <1>9, RecentLenAssumption
  <2>2. ASSUME NEW i \in 1 .. Len(w) - 1 PROVE r[i] = w[i + 1]
    <3>1. i \in 1 .. Len(r) /\ i + 1 \in 1 .. Len(w) /\ first + i - 1 = i + 1
      BY <2>1
    <3> QED
      BY <1>1, <1>6, <3>1
  <2> QED
    BY <1>6, <1>7, <1>9, <2>1, <2>2, RecentLenAssumption DEF r
<1> QED
  BY <1>8, <1>9, RecentLenAssumption

\* In a window in order, counting selects the entry at the index.
LEMMA SelectedInOrder ==
  ASSUME NEW w, Window(w), IsInOrder(w), NEW k \in 0 .. (Len(w) - 1),
         NEW v \in ToSet(w), Cardinality(Below(w, v)) <= k, k < Cardinality(UpTo(w, v))
  PROVE  v = w[k + 1]
<1>1. Cardinality(Below(w, v)) <= k /\ k < Cardinality(UpTo(w, v))
  OBVIOUS
<1>2. /\ DOMAIN w = 1 .. Len(w) /\ Len(w) \in Nat /\ \A i \in DOMAIN w : w[i] \in Nat
      /\ k + 1 \in DOMAIN w
  BY DEF Window
<1>3. v \in Nat
  BY <1>1, <1>2 DEF ToSet
<1>4. ASSUME v > w[k + 1] PROVE FALSE
  <2>1. 1 .. (k + 1) \subseteq Below(w, v)
    <3>1. ASSUME NEW i \in 1 .. (k + 1) PROVE i \in Below(w, v)
      <4>1. i \in DOMAIN w /\ w[i] <= w[k + 1]
        BY <1>2 DEF IsInOrder
      <4> QED
        BY <1>2, <1>3, <1>4, <4>1 DEF Below
    <3> QED
      BY <3>1
  <2>2. Cardinality(1 .. (k + 1)) = k + 1
    BY FS_Interval
  <2>3. k + 1 <= Cardinality(Below(w, v))
    BY <2>1, <2>2, Counting, FS_Subset
  <2> QED
    BY <1>1, <2>3, Counting
<1>5. ASSUME v < w[k + 1] PROVE FALSE
  <2>1. UpTo(w, v) \subseteq 1 .. k
    <3>1. ASSUME NEW i \in UpTo(w, v) PROVE i \in 1 .. k
      <4>1. i \in 1 .. Len(w) /\ w[i] <= v
        BY <1>2 DEF UpTo
      <4>2. ~(k + 1 <= i)
        BY <1>2, <1>3, <1>5, <4>1 DEF IsInOrder
      <4> QED
        BY <4>1, <4>2
    <3> QED
      BY <3>1
  <2>2. IsFiniteSet(1 .. k) /\ Cardinality(1 .. k) = k
    BY FS_Interval
  <2>3. Cardinality(UpTo(w, v)) <= k
    BY <2>1, <2>2, FS_Subset
  <2> QED
    BY <1>1, <2>3, Counting
<1> QED
  BY <1>2, <1>3, <1>4, <1>5

\* A window in order is sorted already.
LEMMA InOrderIsSorted ==
  ASSUME NEW w, Window(w), IsInOrder(w), NEW k \in 0 .. (Len(w) - 1)
  PROVE  SortedAt(w, k) = w[k + 1]
BY SortedAtExists, SelectedInOrder

\* A window with a slot more, or with the oldest one replaced by a new one, is
\* one whose median did not go down.
LEMMA MedianGrows ==
  ASSUME RecentLen > 1, NEW w \in Seq(Nat), Len(w) \in 1 .. RecentLen, NEW s \in Nat,
         IsInOrder(w), IsInOrder(Recorded(w, s))
  PROVE  LET r == Recorded(w, s)
         IN  /\ Window(w) /\ Window(r)
             /\ Median(w) <= Median(r) /\ Spread(w) <= Spread(r)
<1> DEFINE r == Recorded(w, s)
<1>1. /\ r \in Seq(Nat) /\ r[Len(r)] = s
      /\ Len(w) < RecentLen => Len(r) = Len(w) + 1 /\ \A i \in 1 .. Len(w) : r[i] = w[i]
      /\ Len(w) = RecentLen => Len(r) = Len(w) /\ \A i \in 1 .. Len(w) - 1 : r[i] = w[i + 1]
  BY RecordedIs
<1>2. IsInOrder(r)
  OBVIOUS
<1> HIDE DEF r
<1>3. Len(w) < RecentLen \/ Len(w) = RecentLen
  BY RecentLenAssumption
<1>4. Window(w) /\ Window(r)
  BY <1>1, <1>3 DEF Window
<1>5. /\ MedianIndex(w) \in 0 .. (Len(w) - 1) /\ MedianIndex(r) \in 0 .. (Len(r) - 1)
      /\ Median(w) = w[MedianIndex(w) + 1] /\ Median(r) = r[MedianIndex(r) + 1]
      /\ Median(w) \in Nat /\ Median(r) \in Nat
  <2>1. /\ MedianIndex(w) \in 0 .. (Len(w) - 1) /\ MedianIndex(r) \in 0 .. (Len(r) - 1)
    BY <1>4, MedianFacts DEF Window
  <2> QED
    BY <1>2, <1>4, <2>1, InOrderIsSorted, MedianFacts DEF Median
<1>6. CASE Len(w) < RecentLen
  <2>1. /\ MedianIndex(w) <= MedianIndex(r) /\ Spread(w) <= Spread(r)
    BY <1>1, <1>6 DEF MedianIndex, MaxIndex, Spread
  <2>2. r[MedianIndex(w) + 1] = w[MedianIndex(w) + 1]
    <3>1. MedianIndex(w) + 1 \in 1 .. Len(w)
      BY <1>5
    <3> QED
      BY <1>1, <1>6, <3>1
  <2>3. r[MedianIndex(w) + 1] <= r[MedianIndex(r) + 1]
    <3>1. CASE MedianIndex(w) = MedianIndex(r)
      BY <1>5, <3>1
    <3>2. CASE MedianIndex(w) < MedianIndex(r)
      <4>1. MedianIndex(w) + 1 \in DOMAIN r /\ MedianIndex(r) + 1 \in DOMAIN r
        <5>1. DOMAIN r = 1 .. Len(r) /\ Len(r) \in Nat
          BY <1>4 DEF Window
        <5>2. MedianIndex(w) \in Nat /\ MedianIndex(r) \in 0 .. (Len(r) - 1)
          BY <1>5
        <5> QED
          BY <3>2, <5>1, <5>2
      <4> QED
        BY <1>2, <1>5, <3>2, <4>1 DEF IsInOrder
    <3> QED
      BY <1>5, <2>1, <3>1, <3>2
  <2> QED
    BY <1>4, <1>5, <2>1, <2>2, <2>3 DEF r
<1>7. CASE Len(w) = RecentLen
  <2>1. /\ Len(w) > 1 /\ Len(r) = Len(w)
        /\ MedianIndex(w) = MedianIndex(r) /\ Spread(w) = Spread(r) /\ Spread(w) \in Nat
    BY <1>1, <1>4, <1>7, MedianFacts DEF MedianIndex, MaxIndex, Spread
  <2>2. MedianIndex(w) + 1 \in 1 .. Len(w) - 1
    BY <1>5, <2>1, MedianFacts, <1>4 DEF MedianIndex, MaxIndex
  <2>5. /\ Len(w) \in Nat /\ MedianIndex(w) \in Nat /\ DOMAIN w = 1 .. Len(w)
    BY <1>5
  <2>3. r[MedianIndex(w) + 1] = w[MedianIndex(w) + 2]
    <3>1. (MedianIndex(w) + 1) + 1 = MedianIndex(w) + 2
      BY <2>5
    <3> QED
      BY <1>1, <1>7, <2>2, <3>1
  <2>4. w[MedianIndex(w) + 1] <= w[MedianIndex(w) + 2]
    <3>1. MedianIndex(w) + 1 \in 1 .. Len(w) /\ MedianIndex(w) + 2 \in 1 .. Len(w)
      BY <2>2, <2>5
    <3>2. MedianIndex(w) + 1 < MedianIndex(w) + 2
      BY <2>5
    <3> QED
      BY <2>5, <3>1, <3>2 DEF IsInOrder
  <2> QED
    BY <1>4, <1>5, <2>1, <2>3, <2>4 DEF r
<1> QED
  BY <1>3, <1>6, <1>7

\* Slots in order never move the estimate back: it stays in the window, or was
\* the oldest slot of it.
LEMMA InOrderSlots ==
  ASSUME RecentLen > 1, NEW w \in Seq(Nat), Len(w) \in 1 .. RecentLen, NEW s \in Nat,
         IsInOrder(w), IsInOrder(Recorded(w, s))
  PROVE  EstimatedSlot(Recorded(w, s)) >= EstimatedSlot(w)
<1> DEFINE r == Recorded(w, s)
           e == EstimatedSlot(w)
           S == {x \in ToSet(r) : x <= MaxReasonableSlot(r)}
<1>1. /\ r \in Seq(Nat) /\ r[Len(r)] = s
      /\ Len(w) < RecentLen => Len(r) = Len(w) + 1 /\ \A i \in 1 .. Len(w) : r[i] = w[i]
      /\ Len(w) = RecentLen => Len(r) = Len(w) /\ \A i \in 1 .. Len(w) - 1 : r[i] = w[i + 1]
  BY RecordedIs
<1>2. /\ Window(w) /\ Window(r) /\ Median(w) <= Median(r) /\ Spread(w) <= Spread(r)
      /\ IsInOrder(r)
  BY MedianGrows
<1> HIDE DEF r, e, S
<1>3. /\ e \in ToSet(w) /\ e \in Nat /\ e <= Median(w) + Spread(w) + MaxSlotSkipDistance
      /\ EstimatedSlot(r) \in ToSet(r) /\ EstimatedSlot(r) \in Nat
      /\ Median(r) <= EstimatedSlot(r)
      /\ EstimatedSlot(r) <= Median(r) + Spread(r) + MaxSlotSkipDistance
  BY <1>2, EstimateBetween DEF e
<1>4. /\ MaxReasonableSlot(r) = Median(r) + Spread(r) + MaxSlotSkipDistance
      /\ Median(w) \in Nat /\ Median(r) \in Nat /\ Spread(w) \in Nat /\ Spread(r) \in Nat
  BY <1>2, MedianFacts DEF MaxReasonableSlot, Median
<1>5. CASE e \in ToSet(r)
  <2>1. e \in S
    BY <1>2, <1>3, <1>4, <1>5, SkipAssumption DEF S
  <2>2. S \in SUBSET Nat /\ MaxReasonableSlot(r) \in Nat /\ \A x \in S : x <= MaxReasonableSlot(r)
    BY <1>1, <1>4, SkipAssumption DEF S, ToSet
  <2>3. e <= Max(S)
    BY <2>1, <2>2, MaxOfBounded
  <2> QED
    BY <1>3, <2>1, <2>2, <2>3, MaxOfBounded DEF EstimatedSlot, S, r, e
<1>6. CASE e \notin ToSet(r)
  <2>1. PICK i \in 1 .. Len(w) : e = w[i]
    BY <1>3 DEF ToSet
  <2>2. Len(w) = RecentLen /\ Len(w) > 1
    <3>1. ASSUME Len(w) < RecentLen PROVE FALSE
      <4>1. i \in DOMAIN r /\ r[i] = e
        BY <1>1, <2>1, <3>1
      <4> QED
        BY <1>6, <4>1 DEF ToSet
    <3> QED
      BY <3>1, RecentLenAssumption
  <2>3. i = 1
    <3>1. ASSUME i # 1 PROVE FALSE
      <4>1. i - 1 \in 1 .. Len(w) - 1 /\ i - 1 \in DOMAIN r
        BY <1>1, <2>2, <3>1
      <4>2. r[i - 1] = e
        BY <1>1, <2>1, <2>2, <4>1
      <4> QED
        BY <1>6, <4>1, <4>2 DEF ToSet
    <3> QED
      BY <3>1
  <2>4. r[1] >= e
    <3>1. 1 \in DOMAIN w /\ 2 \in DOMAIN w /\ 1 \in 1 .. Len(w) - 1
      BY <2>2
    <3>2. w[1] <= w[2]
      BY <3>1 DEF IsInOrder
    <3>3. r[1] = w[2] /\ w[2] \in Nat
      BY <1>1, <2>2, <3>1
    <3> QED
      BY <2>1, <2>3, <3>2, <3>3, <1>3
  <2>5. PICK j \in 1 .. Len(r) : EstimatedSlot(r) = r[j]
    BY <1>1, <1>3 DEF ToSet
  <2>6. r[1] <= r[j]
    <3>1. 1 \in DOMAIN r /\ j \in DOMAIN r /\ r[1] \in Nat
      BY <1>1, <2>5
    <3> QED
      BY <1>2, <2>5, <3>1 DEF IsInOrder
  <2>7. r[1] \in Nat /\ r[j] \in Nat
    BY <1>1, <2>5
  <2> QED
    BY <1>3, <2>4, <2>5, <2>6, <2>7 DEF r, e
<1> QED
  BY <1>5, <1>6

-----------------------------------------------------------------------------
(* The invariant.                                                          *)

\* Recording keeps the length of the window between one and RecentLen.
LEMMA RecordedType ==
  ASSUME NEW w \in Seq(Slot), Len(w) \in 1 .. RecentLen, NEW s \in Slot
  PROVE  Recorded(w, s) \in Seq(Slot) /\ Len(Recorded(w, s)) \in 1 .. RecentLen
<1> DEFINE a == Append(w, s)
<1> DEFINE first == Max({1, Len(a) - RecentLen + 1})
<1>1. a \in Seq(Slot) /\ Len(a) = Len(w) + 1
  OBVIOUS
<1>2. first \in {1, Len(a) - RecentLen + 1} /\ first >= 1 /\ first >= Len(a) - RecentLen + 1
  BY <1>1, MaxOfTwo, RecentLenAssumption
<1>3. first \in 1 .. Len(a) /\ Len(a) - first + 1 \in 1 .. RecentLen
  BY <1>1, <1>2, RecentLenAssumption
<1> HIDE DEF a, first
<1>4. SubSeq(a, first, Len(a)) \in Seq(Slot) /\ Len(SubSeq(a, first, Len(a))) = Len(a) - first + 1
  BY <1>1, <1>3
<1>5. Recorded(w, s) = SubSeq(a, first, Len(a))
  BY DEF Recorded, a, first
<1> QED
  BY <1>3, <1>4, <1>5

\* The window always holds between one and RecentLen slots, so the assertion in
\* estimated_current_slot that it is not empty never fails.
THEOREM WindowTyped == Spec => []TypeOK
<1>1. Init => TypeOK
  BY RecentLenAssumption DEF Init, TypeOK
<1>2. TypeOK /\ [Next]_recent_slots => TypeOK'
  <2> SUFFICES ASSUME TypeOK, [Next]_recent_slots PROVE TypeOK'
    OBVIOUS
  <2>1. CASE Next
    <3>1. PICK s \in Slot : recent_slots' = Recorded(recent_slots, s)
      BY <2>1 DEF Next, record_slot
    <3> QED
      BY <3>1, RecordedType DEF TypeOK
  <2>2. CASE UNCHANGED recent_slots
    BY <2>2 DEF TypeOK
  <2> QED
    BY <2>1, <2>2
<1> QED
  BY <1>1, <1>2, PTL DEF Spec

\* The recorded slots are numbers.
LEMMA TypedIsWindow == TypeOK => Window(recent_slots)
<1> SUFFICES ASSUME TypeOK PROVE Window(recent_slots)
  OBVIOUS
<1>1. /\ recent_slots \in [1 .. Len(recent_slots) -> Slot]
      /\ Len(recent_slots) \in Nat \ {0}
  BY RecentLenAssumption DEF TypeOK
<1> QED
  BY <1>1, SlotAssumption DEF Window

\* Late or replayed notifications cannot pull the estimate back as long as they
\* make up less than half of the window.
THEOREM PastSlotsAlwaysBounded == Spec => []PastSlotsBounded
<1>1. TypeOK => PastSlotsBounded
  BY TypedIsWindow, PastSlots, SlotAssumption DEF PastSlotsBounded, estimated_current_slot
<1> QED
  BY <1>1, WindowTyped, PTL

\* Slots announced far in the future cannot carry the estimate away as long as
\* they make up at most half of the window.
THEOREM FutureSlotsAlwaysBounded == Spec => []FutureSlotsBounded
<1>1. TypeOK => FutureSlotsBounded
  BY TypedIsWindow, FutureSlots, SlotAssumption DEF FutureSlotsBounded, estimated_current_slot
<1> QED
  BY <1>1, WindowTyped, PTL

\* InOrderNeverRegresses: notifications in order never move the estimate back,
\* also when the slot it stood on leaves the window.  A window of one slot does
\* not know whether the next one is in order.
THEOREM InOrderNeverBack == ASSUME RecentLen > 1 PROVE Spec => InOrderNeverRegresses
<1>1. ASSUME TypeOK, [Next]_recent_slots
      PROVE  [IsInOrder(recent_slots) /\ IsInOrder(recent_slots')
                => EstimatedSlot(recent_slots') >= EstimatedSlot(recent_slots)]_recent_slots
  <2> SUFFICES ASSUME Next, IsInOrder(recent_slots), IsInOrder(recent_slots')
               PROVE  EstimatedSlot(recent_slots') >= EstimatedSlot(recent_slots)
    BY <1>1
  <2>1. PICK s \in Slot : recent_slots' = Recorded(recent_slots, s)
    BY DEF Next, record_slot
  <2>2. s \in Nat /\ recent_slots \in Seq(Nat)
    <3>1. /\ Len(recent_slots) \in Nat
          /\ recent_slots \in [1 .. Len(recent_slots) -> Nat]
      BY <1>1, TypedIsWindow DEF Window
    <3> QED
      BY <3>1, SlotAssumption, SeqDef
  <2> QED
    BY <1>1, <2>1, <2>2, InOrderSlots DEF TypeOK
<1> QED
  BY <1>1, WindowTyped, PTL DEF Spec, InOrderNeverRegresses
-----------------------------------------------------------------------------
(* Selecting by counting is sorting and indexing.  A window is sorted by   *)
(* keys that say the slot first and the place in the window second: no two *)
(* are equal, and their ascending order is the one the sort establishes.   *)

\* The slot decides between two keys, whatever the places.
LEMMA SlotDecides ==
  ASSUME NEW a \in Nat, NEW b \in Nat, a < b,
         NEW n \in Nat, NEW i \in 1 .. n, NEW j \in 1 .. n
  PROVE  a * (n + 1) + i < b * (n + 1) + j
<1> DEFINE d == b - (a + 1)
           N == n + 1
<1>1. d \in Nat /\ N \in Nat /\ b = (a + 1) + d
  OBVIOUS
<1>2. d * N \in Nat /\ a * N \in Nat
  BY <1>1
<1> HIDE DEF d, N
<1>3. b * N = a * N + N + d * N
  BY <1>1
<1>4. b * N >= a * N + N
  BY <1>1, <1>2, <1>3
<1>5. b * N \in Nat
  BY <1>1
<1>6. i < N /\ j > 0 /\ i \in Int /\ j \in Int
  BY DEF N
<1>7. a * N + i < b * N + j
  BY <1>1, <1>2, <1>4, <1>5, <1>6
<1> QED
  BY <1>7 DEF N

\* Every window can be sorted.
LEMMA SortExists ==
  ASSUME NEW w, Window(w)
  PROVE  \E p \in Injection(1 .. Len(w), 1 .. Len(w)) :
           \A j, k \in DOMAIN w : j < k => w[p[j]] <= w[p[k]]
<1> DEFINE n == Len(w)
           P == 1 .. n
           key == [i \in P |-> w[i] * (n + 1) + i]
           S == {key[i] : i \in P}
           a == Ascending(S)
           p == [k \in P |-> CHOOSE i \in P : key[i] = a[k]]
<1>1. n \in Nat /\ DOMAIN w = P /\ \A i \in P : w[i] \in Nat
  BY DEF Window
<1>2. ASSUME NEW i \in P PROVE key[i] \in Int /\ key[i] = w[i] * (n + 1) + i
  BY <1>1
<1>3. ASSUME NEW i \in P, NEW j \in P, w[i] < w[j] PROVE key[i] < key[j]
  BY <1>1, <1>2, <1>3, SlotDecides
<1>4. ASSUME NEW i \in P, NEW j \in P, key[i] = key[j] PROVE i = j
  <2>1. ~(w[i] < w[j]) /\ ~(w[j] < w[i])
    BY <1>2, <1>3, <1>4
  <2>2. w[i] = w[j] /\ w[i] * (n + 1) \in Int /\ i \in Int /\ j \in Int
    BY <1>1, <2>1
  <2> QED
    BY <1>2, <1>4, <2>2
<1>5. S \in SUBSET Int /\ IsFiniteSet(S) /\ Cardinality(S) = n
  <2>1. S \in SUBSET Int
    BY <1>2
  <2>2. IsFiniteSet(P) /\ Cardinality(P) = n
    BY <1>1, FS_Interval
  <2> HIDE DEF P
  <2>3. key \in Surjection(P, S) /\ key \in Injection(P, S)
    BY <1>4 DEF Surjection, Injection, IsInjective
  <2> QED
    BY <2>1, <2>2, <2>3, FS_Surjection
<1> HIDE DEF key
<1>6. /\ DOMAIN a = P
      /\ \A k \in P : a[k] \in S
      /\ \A j, k \in P : j < k => a[j] < a[k]
  BY <1>5, AscendingIsSorted
<1> HIDE DEF a
<1>7. ASSUME NEW k \in P PROVE p[k] \in P /\ key[p[k]] = a[k]
  <2>1. \E i \in P : key[i] = a[k]
    BY <1>6
  <2> QED
    BY <2>1
<1>8. p \in Injection(P, P)
  <2>1. p \in [P -> P]
    BY <1>7
  <2>2. ASSUME NEW j \in P, NEW k \in P, p[j] = p[k] PROVE j = k
    <3>1. a[j] = key[p[j]] /\ a[k] = key[p[k]]
      BY <1>7
    <3> HIDE DEF p
    <3>2. a[j] = a[k]
      BY <3>1, <2>2
    <3>3. a[j] \in Int /\ a[k] \in Int /\ j \in Int /\ k \in Int
      <4>1. a[j] \in S /\ a[k] \in S
        BY <1>6
      <4>2. S \in SUBSET Int
        BY <1>5
      <4>3. j \in Int /\ k \in Int
        BY <1>1
      <4> HIDE DEF S
      <4> QED
        BY <4>1, <4>2, <4>3
    <3>4. (j < k => a[j] < a[k]) /\ (k < j => a[k] < a[j])
      BY <1>6
    <3> QED
      BY <3>2, <3>3, <3>4
  <2> QED
    BY <2>1, <2>2 DEF Injection, IsInjective
<1>9. ASSUME NEW j \in P, NEW k \in P, j < k PROVE w[p[j]] <= w[p[k]]
  <2>1. p[j] \in P /\ p[k] \in P /\ key[p[j]] = a[j] /\ key[p[k]] = a[k] /\ a[j] < a[k]
    BY <1>6, <1>7, <1>9
  <2> HIDE DEF p
  <2>2. key[p[j]] \in Int /\ key[p[k]] \in Int /\ w[p[j]] \in Nat /\ w[p[k]] \in Nat
    BY <1>1, <1>2, <2>1
  <2>3. ~(w[p[k]] < w[p[j]])
    <3> SUFFICES ASSUME w[p[k]] < w[p[j]] PROVE FALSE
      OBVIOUS
    <3>1. key[p[k]] < key[p[j]]
      BY <1>3, <2>1
    <3> QED
      BY <2>1, <2>2, <3>1
  <2> QED
    BY <2>2, <2>3
<1> QED
  BY <1>1, <1>8, <1>9

\* Reordering a window changes neither its slots nor how many of them lie below
\* a value or up to it.
LEMMA ReorderingKeepsCounts ==
  ASSUME NEW w, Window(w), NEW p \in Injection(1 .. Len(w), 1 .. Len(w))
  PROVE  LET v == [i \in 1 .. Len(w) |-> w[p[i]]]
         IN  /\ Window(v) /\ Len(v) = Len(w)
             /\ ToSet(v) = ToSet(w)
             /\ \A x : /\ Cardinality(Below(v, x)) = Cardinality(Below(w, x))
                       /\ Cardinality(UpTo(v, x)) = Cardinality(UpTo(w, x))
<1> DEFINE n == Len(w)
           P == 1 .. n
           v == [i \in P |-> w[p[i]]]
<1>1. n \in Nat \ {0} /\ DOMAIN w = P /\ w \in [P -> Nat] /\ \A i \in P : w[i] \in Nat
  BY DEF Window
<1>2. p \in [P -> P] /\ \A i, j \in P : p[i] = p[j] => i = j
  BY DEF Injection, IsInjective
<1>3. \A k \in P : \E i \in P : p[i] = k
  <2>1. IsFiniteSet(P)
    BY <1>1, FS_Interval
  <2>2. p \in Surjection(P, P)
    BY <2>1, FS_Injection
  <2> QED
    BY <2>2 DEF Surjection
<1>4. /\ v \in [P -> Nat] /\ DOMAIN v = P
      /\ \A i \in P : v[i] = w[p[i]]
  BY <1>1, <1>2
<1>5. Window(v) /\ Len(v) = n
  <2>1. v \in Seq(Nat) /\ Len(v) = n
    BY <1>1, <1>4
  <2> QED
    BY <1>1, <1>4, <2>1 DEF Window
<1> HIDE DEF v
<1>6. ToSet(v) = ToSet(w)
  <2>1. ToSet(v) = {v[i] : i \in P} /\ ToSet(w) = {w[i] : i \in P}
    BY <1>1, <1>4 DEF ToSet
  <2>2. \A i \in P : v[i] \in {w[j] : j \in P}
    BY <1>2, <1>4
  <2>3. \A k \in P : w[k] \in {v[i] : i \in P}
    BY <1>3, <1>4
  <2> QED
    BY <2>1, <2>2, <2>3
\* Whatever picks entries by their value picks as many before as after.
<1>7. ASSUME NEW A \in SUBSET P, NEW B \in SUBSET P,
             \A i \in P : i \in A <=> p[i] \in B
      PROVE  Cardinality(A) = Cardinality(B)
  <2> DEFINE g == [i \in A |-> p[i]]
  <2>1. IsFiniteSet(A)
    <3>1. IsFiniteSet(P)
      BY <1>1, FS_Interval
    <3> QED
      BY <3>1, FS_Subset
  <2>2. g \in [A -> B] /\ \A i, j \in A : g[i] = g[j] => i = j
    BY <1>2, <1>7
  <2>3. \A k \in B : \E i \in A : g[i] = k
    BY <1>2, <1>3, <1>7
  <2>4. g \in Injection(A, B) /\ g \in Surjection(A, B)
    BY <2>2, <2>3 DEF Injection, Surjection, IsInjective
  <2> QED
    BY <2>1, <2>4, FS_Surjection
<1>8. ASSUME NEW x
      PROVE  /\ Cardinality(Below(v, x)) = Cardinality(Below(w, x))
             /\ Cardinality(UpTo(v, x)) = Cardinality(UpTo(w, x))
  <2>1. /\ \A i \in P : i \in Below(v, x) <=> p[i] \in Below(w, x)
        /\ \A i \in P : i \in UpTo(v, x) <=> p[i] \in UpTo(w, x)
    BY <1>1, <1>2, <1>4 DEF Below, UpTo
  <2>2. /\ Below(v, x) \in SUBSET P /\ Below(w, x) \in SUBSET P
        /\ UpTo(v, x) \in SUBSET P /\ UpTo(w, x) \in SUBSET P
    BY <1>1, <1>4 DEF Below, UpTo
  <2> QED
    BY <1>7, <2>1, <2>2
<1> QED
  BY <1>5, <1>6, <1>8 DEF v

\* The slot at an index of the sorted vector, which estimated_current_slot
\* reads for the median, is the one SortedAt selects by counting: for every
\* window and every index.
LEMMA SortedAtIndexes ==
  ASSUME NEW w, Window(w)
  PROVE  \E p \in Injection(1 .. Len(w), 1 .. Len(w)) :
           /\ \A j, k \in DOMAIN w : j < k => w[p[j]] <= w[p[k]]
           /\ \A k \in 0 .. (Len(w) - 1) : SortedAt(w, k) = w[p[k + 1]]
<1>1. Len(w) \in Nat /\ DOMAIN w = 1 .. Len(w)
  BY DEF Window
<1>2. PICK p \in Injection(1 .. Len(w), 1 .. Len(w)) :
        \A j, k \in DOMAIN w : j < k => w[p[j]] <= w[p[k]]
  BY SortExists
<1> DEFINE v == [i \in 1 .. Len(w) |-> w[p[i]]]
<1>3. /\ Window(v) /\ Len(v) = Len(w) /\ ToSet(v) = ToSet(w)
      /\ \A x : /\ Cardinality(Below(v, x)) = Cardinality(Below(w, x))
                /\ Cardinality(UpTo(v, x)) = Cardinality(UpTo(w, x))
  BY ReorderingKeepsCounts
<1>4. \A i \in 1 .. Len(w) : v[i] = w[p[i]]
  OBVIOUS
<1>5. DOMAIN v = 1 .. Len(w)
  OBVIOUS
<1> HIDE DEF v
<1>6. IsInOrder(v)
  BY <1>1, <1>2, <1>4, <1>5 DEF IsInOrder
<1>7. ASSUME NEW k \in 0 .. (Len(w) - 1) PROVE SortedAt(w, k) = w[p[k + 1]]
  <2>1. k + 1 \in 1 .. Len(w)
    BY <1>1
  <2>2. /\ SortedAt(w, k) \in ToSet(v)
        /\ Cardinality(Below(v, SortedAt(w, k))) <= k
        /\ k < Cardinality(UpTo(v, SortedAt(w, k)))
    BY <1>3, SortedAtExists
  <2>3. SortedAt(w, k) = v[k + 1]
    BY <1>3, <1>6, <2>2, SelectedInOrder
  <2> QED
    BY <1>4, <2>1, <2>3
<1> QED
  BY <1>2, <1>7

=============================================================================
