-------------------------- MODULE SortedSetsProofs --------------------------
(***************************************************************************)
(* Ascending(S) is what its name says for every finite set of integers:    *)
(* every number of S once, in order.  The rank of a number is its place:   *)
(* different numbers have different ranks, and there are as many ranks as  *)
(* numbers, so that each rank is taken.                                    *)
(***************************************************************************)
EXTENDS SortedSets, FiniteSetTheorems, TLAPS

\* The rank counts numbers of S other than n, and grows with n.
LEMMA RankGrows ==
  ASSUME NEW S \in SUBSET Int, IsFiniteSet(S)
  PROVE  /\ Cardinality(S) \in Nat
         /\ \A n \in S : Rank(S, n) \in 0 .. (Cardinality(S) - 1)
         /\ \A m, n \in S : m < n => Rank(S, m) < Rank(S, n)
<1> DEFINE Under(n) == {m \in S : m < n}
<1>1. ASSUME NEW n \in S
      PROVE  IsFiniteSet(Under(n)) /\ Cardinality(Under(n)) \in Nat
  BY FS_Subset, FS_CardinalityType
<1>2. Cardinality(S) \in Nat
  BY FS_CardinalityType
<1>3. ASSUME NEW n \in S PROVE Cardinality(Under(n)) <= Cardinality(S) - 1
  <2>1. Under(n) \subseteq S \ {n}
    OBVIOUS
  <2>2. IsFiniteSet(S \ {n}) /\ Cardinality(S \ {n}) = Cardinality(S) - 1
    BY FS_RemoveElement
  <2> QED
    BY <2>1, <2>2, FS_Subset
<1>4. ASSUME NEW m \in S, NEW n \in S, m < n
      PROVE  Cardinality(Under(m)) < Cardinality(Under(n))
  <2>1. Under(m) \cup {m} \subseteq Under(n)
    <3>1. ASSUME NEW i \in Under(m) \cup {m} PROVE i \in S /\ i < n
      <4>1. m \in Int /\ n \in Int /\ i \in Int /\ (i = m \/ i < m)
        OBVIOUS
      <4> QED
        BY <1>4, <4>1
    <3> QED
      BY <3>1
  <2>2. /\ IsFiniteSet(Under(m) \cup {m})
        /\ Cardinality(Under(m) \cup {m}) = Cardinality(Under(m)) + 1
    BY <1>1, FS_AddElement
  <2>3. Cardinality(Under(m) \cup {m}) <= Cardinality(Under(n))
    BY <1>1, <2>1, FS_Subset
  <2> QED
    BY <1>1, <2>2, <2>3
<1> QED
  BY <1>1, <1>2, <1>3, <1>4 DEF Rank

\* Every place is the rank of a number.
LEMMA RankTaken ==
  ASSUME NEW S \in SUBSET Int, IsFiniteSet(S), NEW k \in 0 .. (Cardinality(S) - 1)
  PROVE  \E n \in S : Rank(S, n) = k
<1> DEFINE Places == 0 .. (Cardinality(S) - 1)
           rank == [n \in S |-> Rank(S, n)]
<1>1. Cardinality(S) \in Nat
  BY FS_CardinalityType
<1>2. IsFiniteSet(Places) /\ Cardinality(Places) = Cardinality(S)
  BY <1>1, FS_Interval
<1>3. rank \in Injection(S, Places)
  <2>1. rank \in [S -> Places]
    BY RankGrows
  <2>2. ASSUME NEW m \in S, NEW n \in S, rank[m] = rank[n] PROVE m = n
    <3>1. Rank(S, m) \in Int /\ Rank(S, n) \in Int /\ Rank(S, m) = Rank(S, n)
      BY <2>2, RankGrows
    <3> QED
      BY <3>1, RankGrows
  <2> QED
    BY <2>1, <2>2 DEF Injection, IsInjective
<1>4. rank \in Surjection(S, Places)
  BY <1>2, <1>3, FS_Injection
<1> QED
  BY <1>4 DEF Surjection

\* Ascending(S) goes through S, upwards.
LEMMA AscendingIsSorted ==
  ASSUME NEW S \in SUBSET Int, IsFiniteSet(S)
  PROVE  /\ Cardinality(S) \in Nat /\ DOMAIN Ascending(S) = 1 .. Cardinality(S)
         /\ \A k \in DOMAIN Ascending(S) : Ascending(S)[k] \in S
         /\ \A j, k \in DOMAIN Ascending(S) : j < k => Ascending(S)[j] < Ascending(S)[k]
         /\ \A n \in S : \E k \in DOMAIN Ascending(S) : Ascending(S)[k] = n
<1> DEFINE a == Ascending(S)
<1>0. \A m, n \in S : m < n => Rank(S, m) < Rank(S, n)
  BY RankGrows
<1>1. Cardinality(S) \in Nat /\ DOMAIN a = 1 .. Cardinality(S)
  BY FS_CardinalityType DEF Ascending
<1>2. ASSUME NEW k \in DOMAIN a PROVE a[k] \in S /\ Rank(S, a[k]) = k - 1
  <2>1. k - 1 \in 0 .. (Cardinality(S) - 1)
    BY <1>1, <1>2
  <2>2. \E n \in S : Rank(S, n) = k - 1
    BY <2>1, RankTaken
  <2> QED
    BY <1>1, <2>2 DEF Ascending
<1>3. ASSUME NEW j \in DOMAIN a, NEW k \in DOMAIN a, j < k PROVE a[j] < a[k]
  <2>1. /\ a[j] \in S /\ a[k] \in S
        /\ Rank(S, a[j]) = j - 1 /\ Rank(S, a[k]) = k - 1
    BY <1>2
  <2>2. Rank(S, a[j]) < Rank(S, a[k]) /\ Rank(S, a[j]) \in Int /\ Rank(S, a[k]) \in Int
    BY <1>1, <1>3, <2>1
  <2>3. a[j] \in Int /\ a[k] \in Int
    BY <2>1
  <2> HIDE DEF a
  <2>4. ~(a[k] < a[j])
    <3> SUFFICES ASSUME a[k] < a[j] PROVE FALSE
      OBVIOUS
    <3>1. Rank(S, a[k]) < Rank(S, a[j])
      BY <1>0, <2>1
    <3> QED
      BY <2>2, <3>1
  <2>5. a[k] # a[j]
    BY <2>2
  <2> QED
    BY <2>3, <2>4, <2>5
<1>4. ASSUME NEW n \in S PROVE \E k \in DOMAIN a : a[k] = n
  <2> DEFINE k == Rank(S, n) + 1
  <2>1. k \in DOMAIN a /\ Rank(S, n) = k - 1 /\ Rank(S, n) \in Int
    BY <1>1, RankGrows
  <2> HIDE DEF k
  <2>2. a[k] \in S /\ Rank(S, a[k]) = Rank(S, n)
    BY <1>2, <2>1
  <2>3. a[k] \in Int /\ n \in Int
    BY <2>2
  <2> HIDE DEF a
  <2>4. ~(a[k] < n) /\ ~(n < a[k])
    <3>1. a[k] < n => Rank(S, a[k]) < Rank(S, n)
      BY <1>0, <2>2
    <3>2. n < a[k] => Rank(S, n) < Rank(S, a[k])
      BY <1>0, <2>2
    <3> QED
      BY <2>1, <2>2, <3>1, <3>2
  <2> QED
    BY <2>1, <2>3, <2>4
<1> QED
  BY <1>1, <1>2, <1>3, <1>4

=============================================================================
