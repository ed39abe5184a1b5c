---------------------------- MODULE SequenceLemmas ----------------------------
(***************************************************************************)
(* Facts about sequences that the proofs of several components cite.       *)
(***************************************************************************)
EXTENDS Integers, Sequences, SequencesExt, Selections, FiniteSetTheorems, SequenceTheorems,
        WellFoundedInduction, TLAPS

\* Every set of natural numbers but the empty one has a least element.
LEMMA LeastOfSet ==
  ASSUME NEW T \in SUBSET Nat, T # {}
  PROVE  \E n \in T : \A m \in T : n <= m
<1> DEFINE R == {ss \in Nat \X Nat : ss[1] < ss[2]}
<1>1. IsWellFoundedOn(R, Nat)
  BY NatLessThanWellFounded DEF OpToRel
<1>2. \E n \in T : \A m \in T : ~(<<m, n>> \in R)
  <2> HIDE DEF R
  <2>. QED  BY <1>1, WFMin
<1>3. PICK n \in T : \A m \in T : ~(m < n)
  BY <1>2
<1>. QED  BY <1>3

\* Induction over the natural numbers, for a set instead of a predicate.
LEMMA SetInduction ==
  ASSUME NEW G \in SUBSET Nat, 0 \in G, \A n \in G : n + 1 \in G
  PROVE  G = Nat
<1>1. SUFFICES ASSUME Nat \ G # {} PROVE FALSE
  OBVIOUS
<1>2. PICK n \in Nat \ G : \A m \in Nat \ G : n <= m
  BY <1>1, LeastOfSet
<1>3. n # 0 /\ n - 1 \in Nat
  OBVIOUS
<1>4. n - 1 \in G
  BY <1>2, <1>3
<1>. QED  BY <1>3, <1>4

-----------------------------------------------------------------------------
(* Parts of a sequence.                                                    *)

\* The sequence t over S is the part of s from m to n.
IsPart(t, S, s, m, n) ==
  /\ t \in Seq(S)
  /\ Len(t) = IF m <= n THEN n - m + 1 ELSE 0
  /\ \A i \in 1..Len(t) : t[i] = s[m + i - 1]
  /\ ToSet(t) \subseteq ToSet(s)
  /\ \A x : x \in ToSet(t) <=> \E i \in m..n : x = s[i]
  /\ IsInjective(s) => IsInjective(t)

\* A part of a sequence has its elements, in their order, and none twice if the
\* sequence has none twice.
LEMMA PartProperties ==
  ASSUME NEW S, NEW s \in Seq(S), NEW m \in Nat \ {0}, NEW n \in 0..Len(s)
  PROVE  IsPart(SubSeq(s, m, n), S, s, m, n)
<1> DEFINE t == SubSeq(s, m, n)
<1>1. \A i \in m..n : s[i] \in S
  OBVIOUS
<1>2. /\ t \in Seq(S)
      /\ Len(t) = IF m <= n THEN n - m + 1 ELSE 0
      /\ \A i \in 1..Len(t) : t[i] = s[m + i - 1]
  BY <1>1, SubSeqProperties
<1> HIDE DEF t
<1>3. DOMAIN t = 1..Len(t) /\ DOMAIN s = 1..Len(s) /\ Len(t) \in Nat
  BY <1>2
<1>4. \A i \in 1..Len(t) : m + i - 1 \in m..n /\ m + i - 1 \in 1..Len(s)
  BY <1>2
<1>5. \A j \in m..n : j - m + 1 \in 1..Len(t) /\ t[j - m + 1] = s[j]
  <2>. TAKE j \in m..n
  <2>1. j - m + 1 \in 1..Len(t) /\ m + (j - m + 1) - 1 = j
    BY <1>2
  <2>. QED  BY <1>2, <2>1
<1>6. \A x : x \in ToSet(t) <=> \E i \in m..n : x = s[i]
  <2>1. ASSUME NEW x \in ToSet(t)
        PROVE  \E i \in m..n : x = s[i]
    <3>1. PICK i \in 1..Len(t) : x = t[i]
      BY <1>3 DEF ToSet
    <3>. QED  BY <1>2, <1>4, <3>1
  <2>2. ASSUME NEW x, NEW j \in m..n, x = s[j]
        PROVE  x \in ToSet(t)
    BY <1>3, <1>5, <2>2 DEF ToSet
  <2>. QED  BY <2>1, <2>2
<1>7. ToSet(t) \subseteq ToSet(s)
  BY <1>2, <1>3, <1>4 DEF ToSet
<1>8. ASSUME IsInjective(s)
      PROVE  IsInjective(t)
  <2>1. ASSUME NEW i \in 1..Len(t), NEW j \in 1..Len(t), t[i] = t[j]
        PROVE  i = j
    <3>1. s[m + i - 1] = s[m + j - 1]
      BY <1>2, <2>1
    <3>2. m + i - 1 = m + j - 1
      BY <1>3, <1>4, <1>8, <3>1 DEF IsInjective
    <3>. QED  BY <1>3, <3>2
  <2>. QED  BY <1>3, <2>1 DEF IsInjective
<1>9. IsPart(t, S, s, m, n)
  BY <1>2, <1>6, <1>7, <1>8 DEF IsPart
<1>. QED  BY <1>9 DEF t

\* A sequence that is not empty is its head and the rest, or its last element and
\* what comes before it.
LEMMA EndsProperties ==
  ASSUME NEW S, NEW s \in Seq(S), s # <<>>
  PROVE  /\ Len(s) \in Nat /\ Len(s) >= 1
         /\ Head(s) = s[1] /\ s[1] \in ToSet(s) /\ s[Len(s)] \in ToSet(s)
         /\ ToSet(s) \subseteq S
         /\ \A x \in ToSet(s) : x = s[Len(s)] \/ \E i \in 1..(Len(s) - 1) : x = s[i]
         /\ \A x \in ToSet(s) : x = s[1] \/ \E i \in 2..Len(s) : x = s[i]
<1>1. Len(s) \in Nat /\ Len(s) >= 1 /\ Head(s) = s[1] /\ DOMAIN s = 1..Len(s)
  OBVIOUS
<1>2. s[1] \in ToSet(s) /\ s[Len(s)] \in ToSet(s) /\ ToSet(s) \subseteq S
  BY <1>1 DEF ToSet
<1>3. ASSUME NEW x \in ToSet(s)
      PROVE  /\ x = s[Len(s)] \/ \E i \in 1..(Len(s) - 1) : x = s[i]
             /\ x = s[1] \/ \E i \in 2..Len(s) : x = s[i]
  <2>1. PICK i \in 1..Len(s) : x = s[i]
    BY <1>1 DEF ToSet
  <2>2. \A n \in Nat : \A k \in 1..n : (k = n \/ k \in 1..(n - 1)) /\ (k = 1 \/ k \in 2..n)
    OBVIOUS
  <2>3. (i = Len(s) \/ i \in 1..(Len(s) - 1)) /\ (i = 1 \/ i \in 2..Len(s))
    BY <1>1, <2>2
  <2>. QED  BY <2>1, <2>2, <2>3
<1>. QED  BY <1>1, <1>2, <1>3

\* Two sequences after one another have the elements of both, and none twice if
\* neither has and they share none.
LEMMA JoinProperties ==
  ASSUME NEW S, NEW a \in Seq(S), NEW b \in Seq(S), NEW t, t = a \o b
  PROVE  /\ t \in Seq(S) /\ Len(t) = Len(a) + Len(b)
         /\ ToSet(t) = ToSet(a) \cup ToSet(b)
         /\ IsInjective(a) /\ IsInjective(b) /\ ToSet(a) \cap ToSet(b) = {} =>
              IsInjective(t)
<1>1. /\ t \in Seq(S) /\ Len(t) = Len(a) + Len(b)
      /\ \A i \in 1..(Len(a) + Len(b)) : t[i] = IF i <= Len(a) THEN a[i] ELSE b[i - Len(a)]
  BY ConcatProperties
<1>2. /\ DOMAIN t = 1..(Len(a) + Len(b)) /\ DOMAIN a = 1..Len(a) /\ DOMAIN b = 1..Len(b)
      /\ Len(a) \in Nat /\ Len(b) \in Nat
  BY <1>1
<1>3. /\ \A i \in 1..Len(a) : t[i] = a[i]
      /\ \A i \in 1..Len(b) : t[Len(a) + i] = b[i]
      /\ \A i \in 1..(Len(a) + Len(b)) : i > Len(a) => i - Len(a) \in 1..Len(b)
  <2>1. \A i \in 1..Len(b) : /\ Len(a) + i \in 1..(Len(a) + Len(b))
                             /\ ~(Len(a) + i <= Len(a))
                             /\ Len(a) + i - Len(a) = i
    BY <1>2
  <2>. QED  BY <1>1, <1>2, <2>1
<1>4. ToSet(t) = ToSet(a) \cup ToSet(b)
  <2>1. ASSUME NEW x \in ToSet(t)
        PROVE  x \in ToSet(a) \cup ToSet(b)
    <3>1. PICK i \in 1..(Len(a) + Len(b)) : x = t[i]
      BY <1>2 DEF ToSet
    <3>. QED  BY <1>1, <1>2, <1>3, <3>1 DEF ToSet
  <2>2. ToSet(a) \subseteq ToSet(t)
    BY <1>2, <1>3 DEF ToSet
  <2>3. ToSet(b) \subseteq ToSet(t)
    <3>1. \A i \in 1..Len(b) : Len(a) + i \in DOMAIN t /\ b[i] = t[Len(a) + i]
      BY <1>2, <1>3
    <3>. QED  BY <1>2, <3>1 DEF ToSet
  <2>. QED  BY <2>1, <2>2, <2>3
<1>5. ASSUME IsInjective(a), IsInjective(b), ToSet(a) \cap ToSet(b) = {}
      PROVE  IsInjective(t)
  <2>1. ASSUME NEW i \in 1..Len(a), NEW j \in 1..Len(b)
        PROVE  a[i] # b[j]
    <3>1. a[i] \in ToSet(a) /\ b[j] \in ToSet(b)
      BY <1>2 DEF ToSet
    <3>. QED  BY <1>5, <3>1
  <2>2. ASSUME NEW i \in 1..(Len(a) + Len(b)), NEW j \in 1..(Len(a) + Len(b)), t[i] = t[j]
        PROVE  i = j
    <3>1. CASE i <= Len(a) /\ j <= Len(a)
      <4>1. i \in DOMAIN a /\ j \in DOMAIN a /\ a[i] = a[j]
        BY <1>1, <1>2, <2>2, <3>1
      <4>. QED  BY <1>5, <4>1 DEF IsInjective
    <3>2. CASE i > Len(a) /\ j > Len(a)
      <4>1. b[i - Len(a)] = b[j - Len(a)]
        BY <1>1, <1>2, <2>2, <3>2
      <4>2. i - Len(a) = j - Len(a)
        BY <1>2, <1>3, <1>5, <3>2, <4>1 DEF IsInjective
      <4>. QED  BY <1>2, <4>2
    <3>3. CASE i <= Len(a) /\ j > Len(a)
      <4>1. i \in 1..Len(a) /\ j - Len(a) \in 1..Len(b)
        BY <1>2, <1>3, <3>3
      <4>2. t[i] = a[i] /\ t[j] = b[j - Len(a)]
        BY <1>1, <1>2, <3>3
      <4>. QED  BY <2>1, <2>2, <4>1, <4>2
    <3>4. CASE i > Len(a) /\ j <= Len(a)
      <4>1. j \in 1..Len(a) /\ i - Len(a) \in 1..Len(b)
        BY <1>2, <1>3, <3>4
      <4>2. t[j] = a[j] /\ t[i] = b[i - Len(a)]
        BY <1>1, <1>2, <3>4
      <4>. QED  BY <2>1, <2>2, <4>1, <4>2
    <3>. QED  BY <1>2, <3>1, <3>2, <3>3, <3>4
  <2>. QED  BY <1>2, <2>2 DEF IsInjective
<1>. QED  BY <1>1, <1>4, <1>5

\* What leaves a queue from the middle leaves the others there, in their order.
LEMMA RemoveAtProperties ==
  ASSUME NEW S, NEW s \in Seq(S), NEW i \in 1..Len(s), IsInjective(s),
         NEW t, t = RemoveAt(s, i)
  PROVE  /\ t \in Seq(S) /\ Len(t) = Len(s) - 1
         /\ \A j \in 1..Len(t) : t[j] = IF j < i THEN s[j] ELSE s[j + 1]
         /\ IsInjective(t)
         /\ \A j \in 1..Len(t) : t[j] # s[i]
         /\ \A k \in 1..Len(s) : k # i => \E j \in 1..Len(t) : t[j] = s[k]
<1> DEFINE a == SubSeq(s, 1, i - 1)
           b == SubSeq(s, i + 1, Len(s))
<1>1. /\ a \in Seq(S) /\ Len(a) = i - 1
      /\ \A j \in 1..(i - 1) : a[j] = s[j]
  <2>1. i \in Nat /\ Len(s) \in Nat /\ 1 <= i /\ i <= Len(s)
    OBVIOUS
  <2>2. \A j \in 1..(i - 1) : s[j] \in S
    BY <2>1
  <2>. QED  BY <2>1, <2>2, SubSeqProperties
<1>2. /\ b \in Seq(S) /\ Len(b) = Len(s) - i
      /\ \A j \in 1..(Len(s) - i) : b[j] = s[i + j]
  <2>1. i \in Nat /\ Len(s) \in Nat /\ 1 <= i /\ i <= Len(s)
    OBVIOUS
  <2>2. \A j \in (i + 1)..Len(s) : s[j] \in S
    BY <2>1
  <2>. QED  BY <2>1, <2>2, SubSeqProperties
<1>3. t = a \o b
  BY DEF RemoveAt
<1> HIDE DEF a, b
<1>4. t \in Seq(S) /\ Len(t) = Len(s) - 1
  <2>1. a \in Seq(S) /\ b \in Seq(S)
    BY <1>1, <1>2
  <2>2. a \o b \in Seq(S) /\ Len(a \o b) = Len(a) + Len(b)
    BY <2>1
  <2>. QED  BY <1>1, <1>2, <1>3, <2>2
<1>5. \A j \in 1..Len(t) : t[j] = IF j < i THEN s[j] ELSE s[j + 1]
  <2>. TAKE j \in 1..Len(t)
  <2>1. CASE j < i
    BY <1>1, <1>2, <1>3, <1>4, <2>1, ConcatProperties
  <2>2. CASE j >= i
    <3>1. j - (i - 1) \in 1..(Len(s) - i)
      BY <1>4, <2>2
    <3>2. t[j] = b[j - (i - 1)]
      BY <1>1, <1>2, <1>3, <1>4, <2>2, ConcatProperties
    <3>. QED  BY <1>2, <2>2, <3>1, <3>2
  <2>. QED  BY <2>1, <2>2, <1>4
<1>6. \A j, k \in 1..Len(s) : s[j] = s[k] => j = k
  BY DEF IsInjective
<1>7. \A j, k \in 1..Len(t) : t[j] = t[k] => j = k
  <2>. TAKE j, k \in 1..Len(t)
  <2>. DEFINE up(n) == IF n < i THEN n ELSE n + 1
  <2>1. up(j) \in 1..Len(s) /\ up(k) \in 1..Len(s) /\ t[j] = s[up(j)] /\ t[k] = s[up(k)]
    BY <1>4, <1>5
  <2>2. up(j) = up(k) => j = k
    BY <1>4
  <2>. QED  BY <2>1, <2>2, <1>6
<1>8. IsInjective(t)
  BY <1>4, <1>7 DEF IsInjective
<1>9. \A j \in 1..Len(t) : t[j] # s[i]
  BY <1>4, <1>5, <1>6
<1>10. \A k \in 1..Len(s) : k # i => \E j \in 1..Len(t) : t[j] = s[k]
  <2>. SUFFICES ASSUME NEW k \in 1..Len(s), k # i
                PROVE  \E j \in 1..Len(t) : t[j] = s[k]
    OBVIOUS
  <2>1. CASE k < i
    BY <1>4, <1>5, <2>1
  <2>2. CASE k > i
    <3>1. k - 1 \in 1..Len(t) /\ t[k - 1] = s[k]
      BY <1>4, <1>5, <2>2
    <3>. QED  BY <3>1
  <2>. QED  BY <2>1, <2>2
<1>. QED  BY <1>4, <1>5, <1>8, <1>9, <1>10

-----------------------------------------------------------------------------
(* The elements of a set of numbers, in their order.                       *)

Increasing(s, n) == \A i, j \in 1..n : i < j => s[i] < s[j]

\* Every finite set of numbers can be listed in increasing order.
LEMMA SortedListing ==
  ASSUME NEW N \in Nat, NEW S \in SUBSET (1..N)
  PROVE  IsFiniteSet(S) /\ \E s \in [1..Cardinality(S) -> S] : Increasing(s, Cardinality(S))
<1> DEFINE Listed(T) == \E s \in [1..Cardinality(T) -> T] : Increasing(s, Cardinality(T))
           G == {n \in Nat : \A T \in SUBSET (1..n) : Listed(T)}
<1>0. \A n \in Nat : \A T \in SUBSET (1..n) : IsFiniteSet(T) /\ Cardinality(T) \in Nat
  <2>. TAKE n \in Nat
  <2>. TAKE T \in SUBSET (1..n)
  <2>1. IsFiniteSet(1..n)
    BY FS_Interval
  <2>. QED  BY <2>1, FS_Subset, FS_CardinalityType
<1>1. 0 \in G
  <2>1. ASSUME NEW T \in SUBSET (1..0)
        PROVE  Listed(T)
    <3>1. T = {}
      OBVIOUS
    <3>2. Cardinality(T) = 0
      BY <3>1, FS_EmptySet
    <3>3. [i \in 1..0 |-> i] \in [1..Cardinality(T) -> T]
      BY <3>1, <3>2
    <3>. QED  BY <3>2, <3>3 DEF Increasing
  <2>. QED  BY <2>1
<1>2. ASSUME NEW n \in G
      PROVE  n + 1 \in G
  <2>1. ASSUME NEW T \in SUBSET (1..(n + 1))
        PROVE  Listed(T)
    <3>1. CASE n + 1 \notin T
      <4>1. T \in SUBSET (1..n)
        BY <3>1
      <4>. QED  BY <1>2, <4>1
    <3>2. CASE n + 1 \in T
      <4> DEFINE U == T \ {n + 1}
                 k == Cardinality(U)
      <4>1. U \in SUBSET (1..n)
        OBVIOUS
      <4>2. IsFiniteSet(U) /\ k \in Nat
        BY <1>0, <4>1
      <4>3. Cardinality(T) = k + 1
        <5>1. T = U \cup {n + 1} /\ n + 1 \notin U
          BY <3>2
        <5>. QED  BY <4>2, <5>1, FS_AddElement
      <4>4. Listed(U)
        BY <1>2, <4>1
      <4> HIDE DEF k
      <4>5. PICK s \in [1..k -> U] : Increasing(s, k)
        BY <4>4 DEF k
      <4> DEFINE t == [i \in 1..(k + 1) |-> IF i <= k THEN s[i] ELSE n + 1]
      <4>6. t \in [1..(k + 1) -> T]
        BY <3>2, <4>2, <4>5
      <4>7. \A i \in 1..k : s[i] \in 1..n
        BY <4>1, <4>5
      <4>8. Increasing(t, k + 1)
        BY <4>2, <4>5, <4>7 DEF Increasing
      <4>. QED  BY <4>3, <4>6, <4>8
    <3>. QED  BY <3>1, <3>2
  <2>. QED  BY <2>1
<1>3. G = Nat
  <2> HIDE DEF Listed
  <2>1. G \in SUBSET Nat
    OBVIOUS
  <2> HIDE DEF G
  <2>. QED  BY <1>1, <1>2, <2>1, SetInduction
<1>. QED  BY <1>0, <1>3

\* Such a listing has each of the elements exactly once.
LEMMA ListingProperties ==
  ASSUME NEW N \in Nat, NEW S \in SUBSET (1..N), NEW s \in [1..Cardinality(S) -> S],
         Increasing(s, Cardinality(S))
  PROVE  s \in Seq(S) /\ Len(s) = Cardinality(S) /\ IsInjective(s) /\ ToSet(s) = S
<1> DEFINE n == Cardinality(S)
<1>1. IsFiniteSet(S) /\ n \in Nat
  BY SortedListing, FS_CardinalityType
<1>2. \A i, j \in 1..n : s[i] = s[j] => i = j
  <2>1. \A i \in 1..n : s[i] \in Nat
    <3>1. \A i \in 1..n : s[i] \in S
      OBVIOUS
    <3>2. S \subseteq Nat
      <4>1. \A x \in 1..N : x \in Nat
        OBVIOUS
      <4>. QED  BY <4>1
    <3> HIDE DEF n
    <3>. QED  BY <3>1, <3>2
  <2>2. \A i, j \in 1..n : i < j => s[i] < s[j]
    BY DEF Increasing
  <2>. QED  BY <1>1, <2>1, <2>2
<1>3. IsInjective(s)
  BY <1>2 DEF IsInjective
<1>4. s \in Injection(1..n, S)
  BY <1>2 DEF Injection, IsInjective
<1>5. Cardinality(1..n) = n
  BY <1>1, FS_Interval
<1>6. s \in Surjection(1..n, S)
  BY <1>1, <1>4, <1>5, FS_Injection
<1>7. ToSet(s) = S
  BY <1>6 DEF Surjection, ToSet
<1> HIDE DEF n
<1>8. s \in Seq(S) /\ Len(s) = n
  BY <1>1 DEF n
<1>. QED  BY <1>3, <1>7, <1>8 DEF n

-----------------------------------------------------------------------------
(* Entries taken by position.                                              *)

\* The increasing listing of a set is the one that Nth gives.
LEMMA NthIsListing ==
  ASSUME NEW N \in Nat, NEW K \in SUBSET (1..N), NEW s \in [1..Cardinality(K) -> K],
         Increasing(s, Cardinality(K))
  PROVE  \A k \in 1..Cardinality(K) : Nth(K, k) = s[k]
<1> DEFINE n == Cardinality(K)
           Below(i) == {j \in K : j < i}
<1>1. IsFiniteSet(K) /\ n \in Nat /\ ToSet(s) = K /\ IsInjective(s)
  BY SortedListing, ListingProperties, FS_CardinalityType
<1>2. \A i \in K : i \in Nat
  OBVIOUS
<1> HIDE DEF n
<1>3. \A k \in 1..n : s[k] \in K /\ s[k] \in Nat
  BY <1>2 DEF n
<1>4. \A i, j \in 1..n : i < j => s[i] < s[j]
  BY DEF Increasing, n
<1>5. \A i \in K : \E k \in 1..n : i = s[k]
  BY <1>1 DEF ToSet, n
<1>6. ASSUME NEW k \in 1..n
      PROVE  Cardinality(Below(s[k])) = k - 1
  <2> DEFINE f == [i \in 1..(k - 1) |-> s[i]]
  <2>1. \A i \in 1..(k - 1) : i \in 1..n /\ i < k
    BY <1>1
  <2>2. \A i \in 1..(k - 1) : f[i] \in Below(s[k])
    BY <1>3, <1>4, <2>1
  <2>3. \A i, j \in 1..(k - 1) : f[i] = f[j] => i = j
    <3>. TAKE i, j \in 1..(k - 1)
    <3>1. i \in 1..n /\ j \in 1..n /\ f[i] = s[i] /\ f[j] = s[j]
      BY <2>1
    <3>2. s[i] \in Nat /\ s[j] \in Nat
      BY <1>3, <3>1
    <3>. QED  BY <1>1, <1>4, <3>1, <3>2
  <2>4. \A b \in Below(s[k]) : \E i \in 1..(k - 1) : f[i] = b
    <3>. TAKE b \in Below(s[k])
    <3>1. b \in K /\ b < s[k] /\ b \in Nat
      BY <1>2
    <3>2. PICK i \in 1..n : b = s[i]
      BY <1>5, <3>1
    <3>3. i < k
      BY <1>1, <1>3, <1>4, <3>1, <3>2
    <3>4. i \in 1..(k - 1) /\ f[i] = b
      BY <1>1, <3>2, <3>3
    <3>. QED  BY <3>4
  <2>5. f \in Bijection(1..(k - 1), Below(s[k]))
    <3>1. f \in [1..(k - 1) -> Below(s[k])]
      BY <2>2
    <3> HIDE DEF f, Below
    <3>. QED  BY <2>3, <2>4, <3>1 DEF Bijection, Injection, Surjection, IsInjective
  <2>6. IsFiniteSet(1..(k - 1)) /\ Cardinality(1..(k - 1)) = k - 1
    BY <1>1, FS_Interval
  <2> HIDE DEF f, Below
  <2>. QED  BY <2>5, <2>6, FS_Bijection DEF ExistsBijection
<1>. TAKE k \in 1..Cardinality(K)
<1>7. k \in 1..n
  BY DEF n
<1>8. s[k] \in K /\ Cardinality(Below(s[k])) = k - 1
  BY <1>3, <1>6, <1>7
<1>9. ASSUME NEW i \in K, Cardinality(Below(i)) = k - 1
      PROVE  i = s[k]
  <2>1. PICK a \in 1..n : i = s[a]
    BY <1>5
  <2>2. a - 1 = k - 1
    BY <1>6, <1>9, <2>1
  <2>. QED  BY <1>1, <1>7, <2>1, <2>2
<1>. QED  BY <1>8, <1>9 DEF Nth

\* Nth lists the set K of positions.
ListsAll(K) ==
  /\ Cardinality(K) \in Nat
  /\ \A k \in 1..Cardinality(K) : Nth(K, k) \in K
  /\ \A i, j \in 1..Cardinality(K) : i < j => Nth(K, i) < Nth(K, j)
  /\ \A i \in K : \E k \in 1..Cardinality(K) : Nth(K, k) = i

LEMMA NthProperties ==
  ASSUME NEW N \in Nat, NEW K \in SUBSET (1..N)
  PROVE  ListsAll(K)
<1>1. PICK s \in [1..Cardinality(K) -> K] : Increasing(s, Cardinality(K))
  BY SortedListing
<1>2. \A k \in 1..Cardinality(K) : Nth(K, k) = s[k]
  BY <1>1, NthIsListing
<1>3. ToSet(s) = K /\ Cardinality(K) \in Nat
  BY <1>1, ListingProperties, SortedListing, FS_CardinalityType
<1>. QED  BY <1>1, <1>2, <1>3 DEF ListsAll, Increasing, ToSet

LEMMA SelectedProperties ==
  ASSUME NEW S, NEW s \in Seq(S), NEW K \in SUBSET (1..Len(s))
  PROVE  /\ Selected(s, K) \in Seq(S) /\ Len(Selected(s, K)) = Cardinality(K)
         /\ \A k \in 1..Cardinality(K) : Selected(s, K)[k] = s[Nth(K, k)]
<1>0. Len(s) \in Nat /\ \A i \in 1..Len(s) : s[i] \in S
  OBVIOUS
<1>1. ListsAll(K)
  BY <1>0, NthProperties
<1>2. Selected(s, K) \in [1..Cardinality(K) -> S]
  <2>1. \A k \in 1..Cardinality(K) : s[Nth(K, k)] \in S
    BY <1>0, <1>1 DEF ListsAll
  <2>. QED  BY <2>1 DEF Selected
<1>3. Cardinality(K) \in Nat
  BY <1>1 DEF ListsAll
<1>. QED  BY <1>2, <1>3 DEF Selected

\* Two selections are the same when an increasing map takes one set of positions
\* onto the other and what stands at them agrees.
LEMMA SameSelection ==
  ASSUME NEW S, NEW s \in Seq(S), NEW K \in SUBSET (1..Len(s)),
         NEW t \in Seq(S), NEW L \in SUBSET (1..Len(t)), NEW f \in [L -> K],
         \A i, j \in L : i < j => f[i] < f[j],
         \A k \in K : \E l \in L : f[l] = k,
         \A l \in L : t[l] = s[f[l]]
  PROVE  Selected(t, L) = Selected(s, K)
<1> DEFINE n == Cardinality(L)
           g == [k \in 1..n |-> f[Nth(L, k)]]
<1>0. Len(s) \in Nat /\ Len(t) \in Nat
  OBVIOUS
<1>1. ListsAll(L) /\ ListsAll(K) /\ IsFiniteSet(L)
  BY <1>0, NthProperties, SortedListing
<1>2. \A i \in L : i \in Nat
  OBVIOUS
<1>3. \A k \in K : k \in Nat
  OBVIOUS
<1>4. n = Cardinality(K)
  <2>1. \A i, j \in L : f[i] = f[j] => i = j
    <3>. TAKE i, j \in L
    <3>1. i \in Nat /\ j \in Nat /\ f[i] \in Nat /\ f[j] \in Nat
      BY <1>2, <1>3
    <3>2. (i < j => f[i] < f[j]) /\ (j < i => f[j] < f[i])
      OBVIOUS
    <3>. QED  BY <3>1, <3>2
  <2>2. f \in Bijection(L, K)
    BY <2>1 DEF Bijection, Injection, Surjection, IsInjective
  <2>. QED  BY <1>1, <2>2, FS_Bijection DEF ExistsBijection
<1>5. g \in [1..n -> K] /\ Increasing(g, n)
  <2> HIDE DEF n
  <2>1. \A k \in 1..n : Nth(L, k) \in L
    BY <1>1 DEF ListsAll, n
  <2>2. \A i, j \in 1..n : i < j => Nth(L, i) < Nth(L, j)
    BY <1>1 DEF ListsAll, n
  <2>. QED  BY <2>1, <2>2 DEF Increasing
<1>6. \A k \in 1..n : Nth(K, k) = g[k]
  <2> HIDE DEF g, n
  <2>1. g \in [1..Cardinality(K) -> K] /\ Increasing(g, Cardinality(K))
    BY <1>4, <1>5
  <2>2. \A k \in 1..Cardinality(K) : Nth(K, k) = g[k]
    BY <1>0, <2>1, NthIsListing
  <2>. QED  BY <1>4, <2>2
<1>7. \A k \in 1..n : t[Nth(L, k)] = s[Nth(K, k)]
  BY <1>1, <1>6 DEF ListsAll
<1>. QED  BY <1>4, <1>7 DEF Selected

\* An entry added to the end is selected last or not at all.
LEMMA SelectionGrows ==
  ASSUME NEW S, NEW s \in Seq(S), NEW K \in SUBSET (1..Len(s)), NEW e \in S,
         NEW L, L = K \/ L = K \cup {Len(s) + 1}
  PROVE  IsPrefix(Selected(s, K), Selected(Append(s, e), L))
<1> DEFINE t == Append(s, e)
           n == Cardinality(K)
           m == Len(s) + 1
<1>1. t \in Seq(S) /\ Len(t) = m /\ \A i \in 1..Len(s) : t[i] = s[i]
  OBVIOUS
<1> HIDE DEF t
<1>0. Len(s) \in Nat
  OBVIOUS
<1>2. ListsAll(K) /\ IsFiniteSet(K) /\ n \in Nat
  BY <1>0, NthProperties, SortedListing, FS_CardinalityType
<1>3. L \in SUBSET (1..Len(t)) /\ m \notin K
  <2>1. 1..Len(s) \subseteq 1..m /\ m \notin 1..Len(s) /\ m \in 1..m
    BY <1>0
  <2>. QED  BY <1>1, <2>1
<1>4. Cardinality(L) \in Nat /\ n <= Cardinality(L) /\ \A k \in 1..n : Nth(L, k) = Nth(K, k)
  <2>1. CASE L = K
    BY <1>2, <2>1
  <2>2. CASE L = K \cup {m}
    <3> DEFINE g == [k \in 1..(n + 1) |-> IF k <= n THEN Nth(K, k) ELSE m]
    <3>1. Cardinality(L) = n + 1
      BY <1>2, <1>3, <2>2, FS_AddElement
    <3>2. \A k \in 1..n : Nth(K, k) \in K /\ Nth(K, k) \in 1..Len(s)
      BY <1>2 DEF ListsAll
    <3>3. \A i, j \in 1..n : i < j => Nth(K, i) < Nth(K, j)
      BY <1>2 DEF ListsAll
    <3> HIDE DEF n
    <3>4. g \in [1..(n + 1) -> L]
      BY <1>2, <2>2, <3>2
    <3>5. Increasing(g, n + 1)
      BY <1>2, <3>2, <3>3 DEF Increasing
    <3>6. \A k \in 1..(n + 1) : Nth(L, k) = g[k]
      <4> HIDE DEF g
      <4>1. Len(t) \in Nat
        BY <1>1
      <4>. QED  BY <1>3, <3>1, <3>4, <3>5, <4>1, NthIsListing
    <3>. QED  BY <1>2, <3>1, <3>6
  <2>. QED  BY <2>1, <2>2
<1>5. /\ Selected(s, K) \in Seq(S) /\ Len(Selected(s, K)) = n
      /\ \A k \in 1..n : Selected(s, K)[k] = s[Nth(K, k)]
  BY SelectedProperties
<1>6. /\ Selected(t, L) \in Seq(S) /\ Len(Selected(t, L)) = Cardinality(L)
      /\ \A k \in 1..Cardinality(L) : Selected(t, L)[k] = t[Nth(L, k)]
  BY <1>1, <1>3, SelectedProperties
<1>7. \A k \in 1..n : Selected(t, L)[k] = Selected(s, K)[k]
  <2>. TAKE k \in 1..n
  <2>0. Nth(K, k) \in K /\ k \in 1..Cardinality(L) /\ Nth(L, k) = Nth(K, k)
    <3>1. \A j \in 1..n : Nth(K, j) \in K
      BY <1>2 DEF ListsAll
    <3> HIDE DEF n
    <3>. QED  BY <1>2, <1>4, <3>1
  <2>1. k \in 1..Cardinality(L) /\ Nth(L, k) = Nth(K, k) /\ Nth(K, k) \in 1..Len(s)
    BY <2>0
  <2>. QED  BY <1>1, <1>5, <1>6, <2>1
<1> DEFINE p == Selected(s, K)
           q == Selected(t, L)
<1> HIDE DEF p, q, n
<1>8. SubSeq(p, 1, Len(p)) = SubSeq(q, 1, Len(p)) /\ Len(p) <= Len(q)
  BY <1>2, <1>4, <1>5, <1>6, <1>7 DEF p, q
<1>. QED  BY <1>8 DEF IsPrefix, p, q, t

-----------------------------------------------------------------------------
(* The members of a set in an order.                                       *)

\* R is a strict order without ties on S.
Orders(R, S) ==
  /\ \A x \in S : <<x, x>> \notin R
  /\ \A x, y, z \in S : <<x, y>> \in R /\ <<y, z>> \in R => <<x, z>> \in R
  /\ \A x, y \in S : x = y \/ <<x, y>> \in R \/ <<y, x>> \in R

\* s has the members of S, each once and by the order R.
Lists(s, S, R) ==
  /\ s \in Seq(S) /\ Len(s) = Cardinality(S) /\ Len(s) \in Nat
  /\ \A x \in S : \E i \in 1..Len(s) : x = s[i]
  /\ \A i, j \in 1..Len(s) : s[i] = s[j] => i = j
  /\ \A i, j \in 1..Len(s) : i < j <=> <<s[i], s[j]>> \in R

\* A member's place is the number of those before it: no two have the same, so
\* every place is taken.
LEMMA InOrderProperties ==
  ASSUME NEW S, IsFiniteSet(S), NEW R, Orders(R, S)
  PROVE  Lists(InOrder(S, R), S, R)
<1> DEFINE n == Cardinality(S)
           Below(x) == {y \in S : <<y, x>> \in R}
           rank == [x \in S |-> Cardinality(Below(x)) + 1]
<1>1. n \in Nat
  BY FS_CardinalityType
<1>2. \A x \in S : IsFiniteSet(Below(x)) /\ Cardinality(Below(x)) \in Nat
  BY FS_Subset, FS_CardinalityType
<1>3. ASSUME NEW x \in S
      PROVE  rank[x] \in 1..n
  <2>1. Below(x) \in SUBSET (S \ {x})
    BY DEF Orders
  <2>2. IsFiniteSet(S \ {x}) /\ Cardinality(S \ {x}) = n - 1
    BY FS_RemoveElement
  <2>3. Cardinality(Below(x)) <= n - 1
    <3> HIDE DEF Below
    <3>. QED  BY <2>1, <2>2, FS_Subset
  <2>. QED  BY <1>1, <1>2, <2>3
<1>4. ASSUME NEW x \in S, NEW y \in S, <<x, y>> \in R
      PROVE  rank[x] < rank[y]
  <2>1. Below(x) \in SUBSET Below(y) /\ x \in Below(y) /\ x \notin Below(x)
    BY <1>4 DEF Orders
  <2>2. Cardinality(Below(x)) <= Cardinality(Below(y)) /\ Cardinality(Below(x)) # Cardinality(Below(y))
    <3>1. Below(x) # Below(y)
      BY <2>1
    <3> HIDE DEF Below
    <3>. QED  BY <1>2, <2>1, <3>1, FS_Subset
  <2>3. Cardinality(Below(x)) \in Nat /\ Cardinality(Below(y)) \in Nat
    BY <1>2
  <2> HIDE DEF Below
  <2>. QED  BY <2>2, <2>3
<1> HIDE DEF n
<1>5. \A x \in S : rank[x] \in Nat
  BY <1>1, <1>3
<1>6. \A x, y \in S : rank[x] = rank[y] => x = y
  <2>. TAKE x, y \in S
  <2>1. rank[x] \in Nat /\ rank[y] \in Nat
    BY <1>5
  <2>2. x = y \/ <<x, y>> \in R \/ <<y, x>> \in R
    BY DEF Orders
  <2> HIDE DEF rank
  <2>. QED  BY <1>4, <2>1, <2>2
<1>7. \A i \in 1..n : \E x \in S : rank[x] = i
  <2>1. rank \in [S -> 1..n]
    <3>1. rank = [x \in S |-> rank[x]]
      OBVIOUS
    <3> HIDE DEF rank
    <3>. QED  BY <1>3, <3>1
  <2> HIDE DEF rank
  <2>2. rank \in Injection(S, 1..n)
    BY <1>6, <2>1 DEF Injection, IsInjective
  <2>3. IsFiniteSet(1..n) /\ Cardinality(1..n) = n
    BY <1>1, FS_Interval
  <2>4. rank \in Surjection(S, 1..n)
    BY <2>2, <2>3, FS_Injection DEF n
  <2>. QED  BY <2>4 DEF Surjection
<1> DEFINE s == InOrder(S, R)
<1>8. s = [i \in 1..n |-> CHOOSE m \in S : Cardinality(Below(m)) = i - 1]
  BY DEF InOrder, n
<1>9. ASSUME NEW i \in 1..n
      PROVE  s[i] \in S /\ rank[s[i]] = i
  <2>1. PICK x \in S : rank[x] = i
    BY <1>7
  <2>2. Cardinality(Below(x)) = i - 1
    BY <1>2, <2>1
  <2>3. s[i] \in S /\ Cardinality(Below(s[i])) = i - 1
    <3> HIDE DEF Below, s
    <3>. QED  BY <1>8, <2>2
  <2>. QED  BY <1>1, <2>3
<1> HIDE DEF s, rank
<1>10. s \in Seq(S) /\ Len(s) = n
  <2>1. \A i \in 1..n : s[i] \in S
    BY <1>9
  <2>2. DOMAIN s = 1..n /\ s = [i \in 1..n |-> s[i]]
    <3> DEFINE pick(i) == CHOOSE m \in S : Cardinality(Below(m)) = i - 1
    <3>1. s = [i \in 1..n |-> pick(i)]
      BY <1>8
    <3> HIDE DEF pick
    <3>. QED  BY <3>1
  <2>3. s \in [1..n -> S]
    BY <2>1, <2>2
  <2>. QED  BY <1>1, <2>3
<1>11. \A x \in S : \E i \in 1..n : x = s[i]
  BY <1>3, <1>6, <1>9
<1>12. \A i, j \in 1..n : s[i] = s[j] => i = j
  BY <1>9
<1>13. \A i, j \in 1..n : i < j <=> <<s[i], s[j]>> \in R
  <2>. TAKE i, j \in 1..n
  <2>1. s[i] \in S /\ s[j] \in S /\ rank[s[i]] = i /\ rank[s[j]] = j
    BY <1>9
  <2>2. <<s[i], s[j]>> \in R => i < j
    BY <1>4, <2>1
  <2>3. <<s[j], s[i]>> \in R => j < i
    BY <1>4, <2>1
  <2>4. s[i] = s[j] \/ <<s[i], s[j]>> \in R \/ <<s[j], s[i]>> \in R
    BY <2>1 DEF Orders
  <2>. QED  BY <1>1, <1>12, <2>2, <2>3, <2>4
<1>14. Lists(s, S, R)
  BY <1>1, <1>10, <1>11, <1>12, <1>13 DEF Lists, n
<1>. QED  BY <1>14 DEF s

-----------------------------------------------------------------------------
(* The greatest and the least of a set of positions, and sums.             *)

LEMMA MaxProperties ==
  ASSUME NEW N \in Nat, NEW T \in SUBSET (0..N), T # {}
  PROVE  Max(T) \in T /\ Max(T) \in Nat /\ \A i \in T : i <= Max(T)
<1> DEFINE U == {N - i : i \in T}
<1>1. \A i \in T : i \in Nat /\ N - i \in Nat
  OBVIOUS
<1>2. U \in SUBSET Nat /\ U # {}
  BY <1>1
<1>3. PICK u \in U : \A v \in U : u <= v
  BY <1>2, LeastOfSet
<1>4. PICK i \in T : u = N - i
  OBVIOUS
<1>5. \A j \in T : i >= j
  BY <1>1, <1>3, <1>4
<1>6. Max(T) \in T /\ \A j \in T : Max(T) >= j
  BY <1>5 DEF Max
<1>. QED  BY <1>1, <1>6

LEMMA MinProperties ==
  ASSUME NEW T \in SUBSET Nat, T # {}
  PROVE  Min(T) \in T /\ Min(T) \in Nat /\ \A i \in T : Min(T) <= i
<1>1. PICK i \in T : \A j \in T : i <= j
  BY LeastOfSet
<1>2. Min(T) \in T /\ \A j \in T : Min(T) <= j
  BY <1>1 DEF Min
<1>. QED  BY <1>2

\* The units a sum counts.
Units(S, weight) == UNION {{m} \X (1..weight[m]) : m \in S}

LEMMA UnitsAreFinite ==
  ASSUME NEW S, IsFiniteSet(S), NEW weight, \A m \in S : weight[m] \in Nat
  PROVE  /\ IsFiniteSet(Units(S, weight)) /\ Total(S, weight) = Cardinality(Units(S, weight))
         /\ \A x : x \in Units(S, weight)
                     <=> \E m \in S : \E k \in 1..weight[m] : x = <<m, k>>
<1> DEFINE f == [m \in S |-> {m} \X (1..weight[m])]
           Parts == {{m} \X (1..weight[m]) : m \in S}
<1>1. f \in Surjection(S, Parts)
  BY DEF Surjection
<1>2. IsFiniteSet(Parts)
  BY <1>1, FS_Surjection
<1>3. \A m \in S : IsFiniteSet({m} \X (1..weight[m]))
  <2>. TAKE m \in S
  <2>1. IsFiniteSet({m})
    BY FS_Singleton
  <2>2. weight[m] \in Int /\ 1 \in Int
    OBVIOUS
  <2>3. IsFiniteSet(1..weight[m])
    BY <2>2, FS_Interval
  <2>. QED  BY <2>1, <2>3, FS_Product
<1>4. \A P \in Parts : IsFiniteSet(P)
  BY <1>3
<1>5. Total(S, weight) = Cardinality(Units(S, weight)) /\ Units(S, weight) = UNION Parts
  BY DEF Total, Units
<1>6. \A x : x \in Units(S, weight) <=> \E m \in S : \E k \in 1..weight[m] : x = <<m, k>>
  BY DEF Units
<1> HIDE DEF Parts
<1>7. IsFiniteSet(UNION Parts)
  BY <1>2, <1>4, FS_UNION
<1>. QED  BY <1>5, <1>6, <1>7

\* A sum is a number, and at least that of a part.
LEMMA TotalProperties ==
  ASSUME NEW S, IsFiniteSet(S), NEW weight, \A m \in S : weight[m] \in Nat,
         NEW T \in SUBSET S
  PROVE  /\ Total(S, weight) \in Nat /\ Total(T, weight) \in Nat
         /\ Total(T, weight) <= Total(S, weight)
<1>1. IsFiniteSet(T) /\ \A m \in T : weight[m] \in Nat
  BY FS_Subset
<1>2. Units(T, weight) \in SUBSET Units(S, weight)
  BY DEF Units
<1>3. /\ IsFiniteSet(Units(S, weight)) /\ Total(S, weight) = Cardinality(Units(S, weight))
      /\ IsFiniteSet(Units(T, weight)) /\ Total(T, weight) = Cardinality(Units(T, weight))
  BY <1>1, UnitsAreFinite
<1>. QED  BY <1>2, <1>3, FS_Subset, FS_CardinalityType

\* A sum grows at most when its terms go, each to a place of its own, where they
\* are no less.
LEMMA TotalMoved ==
  ASSUME NEW S, NEW T, IsFiniteSet(T), NEW u, NEW v, NEW f \in [S -> T],
         \A a, b \in S : f[a] = f[b] => a = b,
         \A a \in S : u[a] \in Nat /\ u[a] <= v[f[a]],
         \A b \in T : v[b] \in Nat
  PROVE  Total(S, u) \in Nat /\ Total(T, v) \in Nat /\ Total(S, u) <= Total(T, v)
<1>1. IsFiniteSet(S)
  <2>1. f \in Injection(S, T)
    BY DEF Injection, IsInjective
  <2>. QED  BY <2>1, FS_Injection
<1>2. /\ IsFiniteSet(Units(S, u)) /\ Total(S, u) = Cardinality(Units(S, u))
      /\ \A x : x \in Units(S, u) <=> \E m \in S : \E k \in 1..u[m] : x = <<m, k>>
  BY <1>1, UnitsAreFinite
<1>3. /\ IsFiniteSet(Units(T, v)) /\ Total(T, v) = Cardinality(Units(T, v))
      /\ \A x : x \in Units(T, v) <=> \E m \in T : \E k \in 1..v[m] : x = <<m, k>>
  BY UnitsAreFinite
<1> DEFINE P == Units(S, u)
           h == [x \in P |-> <<f[x[1]], x[2]>>]
<1>4. \A x \in P : x[1] \in S /\ x[2] \in 1..u[x[1]] /\ x = <<x[1], x[2]>>
  BY <1>2
<1>5. ASSUME NEW x \in P
      PROVE  <<f[x[1]], x[2]>> \in Units(T, v)
  <2>1. x[1] \in S /\ x[2] \in 1..u[x[1]]
    BY <1>4
  <2>2. f[x[1]] \in T /\ u[x[1]] <= v[f[x[1]]] /\ u[x[1]] \in Nat /\ v[f[x[1]]] \in Nat
    BY <2>1
  <2>3. x[2] \in 1..v[f[x[1]]]
    BY <2>1, <2>2
  <2>. QED  BY <1>3, <2>2, <2>3
<1>6. h \in [P -> Units(T, v)]
  BY <1>5
<1>7. \A x, y \in P : h[x] = h[y] => x = y
  <2>1. SUFFICES ASSUME NEW x \in P, NEW y \in P, h[x] = h[y] PROVE x = y
    OBVIOUS
  <2>2. f[x[1]] = f[y[1]] /\ x[2] = y[2]
    BY <2>1
  <2>3. x[1] = y[1]
    BY <1>4, <2>2
  <2>. QED  BY <1>4, <2>2, <2>3
<1> HIDE DEF h
<1>8. h \in Injection(P, Units(T, v))
  BY <1>6, <1>7 DEF Injection, IsInjective
<1>9. Cardinality(P) <= Cardinality(Units(T, v))
  BY <1>3, <1>8, FS_Injection
<1>. QED  BY <1>2, <1>3, <1>9, FS_CardinalityType

\* The sum over two sets that have nothing in common.
LEMMA TotalOfBoth ==
  ASSUME NEW S, NEW T, IsFiniteSet(S), IsFiniteSet(T), \A m \in S : m \notin T,
         NEW B, \A m : m \in B <=> m \in S \/ m \in T,
         NEW u, NEW v, NEW weight,
         \A m \in S : u[m] = weight[m], \A m \in T : v[m] = weight[m],
         \A m \in B : weight[m] \in Nat
  PROVE  /\ Total(S, u) \in Nat /\ Total(T, v) \in Nat
         /\ Total(B, weight) = Total(S, u) + Total(T, v)
<1>1. IsFiniteSet(B)
  <2>1. B = S \cup T
    OBVIOUS
  <2>. QED  BY <2>1, FS_Union
<1>2. \A m : m \in B <=> m \in S \/ m \in T
  OBVIOUS
<1>3. /\ IsFiniteSet(Units(B, weight)) /\ Total(B, weight) = Cardinality(Units(B, weight))
      /\ \A x : x \in Units(B, weight) <=> \E m \in B : \E k \in 1..weight[m] : x = <<m, k>>
  BY <1>1, UnitsAreFinite
<1>4. \A m \in S : u[m] \in Nat
  BY <1>1, <1>2
<1>5. /\ IsFiniteSet(Units(S, u)) /\ Total(S, u) = Cardinality(Units(S, u))
      /\ \A x : x \in Units(S, u) <=> \E m \in S : \E k \in 1..u[m] : x = <<m, k>>
  BY <1>4, UnitsAreFinite
<1>6. \A m \in T : v[m] \in Nat
  BY <1>1, <1>2
<1>7. /\ IsFiniteSet(Units(T, v)) /\ Total(T, v) = Cardinality(Units(T, v))
      /\ \A x : x \in Units(T, v) <=> \E m \in T : \E k \in 1..v[m] : x = <<m, k>>
  BY <1>6, UnitsAreFinite
<1>8. Units(B, weight) = Units(S, u) \cup Units(T, v)
  BY <1>2, <1>3, <1>5, <1>7
<1>9. Units(S, u) \cap Units(T, v) = {}
  BY <1>5, <1>7
<1>10. Cardinality(Units(S, u) \cup Units(T, v)) =
         Cardinality(Units(S, u)) + Cardinality(Units(T, v))
           - Cardinality(Units(S, u) \cap Units(T, v))
  BY <1>5, <1>7, FS_Union
<1>11. /\ Cardinality(Units(S, u)) \in Nat /\ Cardinality(Units(T, v)) \in Nat
       /\ Cardinality(Units(S, u) \cap Units(T, v)) = 0
  BY <1>5, <1>7, <1>9, FS_CardinalityType, FS_EmptySet
<1>12. Total(B, weight) = Total(S, u) + Total(T, v)
  BY <1>3, <1>5, <1>7, <1>8, <1>10, <1>11
<1>. QED  BY <1>5, <1>7, <1>11, <1>12

\* Sets that are each no larger than a term have together no more members than
\* the sum has units.
LEMMA TotalCovers ==
  ASSUME NEW S, IsFiniteSet(S), NEW F, NEW weight,
         \A m \in S : IsFiniteSet(F[m]) /\ weight[m] \in Nat /\ Cardinality(F[m]) <= weight[m]
  PROVE  Cardinality(UNION {F[m] : m \in S}) <= Total(S, weight)
<1> DEFINE W == UNION {F[m] : m \in S}
           G(m) == CHOOSE g \in Surjection(1..Cardinality(F[m]), F[m]) : TRUE
           U == {x \in Units(S, weight) : x[2] <= Cardinality(F[x[1]])}
           h == [x \in U |-> G(x[1])[x[2]]]
<1>1. /\ IsFiniteSet(Units(S, weight)) /\ Total(S, weight) = Cardinality(Units(S, weight))
      /\ \A x : x \in Units(S, weight) <=> \E m \in S : \E k \in 1..weight[m] : x = <<m, k>>
  BY UnitsAreFinite
<1>2. ASSUME NEW m \in S
      PROVE  /\ Cardinality(F[m]) \in Nat /\ G(m) \in [1..Cardinality(F[m]) -> F[m]]
             /\ \A y \in F[m] : \E k \in 1..Cardinality(F[m]) : G(m)[k] = y
  <2>1. Cardinality(F[m]) \in Nat /\ ExistsBijection(1..Cardinality(F[m]), F[m])
    BY FS_CardinalityType
  <2>2. \E g : g \in Surjection(1..Cardinality(F[m]), F[m])
    BY <2>1 DEF ExistsBijection, Bijection
  <2>3. G(m) \in Surjection(1..Cardinality(F[m]), F[m])
    BY <2>2
  <2>. QED  BY <2>1, <2>3 DEF Surjection
<1> HIDE DEF G
<1>3. \A x \in U : x[1] \in S /\ x[2] \in 1..Cardinality(F[x[1]])
  <2>1. SUFFICES ASSUME NEW x \in U PROVE x[1] \in S /\ x[2] \in 1..Cardinality(F[x[1]])
    OBVIOUS
  <2>2. PICK m \in S : \E k \in 1..weight[m] : x = <<m, k>>
    BY <1>1
  <2>3. PICK k \in 1..weight[m] : x = <<m, k>>
    BY <2>2
  <2>4. k <= Cardinality(F[m]) /\ Cardinality(F[m]) \in Nat
    BY <1>2, <2>3
  <2>5. x[1] = m /\ x[2] = k
    BY <2>3
  <2>. QED  BY <2>3, <2>4, <2>5
<1>4. h \in [U -> W]
  <2>1. ASSUME NEW x \in U PROVE G(x[1])[x[2]] \in W
    <3>1. G(x[1])[x[2]] \in F[x[1]] /\ x[1] \in S
      BY <1>2, <1>3
    <3>. QED  BY <3>1
  <2> HIDE DEF U, W
  <2>. QED  BY <2>1
<1>5. ASSUME NEW y \in W
      PROVE  \E x \in U : h[x] = y
  <2>1. PICK m \in S : y \in F[m]
    OBVIOUS
  <2>2. PICK k \in 1..Cardinality(F[m]) : G(m)[k] = y
    BY <1>2, <2>1
  <2>3. k \in 1..weight[m] /\ k <= Cardinality(F[m])
    BY <1>2
  <2>4. <<m, k>> \in Units(S, weight) /\ <<m, k>>[1] = m /\ <<m, k>>[2] = k
    BY <1>1, <2>3
  <2>5. <<m, k>> \in U
    BY <2>3, <2>4
  <2>6. h[<<m, k>>] = G(m)[k]
    BY <2>5, <2>4
  <2>. QED  BY <2>2, <2>5, <2>6
<1>6. U \in SUBSET Units(S, weight)
  OBVIOUS
<1> HIDE DEF U, W, h
<1>7. IsFiniteSet(U) /\ Cardinality(U) \in Nat /\ Cardinality(U) <= Cardinality(Units(S, weight))
  BY <1>1, <1>6, FS_Subset, FS_CardinalityType
<1>8. h \in Surjection(U, W)
  BY <1>4, <1>5 DEF Surjection
<1>9. IsFiniteSet(W) /\ Cardinality(W) <= Cardinality(U)
  BY <1>7, <1>8, FS_Surjection
<1>10. Cardinality(W) \in Nat /\ Cardinality(Units(S, weight)) \in Nat
  BY <1>1, <1>9, FS_CardinalityType
<1>11. Cardinality(W) <= Total(S, weight)
  BY <1>1, <1>7, <1>9, <1>10
<1>. QED  BY <1>11 DEF W

LEMMA TotalOfOne ==
  ASSUME NEW m, NEW weight, weight[m] \in Nat
  PROVE  Total({m}, weight) = weight[m]
<1>1. UNION {{x} \X (1..weight[x]) : x \in {m}} = {m} \X (1..weight[m])
  OBVIOUS
<1>2. IsFiniteSet({m}) /\ Cardinality({m}) = 1
  BY FS_Singleton
<1>3. IsFiniteSet(1..weight[m]) /\ Cardinality(1..weight[m]) = weight[m]
  <2>1. weight[m] \in Int /\ 1 \in Int
    OBVIOUS
  <2>2. /\ IsFiniteSet(1..weight[m])
        /\ Cardinality(1..weight[m]) = IF 1 > weight[m] THEN 0 ELSE weight[m] - 1 + 1
    BY <2>1, FS_Interval
  <2>. QED  BY <2>2
<1>4. Cardinality({m} \X (1..weight[m])) = 1 * weight[m]
  <2>1. Cardinality({m} \X (1..weight[m])) = Cardinality({m}) * Cardinality(1..weight[m])
    BY <1>2, <1>3, FS_Product
  <2>. QED  BY <1>2, <1>3, <2>1
<1>. QED  BY <1>1, <1>4 DEF Total

-----------------------------------------------------------------------------
(* The groups of a sequence.                                               *)

\* Where the k-th group of s ends.
EndOf(s, K, k) == IF k < Cardinality(K) THEN Nth(K, k + 1) - 1 ELSE Len(s)

\* The group g of s from a to b, which starts at one of the positions in K and has
\* no other of them.
GroupOf(g, s, K, a, b) ==
  /\ a \in K /\ a \in 1..Len(s) /\ b \in a..Len(s)
  /\ g = SubSeq(s, a, b) /\ Len(g) = b - a + 1
  /\ \A p \in 1..Len(g) : g[p] = s[a + p - 1]
  /\ ToSet(g) = {s[i] : i \in a..b}
  /\ \A i \in (a + 1)..b : i \notin K

\* The groups gs are parts of s one after the other, from each position in K on.
Grouped(gs, s, K, S) ==
  /\ gs \in Seq(Seq(S)) /\ Len(gs) = Cardinality(K) /\ Len(gs) \in Nat
  /\ \A k \in 1..Len(gs) : GroupOf(gs[k], s, K, Nth(K, k), EndOf(s, K, k))
  /\ \A k \in 1..Len(gs) : IF k = Len(gs) THEN EndOf(s, K, k) = Len(s)
                           ELSE EndOf(s, K, k) + 1 = Nth(K, k + 1)
  /\ \A j, k \in 1..Len(gs) : j < k => EndOf(s, K, j) < Nth(K, k)
  /\ \A i \in 1..Len(s) : \E k \in 1..Len(gs) : i \in Nth(K, k)..EndOf(s, K, k)

LEMMA GroupsProperties ==
  ASSUME NEW S, NEW s \in Seq(S), NEW K \in SUBSET (1..Len(s)), Len(s) > 0 => 1 \in K
  PROVE  Grouped(Groups(s, K), s, K, S)
<1> DEFINE n == Cardinality(K)
           gs == Groups(s, K)
<1>1. Len(s) \in Nat
  OBVIOUS
<1>2. ListsAll(K)
  BY <1>1, NthProperties
<1>3. n \in Nat
  BY <1>2 DEF ListsAll
<1>4. \A i \in K : i \in 1..Len(s) /\ i \in Nat
  OBVIOUS
<1>5. \A k \in 1..n : Nth(K, k) \in K /\ Nth(K, k) \in 1..Len(s) /\ Nth(K, k) \in Nat
  <2>1. \A k \in 1..n : Nth(K, k) \in K
    BY <1>2 DEF ListsAll
  <2>. QED  BY <1>4, <2>1
<1>6. \A j, k \in 1..n : j < k => Nth(K, j) < Nth(K, k)
  BY <1>2 DEF ListsAll
<1>7. \A i \in K : \E k \in 1..n : Nth(K, k) = i
  BY <1>2 DEF ListsAll
<1>8. \A k \in 1..n : EndOf(s, K, k) = IF k < n THEN Nth(K, k + 1) - 1 ELSE Len(s)
  BY DEF EndOf
<1>9. gs = [k \in 1..n |-> SubSeq(s, Nth(K, k), EndOf(s, K, k))]
  BY DEF Groups, EndOf
<1> HIDE DEF n, gs
<1>10. ASSUME NEW k \in 1..n
       PROVE  EndOf(s, K, k) \in Nth(K, k)..Len(s)
  <2>0. k \in Nat
    BY <1>3
  <2>1. Nth(K, k) \in 1..Len(s)
    BY <1>5
  <2>2. CASE k < n
    <3>1. k + 1 \in 1..n /\ k < k + 1
      BY <1>3, <2>0, <2>2
    <3>2. Nth(K, k + 1) \in 1..Len(s) /\ Nth(K, k) < Nth(K, k + 1)
      BY <1>5, <1>6, <3>1
    <3>. QED  BY <1>1, <1>8, <2>1, <2>2, <3>2
  <2>3. CASE ~(k < n)
    BY <1>1, <1>8, <2>1, <2>3
  <2>. QED  BY <2>2, <2>3
<1>11. \A j, k \in 1..n : j < k => EndOf(s, K, j) < Nth(K, k)
  <2>. TAKE j, k \in 1..n
  <2>. HAVE j < k
  <2>1. j \in Nat /\ k \in Nat /\ j + 1 \in 1..n /\ j < n
    BY <1>3
  <2>2. Nth(K, j + 1) \in Nat /\ Nth(K, k) \in Nat
    BY <1>4, <1>5, <2>1
  <2>3. j + 1 = k \/ Nth(K, j + 1) < Nth(K, k)
    BY <1>6, <2>1
  <2>4. EndOf(s, K, j) = Nth(K, j + 1) - 1
    BY <1>8, <2>1
  <2>. QED  BY <2>2, <2>3, <2>4
<1>12. ASSUME NEW k \in 1..n, NEW i \in (Nth(K, k) + 1)..EndOf(s, K, k)
       PROVE  i \notin K
  <2>1. SUFFICES ASSUME i \in K PROVE FALSE
    OBVIOUS
  <2>2. PICK l \in 1..n : Nth(K, l) = i
    BY <1>7, <2>1
  <2>3. Nth(K, k) \in Nat /\ EndOf(s, K, k) \in Nat /\ i > Nth(K, k) /\ i <= EndOf(s, K, k) /\ i \in Nat
    <3>1. Nth(K, k) \in Nat /\ EndOf(s, K, k) \in Nth(K, k)..Len(s)
      BY <1>5, <1>10
    <3>2. EndOf(s, K, k) \in Nat
      BY <1>1, <3>1
    <3>. QED  BY <3>1, <3>2
  <2>4. ~(l < k) /\ l # k
    BY <1>6, <2>2, <2>3
  <2>5. k < l
    BY <1>3, <2>4
  <2>6. EndOf(s, K, k) < i
    BY <1>11, <2>2, <2>5
  <2>. QED  BY <2>3, <2>6
<1>13. ASSUME NEW i \in 1..Len(s)
       PROVE  \E k \in 1..n : i \in Nth(K, k)..EndOf(s, K, k)
  <2> DEFINE T == {j \in K : j <= i}
  <2>1. T \in SUBSET (0..Len(s)) /\ T # {}
    <3>1. 1 \in T
      BY <1>1
    <3>2. \A j \in K : j \in 0..Len(s)
      BY <1>1, <1>4
    <3>. QED  BY <3>1, <3>2
  <2>2. Max(T) \in T /\ Max(T) \in Nat /\ \A j \in T : j <= Max(T)
    <3> HIDE DEF T
    <3>. QED  BY <1>1, <2>1, MaxProperties
  <2>3. PICK k \in 1..n : Nth(K, k) = Max(T)
    BY <1>7, <2>2
  <2>4. Nth(K, k) <= i
    BY <2>2, <2>3
  <2>5. i <= EndOf(s, K, k)
    <3>1. CASE k < n
      <4>1. k + 1 \in 1..n /\ k < k + 1
        BY <1>3, <3>1
      <4>2. Nth(K, k + 1) \in K /\ Nth(K, k) < Nth(K, k + 1) /\ Nth(K, k + 1) \in Nat
        BY <1>4, <1>5, <1>6, <4>1
      <4>3. Nth(K, k + 1) \notin T
        BY <2>2, <2>3, <4>2
      <4>4. ~(Nth(K, k + 1) <= i)
        BY <4>2, <4>3
      <4>. QED  BY <1>1, <1>8, <3>1, <4>2, <4>4
    <3>2. CASE ~(k < n)
      BY <1>1, <1>8, <3>2
    <3>. QED  BY <3>1, <3>2
  <2>6. Nth(K, k) \in Nat /\ EndOf(s, K, k) \in Nat
    <3>1. Nth(K, k) \in Nat
      BY <2>2, <2>3
    <3>. QED  BY <1>1, <1>10, <3>1
  <2>. QED  BY <2>4, <2>5, <2>6
<1>14. ASSUME NEW k \in 1..n
       PROVE  GroupOf(gs[k], s, K, Nth(K, k), EndOf(s, K, k)) /\ gs[k] \in Seq(S)
  <2> DEFINE a == Nth(K, k)
             b == EndOf(s, K, k)
  <2>1. a \in K /\ a \in 1..Len(s) /\ a \in Nat \ {0} /\ b \in a..Len(s) /\ b \in 0..Len(s) /\ a <= b
    <3>1. a \in K /\ a \in 1..Len(s) /\ b \in a..Len(s)
      BY <1>4, <1>5, <1>10
    <3> HIDE DEF a, b
    <3>. QED  BY <1>1, <3>1
  <2>2. \A i \in (a + 1)..b : i \notin K
    BY <1>12
  <2>3. gs[k] = SubSeq(s, a, b)
    BY <1>9
  <2> HIDE DEF a, b
  <2>4. IsPart(gs[k], S, s, a, b)
    BY <2>1, <2>3, PartProperties
  <2>5. ToSet(gs[k]) = {s[i] : i \in a..b}
    BY <2>4 DEF IsPart
  <2>6. gs[k] \in Seq(S) /\ Len(gs[k]) = b - a + 1
    BY <2>1, <2>4 DEF IsPart
  <2>7. \A p \in 1..Len(gs[k]) : gs[k][p] = s[a + p - 1]
    BY <2>4 DEF IsPart
  <2>8. GroupOf(gs[k], s, K, a, b)
    BY <2>1, <2>2, <2>3, <2>5, <2>6, <2>7 DEF GroupOf
  <2>. QED  BY <2>6, <2>8 DEF a, b
<1>15. gs \in Seq(Seq(S)) /\ Len(gs) = n
  <2>1. gs \in [1..n -> Seq(S)]
    <3>1. \A k \in 1..n : gs[k] \in Seq(S)
      BY <1>14
    <3>. QED  BY <1>9, <3>1
  <2>. QED  BY <1>3, <2>1
<1>16. \A k \in 1..n : IF k = n THEN EndOf(s, K, k) = Len(s)
                       ELSE EndOf(s, K, k) + 1 = Nth(K, k + 1)
  <2>. TAKE k \in 1..n
  <2>1. CASE k = n
    BY <1>3, <1>8, <2>1
  <2>2. CASE k # n
    <3>1. k < n /\ k + 1 \in 1..n
      BY <1>3, <2>2
    <3>2. Nth(K, k + 1) \in Nat /\ EndOf(s, K, k) = Nth(K, k + 1) - 1
      BY <1>4, <1>5, <1>8, <3>1
    <3>. QED  BY <2>2, <3>2
  <2>. QED  BY <2>1, <2>2
<1>17. Grouped(gs, s, K, S)
  <2>1. Len(gs) = Cardinality(K)
    BY <1>15 DEF n
  <2>. QED  BY <1>3, <1>11, <1>13, <1>14, <1>15, <1>16, <2>1 DEF Grouped
<1>. QED  BY <1>17 DEF gs

\* f gives every position where its group starts: at itself if it is in A or what
\* W says of its predecessor's group, and else where its predecessor's does.
StartsAt(f, n, A, W) ==
  \A i \in 1..n : f[i] = IF i \in A \/ <<f[i - 1], i>> \in W THEN i ELSE f[i - 1]

\* A function that is defined so, position by position, exists.
LEMMA StartsExist ==
  ASSUME NEW n \in Nat, NEW A, 1 \in A, NEW W
  PROVE  \E f \in [1..n -> 1..n] : StartsAt(f, n, A, W)
<1> DEFINE G == {k \in Nat : \E f \in [1..k -> 1..k] : StartsAt(f, k, A, W)}
<1>1. 0 \in G
  <2>1. [i \in 1..0 |-> i] \in [1..0 -> 1..0]
    OBVIOUS
  <2>2. \A f : StartsAt(f, 0, A, W)
    BY DEF StartsAt
  <2> HIDE DEF StartsAt
  <2>3. \E f \in [1..0 -> 1..0] : StartsAt(f, 0, A, W)
    BY <2>1, <2>2
  <2>. QED  BY <2>3
<1>2. ASSUME NEW k \in G
      PROVE  k + 1 \in G
  <2>1. PICK f \in [1..k -> 1..k] : StartsAt(f, k, A, W)
    OBVIOUS
  <2>2. k \in Nat
    OBVIOUS
  <2> DEFINE last == IF k + 1 \in A \/ <<f[k], k + 1>> \in W THEN k + 1 ELSE f[k]
             g == [i \in 1..(k + 1) |-> IF i <= k THEN f[i] ELSE last]
  <2>3. last \in 1..(k + 1)
    <3>1. CASE k = 0
      BY <3>1
    <3>2. CASE k # 0
      <4>1. f[k] \in 1..k
        BY <2>2, <3>2
      <4>2. f[k] \in 1..(k + 1) /\ k + 1 \in 1..(k + 1)
        BY <2>2, <4>1
      <4>. QED  BY <4>2
    <3>. QED  BY <3>1, <3>2
  <2>4. \A i \in 1..k : g[i] = f[i] /\ f[i] \in 1..(k + 1)
    <3>1. \A i \in 1..k : i \in 1..(k + 1) /\ i <= k
      BY <2>2
    <3>2. \A i \in 1..k : f[i] \in 1..k
      BY <2>1
    <3>. QED  BY <3>1, <3>2
  <2>5. g[k + 1] = last
    BY <2>2
  <2>6. g \in [1..(k + 1) -> 1..(k + 1)]
    <3>1. \A i \in 1..(k + 1) : g[i] \in 1..(k + 1)
      <4>1. \A i \in 1..(k + 1) : i \in 1..k \/ i = k + 1
        BY <2>2
      <4> HIDE DEF g, last
      <4>. QED  BY <2>3, <2>4, <2>5, <4>1
    <3>2. g = [i \in 1..(k + 1) |-> g[i]]
      OBVIOUS
    <3> HIDE DEF g
    <3>. QED  BY <3>1, <3>2
  <2>7. ASSUME NEW i \in 1..(k + 1)
        PROVE  g[i] = IF i \in A \/ <<g[i - 1], i>> \in W THEN i ELSE g[i - 1]
    <3>1. CASE i = 1 /\ i \in 1..k
      <4>1. g[1] = f[1] /\ f[1] = 1
        BY <2>1, <2>4, <3>1 DEF StartsAt
      <4> HIDE DEF g
      <4>. QED  BY <3>1, <4>1
    <3>2. CASE i # 1 /\ i \in 1..k
      <4>1. i - 1 \in 1..k
        BY <2>2, <3>2
      <4>2. g[i] = f[i] /\ g[i - 1] = f[i - 1]
        BY <2>4, <3>2, <4>1
      <4> HIDE DEF g
      <4>. QED  BY <2>1, <3>2, <4>2 DEF StartsAt
    <3>3. CASE i = k + 1 /\ k = 0
      <4>1. g[i] = last /\ last = 1
        BY <2>5, <3>3
      <4> HIDE DEF g, last
      <4>. QED  BY <3>3, <4>1
    <3>4. CASE i = k + 1 /\ k # 0
      <4>1. i - 1 = k /\ k \in 1..k
        BY <2>2, <3>4
      <4>2. g[i] = last /\ g[i - 1] = f[k]
        BY <2>4, <2>5, <3>4, <4>1
      <4> HIDE DEF g
      <4>. QED  BY <3>4, <4>2
    <3>. QED  BY <2>2, <3>1, <3>2, <3>3, <3>4
  <2>8. StartsAt(g, k + 1, A, W)
    <3> HIDE DEF g
    <3>. QED  BY <2>7 DEF StartsAt
  <2> HIDE DEF g
  <2>9. \E h \in [1..(k + 1) -> 1..(k + 1)] : StartsAt(h, k + 1, A, W)
    BY <2>6, <2>8
  <2>10. k + 1 \in Nat
    BY <2>2
  <2> HIDE DEF StartsAt
  <2>. QED  BY <2>9, <2>10
<1>3. G = Nat
  <2> HIDE DEF G
  <2>1. G \in SUBSET Nat
    BY DEF G
  <2>. QED  BY <1>1, <1>2, <2>1, SetInduction
<1>. QED  BY <1>3

\* a starts a group and nothing after it, up to b, starts another.
OneGroup(f, n, a, b) ==
  /\ a \in 1..n /\ b \in a..n
  /\ f[a] = a /\ \A i \in (a + 1)..b : f[i] # i

\* From one start to the next all positions start there.
LEMMA StartsProperties ==
  ASSUME NEW n \in Nat, NEW A, NEW W, NEW f, StartsAt(f, n, A, W),
         NEW a, NEW b, OneGroup(f, n, a, b)
  PROVE  \A i \in a..b : f[i] = a
<1> DEFINE T == {i \in a..b : f[i] # a}
<1>0. a \in Nat /\ b \in Nat /\ a \in 1..n /\ b \in a..n /\ f[a] = a
  BY DEF OneGroup
<1>1. SUFFICES ASSUME T # {} PROVE FALSE
  OBVIOUS
<1>2. T \in SUBSET Nat
  BY <1>0
<1>3. PICK i \in T : \A j \in T : i <= j
  BY <1>1, <1>2, LeastOfSet
<1>4. i \in a..b /\ i # a /\ f[i] # a /\ i \in Nat
  BY <1>0
<1>5. i \in (a + 1)..b /\ i - 1 \in a..b /\ i \in 1..n /\ ~(i <= i - 1) /\ i \in Nat
  BY <1>0, <1>4
<1>6. f[i - 1] = a
  BY <1>3, <1>5
<1>7. f[i] # i
  BY <1>5 DEF OneGroup
<1>8. f[i] = f[i - 1]
  BY <1>5, <1>7 DEF StartsAt
<1>. QED  BY <1>4, <1>6, <1>8


-----------------------------------------------------------------------------
(* Finite sets.                                                            *)

\* The numbers of a finite set have a bound: the last of them in their order.
LEMMA BoundOfSet ==
  ASSUME NEW T \in SUBSET Nat, IsFiniteSet(T)
  PROVE  \E N \in Nat : \A i \in T : i <= N
<1> DEFINE R == {p \in Nat \X Nat : p[1] < p[2]}
           s == InOrder(T, R)
<1>1. \A a, b \in Nat : <<a, b>> \in R <=> a < b
  OBVIOUS
<1> HIDE DEF R
<1>2. Orders(R, T)
  <2>1. \A x \in T : <<x, x>> \notin R
    BY <1>1
  <2>2. \A x, y, z \in T : <<x, y>> \in R /\ <<y, z>> \in R => <<x, z>> \in R
    BY <1>1
  <2>3. \A x, y \in T : x = y \/ <<x, y>> \in R \/ <<y, x>> \in R
    <3>. TAKE x, y \in T
    <3>1. x \in Nat /\ y \in Nat
      OBVIOUS
    <3>2. x = y \/ x < y \/ y < x
      BY <3>1
    <3>. QED  BY <1>1, <3>1, <3>2
  <2>. QED  BY <2>1, <2>2, <2>3 DEF Orders
<1>3. Lists(s, T, R)
  BY <1>2, InOrderProperties
<1> HIDE DEF s
<1>4. Len(s) \in Nat /\ \A i \in 1..Len(s) : s[i] \in T /\ s[i] \in Nat
  <2>1. s \in Seq(T) /\ Len(s) \in Nat
    BY <1>3 DEF Lists
  <2>2. \A i \in 1..Len(s) : s[i] \in T
    BY <2>1
  <2>. QED  BY <2>1, <2>2
<1>5. CASE Len(s) = 0
  <2>1. T = {}
    BY <1>3, <1>5 DEF Lists
  <2>. QED  BY <2>1
<1>6. CASE Len(s) # 0
  <2>1. Len(s) \in 1..Len(s)
    BY <1>4, <1>6
  <2>2. ASSUME NEW x \in T
        PROVE  x <= s[Len(s)]
    <3>1. PICK i \in 1..Len(s) : x = s[i]
      BY <1>3 DEF Lists
    <3>2. CASE i = Len(s)
      BY <1>4, <2>1, <3>1, <3>2
    <3>3. CASE i < Len(s)
      <4>1. <<s[i], s[Len(s)]>> \in R
        BY <1>3, <2>1, <3>3 DEF Lists
      <4>. QED  BY <1>1, <1>4, <2>1, <3>1, <4>1
    <3>. QED  BY <1>4, <3>2, <3>3
  <2>. QED  BY <1>4, <2>1, <2>2
<1>. QED  BY <1>5, <1>6

\* Pairs whose second parts are pairs, and that are told apart by the first parts
\* of those, are as many as these.
LEMMA PairsCounted ==
  ASSUME NEW P, NEW R, IsFiniteSet(R), \A p \in P : p[2][1] \in R,
         \A p, q \in P : p[2][1] = q[2][1] => p = q, \A m \in R : \E p \in P : p[2][1] = m
  PROVE  Cardinality(P) = Cardinality(R)
<1> DEFINE f == [p \in P |-> p[2][1]]
<1>1. f \in Injection(P, R)
  BY DEF Injection, IsInjective
<1>2. f \in Surjection(P, R)
  BY DEF Surjection
<1> HIDE DEF f
<1>. QED  BY <1>1, <1>2, FS_Injection

\* There are at least as many pairs as there are members that one of them has.
LEMMA PairsCover ==
  ASSUME NEW P, NEW R, IsFiniteSet(P), \A m \in R : \E p \in P : p[2][1] = m
  PROVE  Cardinality(R) <= Cardinality(P)
<1> DEFINE Q == {p[2][1] : p \in P}
           f == [p \in P |-> p[2][1]]
<1>1. f \in Surjection(P, Q)
  BY DEF Surjection
<1>2. R \in SUBSET Q
  OBVIOUS
<1> HIDE DEF f, Q
<1>3. IsFiniteSet(Q) /\ Cardinality(Q) <= Cardinality(P)
  BY <1>1, FS_Surjection
<1>4. Cardinality(R) <= Cardinality(Q) /\ IsFiniteSet(R)
  BY <1>2, <1>3, FS_Subset
<1>5. Cardinality(P) \in Nat /\ Cardinality(Q) \in Nat /\ Cardinality(R) \in Nat
  BY <1>3, <1>4, FS_CardinalityType
<1>. QED  BY <1>3, <1>4, <1>5
=============================================================================
