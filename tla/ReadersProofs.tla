---------------------------- MODULE ReadersProofs ----------------------------
(***************************************************************************)
(* Proofs about the readers of the archive: Rag, for every archive, budget, *)
(* batch size and number of calls, and Dataset, for every archive.          *)
(*                                                                          *)
(* Chunks are known by the positions where they start.  As long as no cut   *)
(* moved, a document is the beginning of a chunk of the archive: two that   *)
(* share a message have one key and are the same document (IngestInv), and  *)
(* a run has read every message of the documents that it replaces.  The     *)
(* searches count in documents that part the messages among them, and what  *)
(* is proved of the dataset is proved of every set of messages.             *)
(***************************************************************************)
EXTENDS Readers, SequenceLemmas

-----------------------------------------------------------------------------
(* Chunks.                                                                 *)

\* Messages are ordered, and no two are at one place.
LEMMA EarlierOrders ==
  ASSUME NEW S \in SUBSET Messages
  PROVE  IsFiniteSet(S) /\ Orders(Earlier, S)
<1>1. IsFiniteSet(S)
  BY RecordAssumption, FS_Subset
<1>2. \A m \in Messages : Chan[m] \in Nat /\ Time[m] \in Nat
  BY RecordAssumption
<1>3. \A m, n \in Messages : <<m, n>> \in Earlier <=>
         Chan[m] < Chan[n] \/ (Chan[m] = Chan[n] /\ Time[m] < Time[n])
  BY DEF Earlier
<1>4. \A m, n \in Messages : m # n /\ Chan[m] = Chan[n] => Time[m] # Time[n]
  BY RecordAssumption
<1>5. \A x \in Messages : <<x, x>> \notin Earlier
  BY <1>2, <1>3
<1>6. \A x, y, z \in Messages : <<x, y>> \in Earlier /\ <<y, z>> \in Earlier => <<x, z>> \in Earlier
  BY <1>2, <1>3
<1>7. \A x, y \in Messages : x = y \/ <<x, y>> \in Earlier \/ <<y, x>> \in Earlier
  <2>. TAKE x, y \in Messages
  <2>1. \A a, b \in Nat : a = b \/ a < b \/ b < a
    OBVIOUS
  <2>2. Chan[x] \in Nat /\ Chan[y] \in Nat /\ Time[x] \in Nat /\ Time[y] \in Nat
    BY <1>2
  <2>3. Chan[x] = Chan[y] \/ Chan[x] < Chan[y] \/ Chan[y] < Chan[x]
    BY <2>1, <2>2
  <2>4. Time[x] = Time[y] \/ Time[x] < Time[y] \/ Time[y] < Time[x]
    BY <2>1, <2>2
  <2>5. x # y /\ Chan[x] = Chan[y] => Time[x] # Time[y]
    BY <1>4
  <2>. QED  BY <1>3, <2>3, <2>4, <2>5
<1>8. Orders(Earlier, Messages)
  BY <1>5, <1>6, <1>7 DEF Orders
<1>9. Orders(Earlier, S)
  BY <1>8 DEF Orders
<1>. QED  BY <1>1, <1>9

Opening(s) == {i \in 1..Len(s) : Opens(s, i)} \cup {1}

TooLong(s, a, i) ==
  /\ Tokens(Conversation(s, i)) > MaxTokens
  /\ Tokens(SubSeq(s, a, i)) > MaxTokens

Overflow(s) == {p \in (1..Len(s)) \X (1..Len(s)) : TooLong(s, p[1], p[2])}

\* ChunkStart is what its recursion says.
LEMMA ChunkStartProperties ==
  ASSUME NEW S, NEW s \in Seq(S)
  PROVE  /\ ChunkStart(s) \in [1..Len(s) -> 1..Len(s)]
         /\ StartsAt(ChunkStart(s), Len(s), Opening(s), Overflow(s))
<1> DEFINE n == Len(s)
           step(f, i) == IF Opens(s, i) \/ TooLong(s, f[i - 1], i) THEN i ELSE f[i - 1]
           Def(f) == f = [i \in 1..n |-> step(f, i)]
<1>1. n \in Nat /\ 1 \in Opening(s) /\ Opens(s, 1)
  BY DEF Opening, Opens
<1>2. ChunkStart(s) = CHOOSE f : Def(f)
  BY DEF ChunkStart, TooLong
<1>3. ASSUME NEW g \in [1..n -> 1..n], StartsAt(g, n, Opening(s), Overflow(s))
      PROVE  Def(g)
  <2>1. ASSUME NEW i \in 1..n
        PROVE  g[i] = step(g, i)
    <3>1. Opens(s, i) <=> i \in Opening(s)
      BY <1>1 DEF Opening
    <3>2. ~Opens(s, i) => (TooLong(s, g[i - 1], i) <=> <<g[i - 1], i>> \in Overflow(s))
      <4>1. ~Opens(s, i) => i - 1 \in 1..n
        BY <1>1 DEF Opens
      <4>2. ~Opens(s, i) => g[i - 1] \in 1..n
        BY <4>1
      <4>. QED  BY <4>2 DEF Overflow
    <3>3. g[i] = IF i \in Opening(s) \/ <<g[i - 1], i>> \in Overflow(s) THEN i ELSE g[i - 1]
      BY <1>3 DEF StartsAt
    <3>. QED  BY <3>1, <3>2, <3>3
  <2> HIDE DEF step
  <2>. QED  BY <2>1
<1>4. PICK g \in [1..n -> 1..n] : StartsAt(g, n, Opening(s), Overflow(s))
  BY <1>1, StartsExist
<1>5. Def(g)
  BY <1>3, <1>4
<1> DEFINE start == ChunkStart(s)
<1>6. Def(start)
  <2> HIDE DEF Def
  <2>. QED  BY <1>2, <1>5
<1> HIDE DEF start
<1>7. \A i \in 1..n : start[i] = step(start, i)
  <2> HIDE DEF step
  <2>. QED  BY <1>6
<1>8. \A i \in 1..n : start[i] \in 1..n /\ start[i] <= i
  <2> DEFINE T == {i \in 1..n : ~(start[i] \in 1..n /\ start[i] <= i)}
  <2>1. SUFFICES ASSUME T # {} PROVE FALSE
    OBVIOUS
  <2>2. T \in SUBSET Nat
    BY <1>1
  <2>3. PICK i \in T : \A j \in T : i <= j
    BY <2>1, <2>2, LeastOfSet
  <2>4. i \in 1..n /\ i \in Nat
    BY <1>1
  <2>5. start[i] # i
    BY <1>1, <2>4
  <2>6. ~Opens(s, i) /\ start[i] = start[i - 1]
    BY <1>7, <2>4, <2>5
  <2>7. i - 1 \in 1..n /\ ~(i <= i - 1)
    BY <1>1, <2>4, <2>6
  <2>8. start[i - 1] \in 1..n /\ start[i - 1] <= i - 1
    BY <2>3, <2>7
  <2>. QED  BY <1>1, <2>4, <2>6, <2>8
<1>9. start \in [1..n -> 1..n]
  <2>1. start = [i \in 1..n |-> start[i]]
    <3> HIDE DEF step
    <3>. QED  BY <1>6
  <2>. QED  BY <1>8, <2>1
<1>10. ASSUME NEW i \in 1..n
       PROVE  start[i] = IF i \in Opening(s) \/ <<start[i - 1], i>> \in Overflow(s)
                         THEN i ELSE start[i - 1]
  <2>1. Opens(s, i) <=> i \in Opening(s)
    BY <1>1 DEF Opening
  <2>2. ~Opens(s, i) => (TooLong(s, start[i - 1], i) <=> <<start[i - 1], i>> \in Overflow(s))
    <3>1. ~Opens(s, i) => i - 1 \in 1..n
      BY <1>1 DEF Opens
    <3>2. ~Opens(s, i) => start[i - 1] \in 1..n
      BY <1>8, <3>1
    <3>. QED  BY <3>2 DEF Overflow
  <2>. QED  BY <1>7, <2>1, <2>2
<1>11. StartsAt(start, n, Opening(s), Overflow(s))
  BY <1>10 DEF StartsAt
<1>. QED  BY <1>9, <1>11 DEF start

\* The positions at which a chunk starts.
Marked(s) == {i \in 1..Len(s) : ChunkStart(s)[i] = i}

\* The chunks of T are groups of its messages in order.
LEMMA ChunkShape ==
  ASSUME NEW T \in SUBSET Messages, NEW s, s = Sorted(T)
  PROVE  /\ Lists(s, T, Earlier) /\ s \in Seq(T) /\ s \in Seq(Messages)
         /\ Marked(s) \in SUBSET (1..Len(s))
         /\ Grouped(Chunks(T), s, Marked(s), T)
         /\ \A i \in 1..Len(s) : Opens(s, i) => i \in Marked(s)
<1>1. Lists(s, T, Earlier)
  BY EarlierOrders, InOrderProperties DEF Sorted
<1>2. s \in Seq(T) /\ s \in Seq(Messages) /\ Len(s) \in Nat
  <2>1. s \in Seq(T)
    BY <1>1 DEF Lists
  <2>2. \A i \in 1..Len(s) : s[i] \in Messages
    BY <2>1
  <2>. QED  BY <2>1, <2>2
<1>3. Marked(s) \in SUBSET (1..Len(s))
  BY DEF Marked
<1>4. \A i \in 1..Len(s) : Opens(s, i) => i \in Marked(s)
  <2>. TAKE i \in 1..Len(s)
  <2>. HAVE Opens(s, i)
  <2>1. i \in Opening(s)
    BY DEF Opening
  <2>2. ChunkStart(s)[i] = i
    BY <1>2, <2>1, ChunkStartProperties DEF StartsAt
  <2>. QED  BY <2>2 DEF Marked
<1>5. Len(s) > 0 => 1 \in Marked(s)
  BY <1>2, <1>4 DEF Opens
<1>6. Chunks(T) = Groups(s, Marked(s))
  BY DEF Chunks, Marked
<1>. QED  BY <1>1, <1>2, <1>3, <1>4, <1>5, <1>6, GroupsProperties

\* The chunks cs of T: none is empty, they have its messages in their order, each
\* once, and none has messages of two channels.
Chunking(cs, T) ==
  /\ cs \in Seq(Seq(Messages)) /\ Len(cs) \in Nat
  /\ \A i \in 1..Len(cs) : cs[i] # <<>> /\ Len(cs[i]) \in Nat \ {0} /\ ToSet(cs[i]) \subseteq T
  /\ \A m \in T : \E i \in 1..Len(cs) : m \in ToSet(cs[i])
  /\ \A i, j \in 1..Len(cs) : \A p \in 1..Len(cs[i]), q \in 1..Len(cs[j]) :
       i < j \/ (i = j /\ p < q) => <<cs[i][p], cs[j][q]>> \in Earlier
  /\ \A i \in 1..Len(cs) : \A p \in 1..Len(cs[i]) : Chan[cs[i][p]] = Chan[cs[i][1]]

LEMMA ChunksProperties ==
  ASSUME NEW T \in SUBSET Messages
  PROVE  Chunking(Chunks(T), T)
<1> DEFINE s == Sorted(T)
           K == Marked(s)
           cs == Chunks(T)
           a(i) == Nth(K, i)
           b(i) == EndOf(s, K, i)
<1>1. /\ Lists(s, T, Earlier) /\ s \in Seq(T) /\ s \in Seq(Messages)
      /\ K \in SUBSET (1..Len(s)) /\ Grouped(cs, s, K, T)
      /\ \A i \in 1..Len(s) : Opens(s, i) => i \in K
  BY ChunkShape
<1>2. Len(s) \in Nat /\ \A i, j \in 1..Len(s) : i < j => <<s[i], s[j]>> \in Earlier
  BY <1>1 DEF Lists
<1>3. cs \in Seq(Seq(T)) /\ Len(cs) \in Nat
  BY <1>1 DEF Grouped
<1>4. ASSUME NEW i \in 1..Len(cs)
      PROVE  /\ a(i) \in 1..Len(s) /\ b(i) \in a(i)..Len(s) /\ Len(cs[i]) = b(i) - a(i) + 1
             /\ \A p \in 1..Len(cs[i]) : cs[i][p] = s[a(i) + p - 1]
             /\ ToSet(cs[i]) = {s[k] : k \in a(i)..b(i)}
             /\ \A k \in (a(i) + 1)..b(i) : k \notin K
  BY <1>1 DEF Grouped, GroupOf
<1>5. \A i, j \in 1..Len(cs) : i < j => b(i) < a(j)
  BY <1>1 DEF Grouped
<1>6. \A k \in 1..Len(s) : \E i \in 1..Len(cs) : k \in a(i)..b(i)
  BY <1>1 DEF Grouped
<1>7. \A i \in 1..Len(s) : s[i] \in T
  BY <1>1
<1> HIDE DEF s, K, cs, a, b
<1>8. ASSUME NEW i \in 1..Len(cs)
      PROVE  /\ a(i) \in Nat /\ b(i) \in Nat /\ Len(cs[i]) \in Nat \ {0} /\ cs[i] # <<>>
             /\ ToSet(cs[i]) \subseteq T
             /\ \A p \in 1..Len(cs[i]) : a(i) + p - 1 \in a(i)..b(i) /\ a(i) + p - 1 \in 1..Len(s)
  <2>1. a(i) \in Nat /\ b(i) \in Nat /\ a(i) <= b(i) /\ b(i) <= Len(s) /\ a(i) >= 1
    BY <1>2, <1>4
  <2>2. Len(cs[i]) = b(i) - a(i) + 1
    BY <1>4
  <2>3. Len(cs[i]) \in Nat \ {0}
    BY <2>1, <2>2
  <2>4. cs[i] # <<>>
    BY <2>3
  <2>5. ToSet(cs[i]) \subseteq T
    <3>1. \A k \in a(i)..b(i) : k \in 1..Len(s)
      BY <1>2, <2>1
    <3>2. ToSet(cs[i]) = {s[k] : k \in a(i)..b(i)}
      BY <1>4
    <3>3. \A k \in a(i)..b(i) : s[k] \in T
      BY <1>7, <3>1
    <3>. QED  BY <3>2, <3>3
  <2>6. \A p \in 1..Len(cs[i]) : a(i) + p - 1 \in a(i)..b(i) /\ a(i) + p - 1 \in 1..Len(s)
    BY <1>2, <2>1, <2>2
  <2>. QED  BY <2>1, <2>3, <2>4, <2>5, <2>6
<1>9. ASSUME NEW m \in T
      PROVE  \E i \in 1..Len(cs) : m \in ToSet(cs[i])
  <2>1. PICK k \in 1..Len(s) : m = s[k]
    BY <1>1 DEF Lists
  <2>2. PICK i \in 1..Len(cs) : k \in a(i)..b(i)
    BY <1>6
  <2>. QED  BY <1>4, <2>1, <2>2
<1>10. ASSUME NEW i \in 1..Len(cs), NEW j \in 1..Len(cs),
              NEW p \in 1..Len(cs[i]), NEW q \in 1..Len(cs[j]), i < j \/ (i = j /\ p < q)
       PROVE  <<cs[i][p], cs[j][q]>> \in Earlier
  <2> DEFINE k == a(i) + p - 1
             l == a(j) + q - 1
  <2>1. /\ k \in a(i)..b(i) /\ k \in 1..Len(s) /\ cs[i][p] = s[k]
        /\ l \in a(j)..b(j) /\ l \in 1..Len(s) /\ cs[j][q] = s[l]
    BY <1>4, <1>8
  <2>2. p \in Nat /\ q \in Nat /\ a(i) \in Nat /\ a(j) \in Nat /\ b(i) \in Nat
    <3>1. Len(cs[i]) \in Nat /\ Len(cs[j]) \in Nat
      BY <1>8
    <3>. QED  BY <1>8, <3>1
  <2>3. CASE i < j
    <3>1. k <= b(i) /\ b(i) < a(j) /\ a(j) <= l
      BY <1>5, <2>1, <2>2, <2>3
    <3>2. k < l
      BY <2>2, <3>1
    <3>. QED  BY <1>2, <2>1, <3>2
  <2>4. CASE i = j /\ p < q
    <3>1. k < l
      BY <2>2, <2>4
    <3>. QED  BY <1>2, <2>1, <3>1
  <2>. QED  BY <1>10, <2>3, <2>4
<1>11. ASSUME NEW i \in 1..Len(cs), NEW p \in 1..Len(cs[i])
       PROVE  Chan[cs[i][p]] = Chan[cs[i][1]]
  <2> DEFINE U == {k \in a(i)..b(i) : Chan[s[k]] # Chan[s[a(i)]]}
  <2>0. a(i) \in Nat /\ b(i) \in Nat /\ b(i) <= Len(s) /\ a(i) >= 1 /\ Len(cs[i]) \in Nat \ {0}
    BY <1>2, <1>4, <1>8
  <2>1. U = {}
    <3>1. SUFFICES ASSUME U # {} PROVE FALSE
      OBVIOUS
    <3>2. U \in SUBSET Nat
      BY <2>0
    <3>3. PICK k \in U : \A l \in U : k <= l
      BY <3>1, <3>2, LeastOfSet
    <3>4. k \in a(i)..b(i) /\ k # a(i) /\ Chan[s[k]] # Chan[s[a(i)]] /\ k \in Nat
      BY <2>0
    <3>5. /\ k \in (a(i) + 1)..b(i) /\ k - 1 \in a(i)..b(i) /\ ~(k <= k - 1)
          /\ k \in 1..Len(s) /\ k # 1
      BY <1>2, <2>0, <3>4
    <3>6. Chan[s[k - 1]] = Chan[s[a(i)]]
      BY <3>3, <3>5
    <3>7. ~Opens(s, k)
      BY <1>1, <1>4, <3>5
    <3>. QED  BY <3>4, <3>5, <3>6, <3>7 DEF Opens
  <2>2. \A r \in 1..Len(cs[i]) : Chan[cs[i][r]] = Chan[s[a(i)]]
    <3>. TAKE r \in 1..Len(cs[i])
    <3>1. cs[i][r] = s[a(i) + r - 1] /\ a(i) + r - 1 \in a(i)..b(i)
      BY <1>4, <1>8
    <3>. QED  BY <2>1, <3>1
  <2>3. 1 \in 1..Len(cs[i])
    BY <2>0
  <2>. QED  BY <2>2, <2>3
<1>12. cs \in Seq(Seq(Messages))
  <2>1. \A i \in 1..Len(cs) : cs[i] \in Seq(Messages)
    <3>. TAKE i \in 1..Len(cs)
    <3>1. cs[i] \in Seq(T)
      BY <1>3
    <3>2. \A p \in 1..Len(cs[i]) : cs[i][p] \in Messages
      BY <3>1
    <3>. QED  BY <3>1, <3>2
  <2>. QED  BY <1>3, <2>1
<1>13. Chunking(cs, T)
  <2>1. \A i \in 1..Len(cs) : cs[i] # <<>> /\ Len(cs[i]) \in Nat \ {0} /\ ToSet(cs[i]) \subseteq T
    BY <1>8
  <2>. QED  BY <1>3, <1>9, <1>10, <1>11, <1>12, <2>1 DEF Chunking
<1>. QED  BY <1>13 DEF cs

-----------------------------------------------------------------------------
(* The inductive invariant of the ingest.                                  *)

\* What a run has read is in the archive and not too old; what it has still to
\* upsert are chunks of what it has read.
LoadedInv ==
  \A c \in Calls :
    /\ loaded[c] \subseteq Indexable
    /\ \A m \in loaded[c] : Time[m] >= since[c]
    /\ at[c] = "upserting" => /\ unread[c] = {}
                              /\ ToSet(todo[c]) \subseteq ToSet(Chunks(loaded[c]))

\* A document has the key of its first message and nothing that is not archived.
DocumentInv ==
  \A k \in DOMAIN index : Head(index[k]) = k /\ ToSet(index[k]) \subseteq Indexable

Fits(d, S) == \E e \in ToSet(Chunks(S)) : IsPrefix(d, e)

\* While no cut has moved: documents are beginnings of chunks; a run has read
\* every message of the index that it could have read, cuts like the archive, and
\* its chunks are in the index or still to do; and what was read stays indexed.
UnshiftedInv ==
  /\ \A k \in DOMAIN index : Fits(index[k], Indexable)
  /\ \A c \in Calls : at[c] # "idle" =>
       \A m \in Indexed : Time[m] >= since[c] /\ Author[m] \notin unread[c] => m \in loaded[c]
  /\ \A c \in Calls : at[c] = "upserting" =>
       \A d \in ToSet(Chunks(loaded[c])) :
         Fits(d, Indexable) /\ (d \in ToSet(todo[c]) \/ ToSet(d) \subseteq Indexed)
  /\ done \subseteq Indexed

IngestInv == TypeOK /\ LoadedInv /\ DocumentInv /\ (~shifted => UnshiftedInv)

-----------------------------------------------------------------------------
(* Documents and chunks.                                                   *)

LEMMA PrefixMeans ==
  ASSUME NEW S, NEW c \in Seq(S), NEW d \in Seq(S)
  PROVE  IsPrefix(c, d) <=> /\ Len(c) <= Len(d)
                            /\ \A i \in 1..Len(c) : c[i] = d[i]
<1>1. Len(c) \in Nat /\ Len(d) \in Nat
  OBVIOUS
<1>2. ASSUME Len(c) <= Len(d)
      PROVE  SubSeq(c, 1, Len(c)) = SubSeq(d, 1, Len(c)) <=> \A i \in 1..Len(c) : c[i] = d[i]
  <2> DEFINE a == SubSeq(c, 1, Len(c))
             b == SubSeq(d, 1, Len(c))
  <2>1. Len(c) \in 0..Len(c) /\ Len(c) \in 0..Len(d) /\ 1 \in Nat \ {0}
    BY <1>1, <1>2
  <2>2. IsPart(a, S, c, 1, Len(c)) /\ IsPart(b, S, d, 1, Len(c))
    BY <2>1, PartProperties
  <2>3. /\ a \in Seq(S) /\ Len(a) = Len(c) /\ \A i \in 1..Len(c) : a[i] = c[1 + i - 1]
        /\ b \in Seq(S) /\ Len(b) = Len(c) /\ \A i \in 1..Len(c) : b[i] = d[1 + i - 1]
    <3> HIDE DEF a, b
    <3>. QED  BY <1>1, <2>2 DEF IsPart
  <2>4. \A i \in 1..Len(c) : a[i] = c[i] /\ b[i] = d[i]
    <3>1. \A i \in 1..Len(c) : 1 + i - 1 = i
      BY <1>1
    <3>. QED  BY <2>3, <3>1
  <2> HIDE DEF a, b
  <2>5. a = b <=> \A i \in 1..Len(c) : a[i] = b[i]
    BY <2>3
  <2>. QED  BY <2>4, <2>5 DEF a, b
<1>. QED  BY <1>2 DEF IsPrefix

Document(d) == d \in Seq(Messages) /\ d # <<>>

\* d has messages of one channel only, in the order of their times.
InTime(d) ==
  /\ \A i \in 1..Len(d) : Chan[d[i]] = Chan[d[1]]
  /\ \A i, j \in 1..Len(d) : i < j => Time[d[i]] < Time[d[j]]

\* The documents in C have the messages of T, each once, and those of one channel
\* are intervals of it.
Apart(C, T) ==
  /\ \A c \in C : Document(c) /\ ToSet(c) \subseteq T /\ InTime(c)
  /\ \A m \in T : \E c \in C : m \in ToSet(c)
  /\ \A c, d \in C : ToSet(c) \cap ToSet(d) # {} => c = d
  /\ \A c, d \in C : \A m \in ToSet(c), n \in ToSet(d) :
       /\ Chan[Head(c)] = Chan[Head(d)] /\ Time[Head(c)] < Time[Head(d)] /\ c # d
       => Time[m] < Time[n]

LEMMA ChunksApart ==
  ASSUME NEW T \in SUBSET Messages
  PROVE  Apart(ToSet(Chunks(T)), T)
<1> DEFINE cs == Chunks(T)
<1>1. Chunking(cs, T)
  BY ChunksProperties
<1> HIDE DEF cs
<1>2. cs \in Seq(Seq(Messages)) /\ Len(cs) \in Nat /\ DOMAIN cs = 1..Len(cs)
  BY <1>1 DEF Chunking
<1>3. \A c \in ToSet(cs) : \E i \in 1..Len(cs) : c = cs[i]
  BY <1>2 DEF ToSet
<1>4. \A i \in 1..Len(cs) : cs[i] \in ToSet(cs)
  BY <1>2 DEF ToSet
<1>5. ASSUME NEW i \in 1..Len(cs)
      PROVE  /\ Document(cs[i]) /\ ToSet(cs[i]) \subseteq T /\ Len(cs[i]) \in Nat \ {0}
             /\ \A m \in ToSet(cs[i]) : \E p \in 1..Len(cs[i]) : m = cs[i][p]
             /\ \A p \in 1..Len(cs[i]) : cs[i][p] \in Messages /\ Chan[cs[i][p]] = Chan[cs[i][1]]
             /\ Head(cs[i]) = cs[i][1] /\ 1 \in 1..Len(cs[i])
  <2>1. cs[i] \in Seq(Messages)
    BY <1>2
  <2>2. cs[i] # <<>> /\ Len(cs[i]) \in Nat \ {0} /\ ToSet(cs[i]) \subseteq T
    BY <1>1 DEF Chunking
  <2>3. \A m \in ToSet(cs[i]) : \E p \in 1..Len(cs[i]) : m = cs[i][p]
    BY <2>1 DEF ToSet
  <2>4. \A p \in 1..Len(cs[i]) : cs[i][p] \in Messages
    BY <2>1
  <2>5. \A p \in 1..Len(cs[i]) : Chan[cs[i][p]] = Chan[cs[i][1]]
    BY <1>1 DEF Chunking
  <2>6. Head(cs[i]) = cs[i][1] /\ 1 \in 1..Len(cs[i])
    BY <2>1, <2>2
  <2>. QED  BY <2>1, <2>2, <2>3, <2>4, <2>5, <2>6 DEF Document
<1>6. \A i, j \in 1..Len(cs) : \A p \in 1..Len(cs[i]), q \in 1..Len(cs[j]) :
        i < j \/ (i = j /\ p < q) => <<cs[i][p], cs[j][q]>> \in Earlier
  BY <1>1 DEF Chunking
<1>7. \A m, n \in Messages : <<m, n>> \in Earlier <=>
         Chan[m] < Chan[n] \/ (Chan[m] = Chan[n] /\ Time[m] < Time[n])
  BY DEF Earlier
<1>8. \A m \in Messages : Chan[m] \in Nat /\ Time[m] \in Nat
  BY RecordAssumption
<1>9. ASSUME NEW i \in 1..Len(cs)
      PROVE  InTime(cs[i])
  <2>1. ASSUME NEW p \in 1..Len(cs[i]), NEW q \in 1..Len(cs[i]), p < q
        PROVE  Time[cs[i][p]] < Time[cs[i][q]]
    <3>1. <<cs[i][p], cs[i][q]>> \in Earlier
      BY <1>6, <2>1
    <3>2. cs[i][p] \in Messages /\ cs[i][q] \in Messages /\ Chan[cs[i][p]] = Chan[cs[i][q]]
      BY <1>5
    <3>. QED  BY <1>7, <1>8, <3>1, <3>2
  <2>. QED  BY <1>5, <2>1 DEF InTime
<1>10. ASSUME NEW i \in 1..Len(cs), NEW j \in 1..Len(cs), NEW m \in ToSet(cs[i]) \cap ToSet(cs[j])
       PROVE  i = j
  <2>1. PICK p \in 1..Len(cs[i]) : m = cs[i][p]
    BY <1>5
  <2>2. PICK q \in 1..Len(cs[j]) : m = cs[j][q]
    BY <1>5
  <2>3. m \in Messages /\ <<m, m>> \notin Earlier
    <3>1. m \in Messages
      BY <1>5, <2>1
    <3>. QED  BY <1>7, <1>8, <3>1
  <2>4. ~(i < j) /\ ~(j < i)
    BY <1>6, <2>1, <2>2, <2>3
  <2>. QED  BY <1>2, <2>4
<1>11. ASSUME NEW i \in 1..Len(cs), NEW j \in 1..Len(cs), NEW m \in ToSet(cs[i]), NEW n \in ToSet(cs[j]),
              Chan[Head(cs[i])] = Chan[Head(cs[j])], Time[Head(cs[i])] < Time[Head(cs[j])], i # j
       PROVE  Time[m] < Time[n]
  <2>1. PICK p \in 1..Len(cs[i]) : m = cs[i][p]
    BY <1>5
  <2>2. PICK q \in 1..Len(cs[j]) : n = cs[j][q]
    BY <1>5
  <2>3. /\ m \in Messages /\ n \in Messages /\ cs[i][1] \in Messages /\ cs[j][1] \in Messages
        /\ Chan[m] = Chan[cs[i][1]] /\ Chan[n] = Chan[cs[j][1]] /\ Chan[cs[i][1]] = Chan[cs[j][1]]
        /\ Time[cs[i][1]] < Time[cs[j][1]]
    BY <1>5, <1>11, <2>1, <2>2
  <2>4. ~(j < i)
    <3>1. SUFFICES ASSUME j < i PROVE FALSE
      OBVIOUS
    <3>2. 1 \in 1..Len(cs[i]) /\ 1 \in 1..Len(cs[j])
      BY <1>5
    <3>3. <<cs[j][1], cs[i][1]>> \in Earlier
      BY <1>6, <3>1, <3>2
    <3>4. Time[cs[j][1]] < Time[cs[i][1]] \/ Chan[cs[j][1]] < Chan[cs[i][1]]
      BY <1>7, <2>3, <3>3
    <3>5. /\ Time[cs[i][1]] \in Nat /\ Time[cs[j][1]] \in Nat
          /\ Chan[cs[i][1]] \in Nat /\ Chan[cs[j][1]] \in Nat
      BY <1>8, <2>3
    <3>. QED  BY <2>3, <3>4, <3>5
  <2>5. i < j
    BY <1>2, <1>11, <2>4
  <2>6. <<m, n>> \in Earlier
    BY <1>6, <2>1, <2>2, <2>5
  <2>7. Chan[m] < Chan[n] \/ (Chan[m] = Chan[n] /\ Time[m] < Time[n])
    BY <1>7, <2>3, <2>6
  <2>8. Chan[m] = Chan[n] /\ Chan[m] \in Nat /\ Chan[n] \in Nat
    BY <1>8, <2>3
  <2>. QED  BY <2>7, <2>8
<1>12. \A m \in T : \E c \in ToSet(cs) : m \in ToSet(c)
  BY <1>1, <1>4 DEF Chunking
<1>13. \A c, d \in ToSet(cs) : ToSet(c) \cap ToSet(d) # {} => c = d
  BY <1>3, <1>10
<1>14. \A c \in ToSet(cs) : Document(c) /\ ToSet(c) \subseteq T /\ InTime(c)
  BY <1>3, <1>5, <1>9
<1>15. \A c, d \in ToSet(cs) : \A m \in ToSet(c), n \in ToSet(d) :
         /\ Chan[Head(c)] = Chan[Head(d)] /\ Time[Head(c)] < Time[Head(d)] /\ c # d
         => Time[m] < Time[n]
  BY <1>3, <1>11
<1>. QED  BY <1>12, <1>13, <1>14, <1>15 DEF Apart, cs

LEMMA DocumentEnds ==
  ASSUME NEW d, Document(d)
  PROVE  /\ Len(d) \in Nat \ {0} /\ Head(d) = d[1] /\ d[1] \in ToSet(d)
         /\ 1 \in 1..Len(d) /\ ToSet(d) \subseteq Messages
         /\ \A m \in ToSet(d) : \E i \in 1..Len(d) : m = d[i]
         /\ \A i \in 1..Len(d) : d[i] \in ToSet(d)
<1>1. d \in Seq(Messages) /\ Len(d) \in Nat \ {0} /\ Head(d) = d[1] /\ DOMAIN d = 1..Len(d)
  BY DEF Document
<1>2. 1 \in 1..Len(d)
  BY <1>1
<1>3. ToSet(d) = {d[i] : i \in 1..Len(d)}
  BY <1>1 DEF ToSet
<1>. QED  BY <1>1, <1>2, <1>3

\* The beginning of a chunk is like the chunk.
LEMMA FitsProperties ==
  ASSUME NEW S \in SUBSET Messages, NEW d, Document(d), NEW e \in ToSet(Chunks(S)), IsPrefix(d, e)
  PROVE  /\ Document(e) /\ Head(d) = Head(e) /\ ToSet(d) \subseteq ToSet(e) /\ InTime(d)
         /\ ToSet(e) \subseteq S
<1>1. Document(e) /\ ToSet(e) \subseteq S /\ InTime(e)
  BY ChunksApart DEF Apart
<1>2. Len(d) \in Nat /\ Len(e) \in Nat /\ Len(d) <= Len(e) /\ \A i \in 1..Len(d) : d[i] = e[i]
  BY <1>1, PrefixMeans DEF Document
<1>3. \A i \in 1..Len(d) : i \in 1..Len(e)
  BY <1>2
<1>4. Head(d) = Head(e)
  BY <1>1, <1>2, DocumentEnds
<1>5. ToSet(d) \subseteq ToSet(e)
  <2>1. \A m \in ToSet(d) : \E i \in 1..Len(d) : m = d[i]
    BY DocumentEnds
  <2>2. \A i \in 1..Len(e) : e[i] \in ToSet(e)
    BY <1>1, DocumentEnds
  <2>. QED  BY <1>2, <1>3, <2>1, <2>2
<1>6. InTime(d)
  <2>1. 1 \in 1..Len(d)
    BY DocumentEnds
  <2>. QED  BY <1>1, <1>2, <1>3, <2>1 DEF InTime
<1>. QED  BY <1>1, <1>4, <1>5, <1>6

\* Two beginnings of chunks that share a message begin with the same message.
LEMMA CommonChunk ==
  ASSUME NEW S \in SUBSET Messages, NEW c, NEW d, Document(c), Document(d),
         Fits(c, S), Fits(d, S), ToSet(c) \cap ToSet(d) # {}
  PROVE  Head(c) = Head(d)
<1>1. PICK e \in ToSet(Chunks(S)) : IsPrefix(c, e)
  BY DEF Fits
<1>2. PICK f \in ToSet(Chunks(S)) : IsPrefix(d, f)
  BY DEF Fits
<1>3. Head(c) = Head(e) /\ ToSet(c) \subseteq ToSet(e) /\ Head(d) = Head(f) /\ ToSet(d) \subseteq ToSet(f)
  BY <1>1, <1>2, FitsProperties
<1>4. ToSet(e) \cap ToSet(f) # {}
  BY <1>3
<1>5. e = f
  BY <1>4, ChunksApart DEF Apart
<1>. QED  BY <1>3, <1>5

\* What fits keeps fitting when no cut moves.
LEMMA FitsGrows ==
  ASSUME NEW S \in SUBSET Messages, NEW T \in SUBSET Messages, ~Shifts(S, T),
         NEW d, Document(d), Fits(d, S)
  PROVE  Fits(d, T)
<1>1. PICK e \in ToSet(Chunks(S)) : IsPrefix(d, e)
  BY DEF Fits
<1>2. PICK f \in ToSet(Chunks(T)) : IsPrefix(e, f)
  BY DEF Shifts
<1>3. Document(e) /\ Document(f)
  BY ChunksApart DEF Apart
<1>4. Len(d) <= Len(e) /\ \A i \in 1..Len(d) : d[i] = e[i]
  BY <1>1, <1>3, PrefixMeans DEF Document
<1>5. Len(e) <= Len(f) /\ \A i \in 1..Len(e) : e[i] = f[i]
  BY <1>2, <1>3, PrefixMeans DEF Document
<1>6. Len(d) \in Nat /\ Len(e) \in Nat /\ Len(f) \in Nat
  BY <1>3 DEF Document
<1>7. \A i \in 1..Len(d) : i \in 1..Len(e)
  BY <1>4, <1>6
<1>8. Len(d) <= Len(f) /\ \A i \in 1..Len(d) : d[i] = f[i]
  BY <1>4, <1>5, <1>6, <1>7
<1>9. IsPrefix(d, f)
  BY <1>3, <1>8, PrefixMeans DEF Document
<1>. QED  BY <1>9 DEF Fits

LEMMA ChunkFitsItself ==
  ASSUME NEW S \in SUBSET Messages, NEW T \in SUBSET Messages, ~Shifts(S, T),
         NEW e \in ToSet(Chunks(S))
  PROVE  Document(e) /\ Fits(e, T)
BY ChunksApart DEF Apart, Shifts, Fits

-----------------------------------------------------------------------------
(* The invariant holds and is kept.                                        *)

LEMMA InitIngestInv == Init => IngestInv
<1>. SUFFICES ASSUME Init PROVE IngestInv
  OBVIOUS
<1>1. DOMAIN index = {}
  BY DEF Init
<1>2. \A c \in Calls : at[c] = "idle" /\ since[c] = 0 /\ unread[c] = {} /\ loaded[c] = {} /\ todo[c] = <<>>
  BY DEF Init
<1>3. TypeOK
  <2>1. \A c \in Calls : at[c] # "idle" <=> task = {c}
    BY <1>2 DEF Init
  <2>2. since \in [Calls -> Sinces \cup {0}] /\ unread \in [Calls -> SUBSET Authors]
    BY DEF Init
  <2>3. loaded \in [Calls -> SUBSET Messages] /\ at \in [Calls -> {"idle", "loading", "upserting"}]
    BY DEF Init
  <2>4. <<>> \in Seq(Seq(Messages)) /\ todo = [c \in Calls |-> <<>>]
    BY DEF Init
  <2>5. todo \in [Calls -> Seq(Seq(Messages))]
    BY <2>4
  <2>. QED  BY <1>1, <2>1, <2>2, <2>3, <2>5 DEF Init, TypeOK
<1>4. LoadedInv
  BY <1>2 DEF LoadedInv
<1>5. DocumentInv
  BY <1>1 DEF DocumentInv
<1>6. UnshiftedInv
  BY <1>1, <1>2 DEF UnshiftedInv, Init
<1>. QED  BY <1>3, <1>4, <1>5, <1>6 DEF IngestInv

\* Every document of the index is one, every chunk still to upsert too.
LEMMA StateDocuments ==
  ASSUME IngestInv
  PROVE  /\ Indexable \in SUBSET Messages
         /\ \A c \in Calls : loaded[c] \in SUBSET Messages /\ loaded[c] \in SUBSET Indexable
         /\ \A k \in DOMAIN index : Document(index[k]) /\ ToSet(index[k]) \subseteq Indexed
         /\ Indexed \subseteq Indexable
         /\ \A m \in Indexed : \E k \in DOMAIN index : m \in ToSet(index[k])
<1>1. Indexable \in SUBSET Messages
  BY DEF Indexable, IngestInv, TypeOK
<1>2. \A c \in Calls : loaded[c] \in SUBSET Messages /\ loaded[c] \in SUBSET Indexable
  BY DEF IngestInv, TypeOK, LoadedInv
<1>3. \A k \in DOMAIN index : Document(index[k])
  BY DEF IngestInv, TypeOK, Document
<1>4. \A k \in DOMAIN index : ToSet(index[k]) \subseteq Indexed
  BY DEF Indexed
<1>5. Indexed \subseteq Indexable
  BY DEF Indexed, IngestInv, DocumentInv
<1>6. \A m \in Indexed : \E k \in DOMAIN index : m \in ToSet(index[k])
  BY DEF Indexed
<1>. QED  BY <1>1, <1>2, <1>3, <1>4, <1>5, <1>6

\* An arrival that moves no cut keeps what is there in its place.
LEMMA ArrivalKeepsInv ==
  ASSUME IngestInv, Arrives, archive' \subseteq Messages, captioned' \subseteq archive',
         Indexable \subseteq Indexable'
  PROVE  IngestInv'
<1>1. UNCHANGED <<index, task, at, since, unread, loaded, todo, done>> /\
      shifted' = (shifted \/ Shifts(Indexable, Indexable'))
  BY DEF Arrives, run
<1>2. TypeOK'
  <2>1. shifted' \in BOOLEAN
    BY <1>1
  <2>. QED  BY <1>1, <2>1 DEF IngestInv, TypeOK
<1>3. LoadedInv'
  BY <1>1 DEF IngestInv, LoadedInv
<1>4. DocumentInv'
  BY <1>1 DEF IngestInv, DocumentInv
<1>5. ASSUME ~shifted'
      PROVE  UnshiftedInv'
  <2>1. ~shifted /\ ~Shifts(Indexable, Indexable') /\ UnshiftedInv
    BY <1>1, <1>5 DEF IngestInv
  <2>2. Indexable \in SUBSET Messages /\ Indexable' \in SUBSET Messages
    BY StateDocuments DEF Indexable
  <2>3. ASSUME NEW d, Document(d), Fits(d, Indexable)
        PROVE  Fits(d, Indexable')
    BY <2>1, <2>2, <2>3, FitsGrows
  <2>4. Indexed' = Indexed
    BY <1>1 DEF Indexed
  <2>5. ASSUME NEW k \in DOMAIN index
        PROVE  Fits(index[k], Indexable')
    BY <2>1, <2>3, StateDocuments DEF UnshiftedInv
  <2>6. ASSUME NEW c \in Calls, at[c] = "upserting", NEW d \in ToSet(Chunks(loaded[c]))
        PROVE  Fits(d, Indexable') /\ (d \in ToSet(todo[c]) \/ ToSet(d) \subseteq Indexed)
    <3>1. Fits(d, Indexable) /\ (d \in ToSet(todo[c]) \/ ToSet(d) \subseteq Indexed)
      BY <2>1, <2>6 DEF UnshiftedInv
    <3>2. Document(d)
      BY StateDocuments, ChunksApart DEF Apart
    <3>. QED  BY <2>3, <3>1, <3>2
  <2>. QED  BY <1>1, <2>1, <2>4, <2>5, <2>6 DEF UnshiftedInv
<1>. QED  BY <1>2, <1>3, <1>4, <1>5 DEF IngestInv

LEMMA ArchiveKeepsInv ==
  ASSUME IngestInv, NEW m \in Messages, Archive(m) \/ Caption(m)
  PROVE  IngestInv'
<1>1. archive \subseteq Messages /\ captioned \subseteq archive
  BY DEF IngestInv, TypeOK
<1>2. CASE Archive(m)
  <2>1. archive' = archive \cup {m} /\ captioned' = captioned /\ Arrives
    BY <1>2 DEF Archive
  <2>2. Indexable \subseteq Indexable'
    BY <2>1 DEF Indexable
  <2>3. archive' \subseteq Messages /\ captioned' \subseteq archive'
    BY <1>1, <2>1
  <2>. QED  BY <2>1, <2>2, <2>3, ArrivalKeepsInv
<1>3. CASE Caption(m)
  <2>1. archive' = archive /\ captioned' = captioned \cup {m} /\ m \in archive /\ Arrives
    BY <1>3 DEF Caption
  <2>2. Indexable \subseteq Indexable'
    BY <2>1 DEF Indexable
  <2>3. archive' \subseteq Messages /\ captioned' \subseteq archive'
    BY <1>1, <2>1
  <2>. QED  BY <2>1, <2>2, <2>3, ArrivalKeepsInv
<1>. QED  BY <1>2, <1>3

\* A step of the run c that leaves the archive and the index alone.
LEMMA RunKeepsInv ==
  ASSUME IngestInv, NEW c \in Calls, UNCHANGED <<archive, captioned, index>>,
         TypeOK', shifted => shifted',
         \A b \in Calls \ {c} : /\ at'[b] = at[b] /\ since'[b] = since[b] /\ unread'[b] = unread[b]
                                /\ loaded'[b] = loaded[b] /\ todo'[b] = todo[b],
         loaded'[c] \subseteq Indexable, \A m \in loaded'[c] : Time[m] >= since'[c],
         at'[c] = "upserting" => /\ unread'[c] = {}
                                 /\ ToSet(todo'[c]) \subseteq ToSet(Chunks(loaded'[c])),
         ~shifted' /\ at'[c] # "idle" =>
           \A m \in Indexed : Time[m] >= since'[c] /\ Author[m] \notin unread'[c] => m \in loaded'[c],
         ~shifted' /\ at'[c] = "upserting" =>
           \A d \in ToSet(Chunks(loaded'[c])) :
             Fits(d, Indexable) /\ (d \in ToSet(todo'[c]) \/ ToSet(d) \subseteq Indexed),
         ~shifted' => done' \subseteq Indexed
  PROVE  IngestInv'
<1>1. Indexable' = Indexable /\ Indexed' = Indexed
  BY DEF Indexable, Indexed
<1>2. LoadedInv'
  <2>. SUFFICES ASSUME NEW b \in Calls
                PROVE  /\ loaded'[b] \subseteq Indexable'
                       /\ \A m \in loaded'[b] : Time[m] >= since'[b]
                       /\ at'[b] = "upserting" => /\ unread'[b] = {}
                                                  /\ ToSet(todo'[b]) \subseteq ToSet(Chunks(loaded'[b]))
    BY DEF LoadedInv
  <2>1. CASE b = c
    BY <1>1, <2>1
  <2>2. CASE b # c
    BY <1>1, <2>2 DEF IngestInv, LoadedInv
  <2>. QED  BY <2>1, <2>2
<1>3. DocumentInv'
  BY <1>1 DEF IngestInv, DocumentInv
<1>4. ASSUME ~shifted'
      PROVE  UnshiftedInv'
  <2>1. ~shifted /\ UnshiftedInv
    BY <1>4 DEF IngestInv
  <2>2. \A k \in DOMAIN index : Fits(index[k], Indexable)
    BY <2>1 DEF UnshiftedInv
  <2>3. ASSUME NEW b \in Calls, at'[b] # "idle", NEW m \in Indexed,
               Time[m] >= since'[b], Author[m] \notin unread'[b]
        PROVE  m \in loaded'[b]
    <3>1. CASE b = c
      BY <1>4, <2>3, <3>1
    <3>2. CASE b # c
      BY <2>1, <2>3, <3>2 DEF UnshiftedInv
    <3>. QED  BY <3>1, <3>2
  <2>4. ASSUME NEW b \in Calls, at'[b] = "upserting", NEW d \in ToSet(Chunks(loaded'[b]))
        PROVE  Fits(d, Indexable) /\ (d \in ToSet(todo'[b]) \/ ToSet(d) \subseteq Indexed)
    <3>1. CASE b = c
      BY <1>4, <2>4, <3>1
    <3>2. CASE b # c
      BY <2>1, <2>4, <3>2 DEF UnshiftedInv
    <3>. QED  BY <3>1, <3>2
  <2>. QED  BY <1>1, <1>4, <2>2, <2>3, <2>4 DEF UnshiftedInv
<1>. QED  BY <1>2, <1>3, <1>4 DEF IngestInv

\* What TypeOK says of the calls, and that only the call of the task runs.
LEMMA CallTypes ==
  ASSUME IngestInv, NEW c \in Calls
  PROVE  /\ at \in [Calls -> {"idle", "loading", "upserting"}]
         /\ since \in [Calls -> Sinces \cup {0}]
         /\ unread \in [Calls -> SUBSET Authors] /\ loaded \in [Calls -> SUBSET Messages]
         /\ todo \in [Calls -> Seq(Seq(Messages))]
         /\ at[c] # "idle" => task = {c} /\ \A b \in Calls \ {c} : at[b] = "idle"
         /\ task = {} => \A b \in Calls : at[b] = "idle"
BY DEF IngestInv, TypeOK

LEMMA IngestKeepsInv ==
  ASSUME IngestInv, NEW c \in Calls, NEW s \in Sinces, Ingest(c, s)
  PROVE  IngestInv'
<1>1. /\ at[c] = "idle" /\ task = {} /\ task' = {c}
      /\ at' = [at EXCEPT ![c] = "loading"] /\ since' = [since EXCEPT ![c] = s]
      /\ unread' = [unread EXCEPT ![c] = Authors] /\ loaded' = [loaded EXCEPT ![c] = {}]
      /\ UNCHANGED <<archive, captioned, index, todo, done, shifted>>
  BY DEF Ingest
<1>2. /\ at' \in [Calls -> {"idle", "loading", "upserting"}]
      /\ since' \in [Calls -> Sinces \cup {0}]
      /\ unread' \in [Calls -> SUBSET Authors] /\ loaded' \in [Calls -> SUBSET Messages]
  BY <1>1, CallTypes
<1>3. /\ at'[c] = "loading" /\ since'[c] = s /\ unread'[c] = Authors /\ loaded'[c] = {}
      /\ \A b \in Calls \ {c} : /\ at'[b] = at[b] /\ since'[b] = since[b] /\ unread'[b] = unread[b]
                                /\ loaded'[b] = loaded[b] /\ todo'[b] = todo[b]
  BY <1>1, CallTypes
<1>4. TypeOK'
  <2>1. \A b \in Calls : at'[b] # "idle" <=> task' = {b}
    BY <1>1, <1>3, CallTypes
  <2>. QED  BY <1>1, <1>2, <2>1 DEF IngestInv, TypeOK
<1>5. \A m \in Indexed : Author[m] \in unread'[c]
  <2>1. Indexed \subseteq Messages
    BY StateDocuments
  <2>. QED  BY <1>3, <2>1 DEF Authors
<1>6. ~shifted' => done' \subseteq Indexed
  BY <1>1 DEF IngestInv, UnshiftedInv
<1>. QED  BY <1>1, <1>3, <1>4, <1>5, <1>6, RunKeepsInv

\* A file that is read, and one that is skipped.
LEMMA FileKeepsInv ==
  ASSUME IngestInv, NEW c \in Calls, NEW a \in Authors, LoadFile(c, a) \/ SkipFile(c, a)
  PROVE  IngestInv'
<1>1. /\ at[c] = "loading" /\ a \in unread[c]
      /\ unread' = [unread EXCEPT ![c] = @ \ {a}]
      /\ UNCHANGED <<archive, captioned, index, task, at, since, todo, done>>
  BY DEF LoadFile, SkipFile
<1> DEFINE new == {m \in Indexable : Author[m] = a /\ Time[m] >= since[c]}
<1>2. \/ loaded' = [loaded EXCEPT ![c] = @ \cup new] /\ shifted' = shifted
      \/ loaded' = loaded /\ shifted' = TRUE
  BY DEF LoadFile, SkipFile
<1>3. new \subseteq Indexable /\ new \subseteq Messages /\ \A m \in new : Time[m] >= since[c]
  BY StateDocuments
<1>4. unread'[c] = unread[c] \ {a} /\ unread' \in [Calls -> SUBSET Authors]
  BY <1>1, CallTypes
<1>5. /\ loaded' \in [Calls -> SUBSET Messages]
      /\ \/ loaded'[c] = loaded[c] \cup new /\ shifted' = shifted
         \/ loaded'[c] = loaded[c] /\ shifted' = TRUE
  <2> HIDE DEF new
  <2>. QED  BY <1>2, <1>3, CallTypes
<1>6. \A b \in Calls \ {c} : /\ at'[b] = at[b] /\ since'[b] = since[b] /\ unread'[b] = unread[b]
                             /\ loaded'[b] = loaded[b] /\ todo'[b] = todo[b]
  <2> HIDE DEF new
  <2>. QED  BY <1>1, <1>2, CallTypes
<1>7. shifted' \in BOOLEAN /\ (shifted => shifted')
  BY <1>2 DEF IngestInv, TypeOK
<1>8. TypeOK'
  BY <1>1, <1>4, <1>5, <1>7 DEF IngestInv, TypeOK
<1>9. loaded'[c] \subseteq Indexable /\ \A m \in loaded'[c] : Time[m] >= since'[c]
  <2>1. loaded[c] \subseteq Indexable /\ \A m \in loaded[c] : Time[m] >= since[c]
    BY DEF IngestInv, LoadedInv
  <2> HIDE DEF new
  <2>. QED  BY <1>1, <1>3, <1>5, <2>1
<1>10. ASSUME ~shifted', NEW m \in Indexed, Time[m] >= since[c], Author[m] \notin unread'[c]
       PROVE  m \in loaded'[c]
  <2>1. loaded'[c] = loaded[c] \cup new /\ ~shifted
    BY <1>5, <1>10
  <2>2. CASE Author[m] = a
    BY <1>10, <2>1, <2>2, StateDocuments
  <2>3. CASE Author[m] # a
    <3>1. Author[m] \notin unread[c]
      BY <1>4, <1>10, <2>3
    <3>2. m \in loaded[c]
      BY <1>1, <1>10, <2>1, <3>1 DEF IngestInv, UnshiftedInv
    <3>. QED  BY <2>1, <3>2
  <2>. QED  BY <2>2, <2>3
<1>11. ~shifted' => done' \subseteq Indexed
  BY <1>1, <1>7 DEF IngestInv, UnshiftedInv
<1>12. at'[c] = "loading" /\ since'[c] = since[c]
  BY <1>1
<1> HIDE DEF new
<1>. QED  BY <1>1, <1>6, <1>7, <1>8, <1>9, <1>10, <1>11, <1>12, RunKeepsInv

LEMMA ChunkKeepsInv ==
  ASSUME IngestInv, NEW c \in Calls, ChunkMessages(c)
  PROVE  IngestInv'
<1> DEFINE cs == Chunks(loaded[c])
<1>1. /\ at[c] = "loading" /\ unread[c] = {}
      /\ at' = [at EXCEPT ![c] = "upserting"] /\ todo' = [todo EXCEPT ![c] = cs]
      /\ shifted' = (shifted \/ Shifts(loaded[c], Indexable))
      /\ UNCHANGED <<archive, captioned, index, task, since, unread, loaded, done>>
  BY DEF ChunkMessages
<1>2. at' \in [Calls -> {"idle", "loading", "upserting"}] /\ at'[c] = "upserting"
  BY <1>1, CallTypes
<1>3. cs \in Seq(Seq(Messages)) /\ todo'[c] = cs
  <2>1. cs \in Seq(Seq(Messages))
    BY StateDocuments, ChunksProperties DEF Chunking
  <2> HIDE DEF cs
  <2>. QED  BY <1>1, <2>1, CallTypes
<1> HIDE DEF cs
<1>4. \A b \in Calls \ {c} : at'[b] = at[b] /\ todo'[b] = todo[b]
  BY <1>1, CallTypes
<1>5. TypeOK'
  <2>1. \A b \in Calls : at'[b] # "idle" <=> at[b] # "idle"
    BY <1>1, <1>2, <1>4
  <2>2. shifted' \in BOOLEAN
    BY <1>1
  <2>3. todo' \in [Calls -> Seq(Seq(Messages))]
    BY <1>1, <1>3, CallTypes
  <2>. QED  BY <1>1, <1>2, <2>1, <2>2, <2>3 DEF IngestInv, TypeOK
<1>6. ASSUME ~shifted'
      PROVE  /\ \A d \in ToSet(cs) : Fits(d, Indexable)
             /\ \A m \in Indexed : Time[m] >= since[c] /\ Author[m] \notin unread[c] => m \in loaded[c]
             /\ done \subseteq Indexed
  <2>1. ~shifted /\ UnshiftedInv /\ ~Shifts(loaded[c], Indexable)
    BY <1>1, <1>6 DEF IngestInv
  <2>2. \A d \in ToSet(cs) : Fits(d, Indexable)
    BY <2>1, StateDocuments, ChunkFitsItself DEF cs
  <2>. QED  BY <1>1, <2>1, <2>2 DEF UnshiftedInv
<1>7. loaded[c] \subseteq Indexable /\ \A m \in loaded[c] : Time[m] >= since[c]
  BY DEF IngestInv, LoadedInv
<1>8. shifted => shifted'
  BY <1>1
<1>9. Chunks(loaded'[c]) = cs
  BY <1>1 DEF cs
<1>. QED  BY <1>1, <1>2, <1>3, <1>4, <1>5, <1>6, <1>7, <1>8, <1>9, RunKeepsInv

\* The end of a run, however it ended.
LEMMA EndKeepsInv ==
  ASSUME IngestInv, NEW c \in Calls, Complete(c) \/ IngestFails(c)
  PROVE  IngestInv'
<1>1. /\ at[c] # "idle" /\ task' = {} /\ at' = [at EXCEPT ![c] = "idle"]
      /\ since' = [since EXCEPT ![c] = 0] /\ unread' = [unread EXCEPT ![c] = {}]
      /\ loaded' = [loaded EXCEPT ![c] = {}] /\ todo' = [todo EXCEPT ![c] = <<>>]
      /\ UNCHANGED <<archive, captioned, index, shifted>>
  BY DEF Complete, IngestFails, Ends
<1>2. /\ at' \in [Calls -> {"idle", "loading", "upserting"}]
      /\ since' \in [Calls -> Sinces \cup {0}]
      /\ unread' \in [Calls -> SUBSET Authors] /\ loaded' \in [Calls -> SUBSET Messages]
  BY <1>1, CallTypes
<1>3. todo' \in [Calls -> Seq(Seq(Messages))]
  <2>1. <<>> \in Seq(Seq(Messages))
    OBVIOUS
  <2>. QED  BY <1>1, <2>1, CallTypes
<1>4. /\ at'[c] = "idle" /\ since'[c] = 0 /\ unread'[c] = {} /\ loaded'[c] = {}
      /\ \A b \in Calls \ {c} : /\ at'[b] = at[b] /\ since'[b] = since[b] /\ unread'[b] = unread[b]
                                /\ loaded'[b] = loaded[b] /\ todo'[b] = todo[b]
  BY <1>1, CallTypes
<1>5. done' = done \/ (done' = done \cup loaded[c] /\ at[c] = "upserting" /\ todo[c] = <<>>)
  BY DEF Complete, IngestFails
<1>6. TypeOK'
  <2>1. \A b \in Calls : at'[b] # "idle" <=> task' = {b}
    BY <1>1, <1>4, CallTypes
  <2>2. done' \subseteq Messages
    BY <1>5, CallTypes DEF IngestInv, TypeOK
  <2>. QED  BY <1>1, <1>2, <1>3, <2>1, <2>2 DEF IngestInv, TypeOK
<1>7. ASSUME ~shifted'
      PROVE  done' \subseteq Indexed
  <2>1. UnshiftedInv
    BY <1>1, <1>7 DEF IngestInv
  <2>2. CASE done' = done
    BY <2>1, <2>2 DEF UnshiftedInv
  <2>3. CASE done' = done \cup loaded[c] /\ at[c] = "upserting" /\ todo[c] = <<>>
    <3>1. ToSet(todo[c]) = {}
      BY <2>3 DEF ToSet
    <3>2. \A m \in loaded[c] : \E d \in ToSet(Chunks(loaded[c])) : m \in ToSet(d)
      BY StateDocuments, ChunksApart DEF Apart
    <3>3. \A d \in ToSet(Chunks(loaded[c])) : ToSet(d) \subseteq Indexed
      BY <2>1, <2>3, <3>1 DEF UnshiftedInv
    <3>. QED  BY <2>1, <2>3, <3>2, <3>3 DEF UnshiftedInv
  <2>. QED  BY <1>5, <2>2, <2>3
<1>8. \A m \in loaded'[c] : Time[m] >= since'[c]
  BY <1>4
<1>. QED  BY <1>1, <1>4, <1>6, <1>7, <1>8, RunKeepsInv

-----------------------------------------------------------------------------
(* A batch.                                                                *)

\* A chunk that is upserted has everything that the document it replaces has.
LEMMA ChunkCoversDocument ==
  ASSUME IngestInv, ~shifted, NEW c \in Calls, at[c] = "upserting",
         NEW d \in ToSet(Chunks(loaded[c])), Head(d) \in DOMAIN index
  PROVE  ToSet(index[Head(d)]) \subseteq ToSet(d)
<1> DEFINE k == Head(d)
           old == index[k]
<1>. SUFFICES ASSUME NEW m \in ToSet(old) PROVE m \in ToSet(d)
  OBVIOUS
<1>1. UnshiftedInv /\ unread[c] = {}
  BY DEF IngestInv, LoadedInv
<1>2. Apart(ToSet(Chunks(loaded[c])), loaded[c])
  BY StateDocuments, ChunksApart
<1>3. Document(old) /\ Fits(old, Indexable) /\ Head(old) = k /\ m \in Indexed
  BY <1>1, StateDocuments DEF UnshiftedInv, IngestInv, DocumentInv
<1>4. Document(d) /\ k \in ToSet(d) /\ k \in loaded[c]
  BY <1>2, DocumentEnds DEF Apart
<1> HIDE DEF k, old
<1>5. Time[k] >= since[c]
  BY <1>4 DEF IngestInv, LoadedInv
<1>6. Time[m] >= Time[k]
  <2>1. InTime(old)
    BY <1>3, StateDocuments, FitsProperties DEF Fits
  <2>2. PICK i \in 1..Len(old) : m = old[i]
    BY <1>3, DocumentEnds
  <2>3. old[1] = k /\ 1 \in 1..Len(old) /\ Len(old) \in Nat
    BY <1>3, DocumentEnds
  <2>4. i = 1 \/ Time[old[1]] < Time[old[i]]
    BY <2>1, <2>3 DEF InTime
  <2>5. Time[m] \in Nat /\ Time[k] \in Nat
    BY <1>3, <1>4, StateDocuments, RecordAssumption
  <2>. QED  BY <2>2, <2>3, <2>4, <2>5
<1>7. m \in loaded[c]
  <2>1. Time[m] \in Nat /\ Time[k] \in Nat /\ since[c] \in Nat
    <3>1. Time[m] \in Nat /\ Time[k] \in Nat
      BY <1>3, <1>4, StateDocuments, RecordAssumption
    <3>2. since[c] \in Sinces \cup {0}
      BY CallTypes
    <3>3. \A x \in Sinces \cup {0} : x \in Nat
      BY IngestAssumption
    <3>. QED  BY <3>1, <3>2, <3>3
  <2>2. Time[m] >= since[c]
    BY <1>5, <1>6, <2>1
  <2>. QED  BY <1>1, <1>3, <2>2 DEF UnshiftedInv
<1>8. PICK e \in ToSet(Chunks(loaded[c])) : m \in ToSet(e)
  BY <1>2, <1>7 DEF Apart
<1>9. Document(e) /\ Fits(e, Indexable)
  BY <1>1, <1>2 DEF UnshiftedInv, Apart
<1>10. Head(e) = Head(old)
  <2>1. ToSet(e) \cap ToSet(old) # {}
    BY <1>8
  <2>. QED  BY <1>3, <1>9, <2>1, StateDocuments, CommonChunk
<1>11. k \in ToSet(e)
  BY <1>3, <1>9, <1>10, DocumentEnds
<1>12. e = d
  BY <1>2, <1>4, <1>11 DEF Apart
<1>. QED  BY <1>8, <1>12

\* What a batch does to the index: the chunks of the batch are documents now, the
\* other documents are as they were, and what is left of the run is the rest.
Upserts(c, new) ==
  /\ new \subseteq ToSet(Chunks(loaded[c])) /\ ToSet(todo[c]) = new \cup ToSet(todo'[c])
  /\ todo' = [todo EXCEPT ![c] = todo'[c]] /\ todo'[c] \in Seq(Seq(Messages))
  /\ \A k \in DOMAIN index' : \/ index'[k] \in new /\ Head(index'[k]) = k
                              \/ k \in DOMAIN index /\ index'[k] = index[k]
  /\ DOMAIN index \subseteq DOMAIN index'
  /\ \A d \in new : Head(d) \in DOMAIN index' /\ index'[Head(d)] = d
  /\ UNCHANGED <<archive, captioned, task, at, since, unread, loaded, done, shifted>>

LEMMA UpsertProperties ==
  ASSUME IngestInv, NEW c \in Calls, Upsert(c)
  PROVE  \E new \in SUBSET Seq(Messages) : Upserts(c, new)
<1> DEFINE s == todo[c]
           n == Min({BatchSize, Len(s)})
           batch == SubSeq(s, 1, n)
           rest == SubSeq(s, n + 1, Len(s))
           new == ToSet(batch)
<1>1. /\ at[c] = "upserting" /\ s # <<>> /\ index' = Upserted(batch)
      /\ todo' = [todo EXCEPT ![c] = rest]
      /\ UNCHANGED <<archive, captioned, task, at, since, unread, loaded, done, shifted>>
  BY DEF Upsert
<1>2. s \in Seq(Seq(Messages)) /\ Len(s) \in Nat \ {0} /\ ToSet(s) \subseteq ToSet(Chunks(loaded[c]))
  <2>1. s \in Seq(Seq(Messages))
    BY CallTypes
  <2>2. ToSet(s) \subseteq ToSet(Chunks(loaded[c]))
    BY <1>1 DEF IngestInv, LoadedInv
  <2> HIDE DEF s
  <2>. QED  BY <1>1, <2>1, <2>2
<1> HIDE DEF s
<1>3. n \in 1..Len(s)
  <2>1. BatchSize \in Nat \ {0}
    BY IngestAssumption
  <2>2. {BatchSize, Len(s)} \in SUBSET Nat /\ {BatchSize, Len(s)} # {}
    BY <1>2, <2>1
  <2>3. n \in {BatchSize, Len(s)} /\ n \in Nat /\ n <= Len(s)
    BY <2>2, MinProperties
  <2> HIDE DEF n
  <2>. QED  BY <1>2, <2>1, <2>3
<1> HIDE DEF n
<1>4. IsPart(batch, Seq(Messages), s, 1, n) /\ IsPart(rest, Seq(Messages), s, n + 1, Len(s))
  <2>1. n \in 0..Len(s) /\ Len(s) \in 0..Len(s) /\ n + 1 \in Nat \ {0} /\ 1 \in Nat \ {0}
    BY <1>2, <1>3
  <2>. QED  BY <1>2, <2>1, PartProperties
<1> HIDE DEF batch, rest
<1>5. /\ batch \in Seq(Seq(Messages)) /\ rest \in Seq(Seq(Messages))
      /\ \A x : x \in ToSet(batch) <=> \E i \in 1..n : x = s[i]
      /\ \A x : x \in ToSet(rest) <=> \E i \in (n + 1)..Len(s) : x = s[i]
  BY <1>4 DEF IsPart
<1>6. ToSet(s) = new \cup ToSet(rest)
  <2>1. \A x : x \in ToSet(s) <=> \E i \in 1..Len(s) : x = s[i]
    BY <1>2 DEF ToSet
  <2>2. \A i \in 1..Len(s) : i \in 1..n \/ i \in (n + 1)..Len(s)
    BY <1>2, <1>3
  <2>3. \A i : i \in 1..n \/ i \in (n + 1)..Len(s) => i \in 1..Len(s)
    BY <1>2, <1>3
  <2>. QED  BY <1>5, <2>1, <2>2, <2>3
<1>7. new \subseteq Seq(Messages) /\ new \subseteq ToSet(Chunks(loaded[c]))
  <2>1. new \subseteq Seq(Messages)
    BY <1>5 DEF ToSet
  <2>. QED  BY <1>2, <1>6, <2>1
<1>8. todo'[c] = rest /\ todo' = [todo EXCEPT ![c] = todo'[c]]
  BY <1>1, CallTypes
<1>9. Keys(batch) = {Head(d) : d \in new}
  BY DEF Keys
<1> HIDE DEF new
<1>10. ASSUME NEW d \in new, NEW e \in new, Head(d) = Head(e)
       PROVE  d = e
  <2>1. Apart(ToSet(Chunks(loaded[c])), loaded[c])
    BY StateDocuments, ChunksApart
  <2>2. Head(d) \in ToSet(d) /\ Head(e) \in ToSet(e)
    BY <1>7, <2>1, DocumentEnds DEF Apart
  <2>. QED  BY <1>7, <1>10, <2>1, <2>2 DEF Apart
<1> DEFINE doc(k) == CHOOSE d \in new : Head(d) = k
<1>11. \A k \in Keys(batch) : doc(k) \in new /\ Head(doc(k)) = k
  BY <1>9
<1>12. index' = [k \in DOMAIN index \cup Keys(batch) |-> IF k \in Keys(batch) THEN doc(k) ELSE index[k]]
  BY <1>1 DEF Upserted, new
<1> HIDE DEF doc
<1>13. \A k \in DOMAIN index' : \/ index'[k] \in new /\ Head(index'[k]) = k
                                \/ k \in DOMAIN index /\ index'[k] = index[k]
  BY <1>11, <1>12
<1>14. DOMAIN index \subseteq DOMAIN index'
  BY <1>12
<1>15. ASSUME NEW d \in new
       PROVE  Head(d) \in DOMAIN index' /\ index'[Head(d)] = d
  <2>1. Head(d) \in Keys(batch)
    BY <1>9
  <2>2. index'[Head(d)] = doc(Head(d)) /\ Head(d) \in DOMAIN index'
    BY <1>12, <2>1
  <2>. QED  BY <1>10, <1>11, <2>1, <2>2
<1>16. ToSet(todo[c]) = new \cup ToSet(todo'[c]) /\ todo'[c] \in Seq(Seq(Messages))
  BY <1>5, <1>6, <1>8 DEF s
<1>17. Upserts(c, new)
  BY <1>1, <1>7, <1>8, <1>13, <1>14, <1>15, <1>16 DEF Upserts
<1>. QED  BY <1>7, <1>17

\* Nothing leaves the index with a batch, and the batch is in it.
LEMMA UpsertGrows ==
  ASSUME IngestInv, ~shifted, NEW c \in Calls, at[c] = "upserting",
         NEW new \in SUBSET Seq(Messages), Upserts(c, new)
  PROVE  Indexed \subseteq Indexed' /\ \A d \in new : ToSet(d) \subseteq Indexed'
<1>1. \A k \in DOMAIN index' : ToSet(index'[k]) \subseteq Indexed'
  BY DEF Indexed
<1>2. \A d \in new : ToSet(d) \subseteq Indexed'
  <2>. TAKE d \in new
  <2>1. Head(d) \in DOMAIN index' /\ index'[Head(d)] = d
    BY DEF Upserts
  <2>. QED  BY <1>1, <2>1
<1>3. ASSUME NEW m \in Indexed
      PROVE  m \in Indexed'
  <2>1. PICK k \in DOMAIN index : m \in ToSet(index[k])
    BY StateDocuments
  <2>2. k \in DOMAIN index'
    BY DEF Upserts
  <2>3. CASE index'[k] = index[k]
    BY <1>1, <2>1, <2>2, <2>3
  <2>4. CASE index'[k] \in new /\ Head(index'[k]) = k
    <3>1. ToSet(index[k]) \subseteq ToSet(index'[k])
      BY <2>4, ChunkCoversDocument DEF Upserts
    <3>. QED  BY <1>1, <2>1, <2>2, <3>1
  <2>. QED  BY <2>2, <2>3, <2>4 DEF Upserts
<1>. QED  BY <1>2, <1>3

LEMMA UpsertKeepsInv ==
  ASSUME IngestInv, NEW c \in Calls, Upsert(c)
  PROVE  IngestInv'
<1>0. at[c] = "upserting"
  BY DEF Upsert
<1>1. PICK new \in SUBSET Seq(Messages) : Upserts(c, new)
  BY UpsertProperties
<1>2. UNCHANGED <<archive, captioned, task, at, since, unread, loaded, done, shifted>>
  BY <1>1 DEF Upserts
<1>3. Apart(ToSet(Chunks(loaded[c])), loaded[c])
  BY StateDocuments, ChunksApart
<1>4. \A d \in new : Document(d) /\ ToSet(d) \subseteq loaded[c] /\ Head(d) \in ToSet(d)
  <2>. TAKE d \in new
  <2>1. d \in ToSet(Chunks(loaded[c]))
    BY <1>1 DEF Upserts
  <2>2. Document(d) /\ ToSet(d) \subseteq loaded[c]
    BY <1>3, <2>1 DEF Apart
  <2>. QED  BY <2>2, DocumentEnds
<1>5. \A k \in DOMAIN index' : \/ index'[k] \in new /\ Head(index'[k]) = k
                               \/ k \in DOMAIN index /\ index'[k] = index[k]
  BY <1>1 DEF Upserts
<1>6. Indexable' = Indexable
  BY <1>2 DEF Indexable
<1>7. ASSUME NEW k \in DOMAIN index'
      PROVE  /\ k \in Messages /\ Document(index'[k]) /\ Head(index'[k]) = k
             /\ ToSet(index'[k]) \subseteq Indexable
  <2>1. CASE index'[k] \in new /\ Head(index'[k]) = k
    <3>1. loaded[c] \subseteq Indexable /\ loaded[c] \subseteq Messages
      BY StateDocuments
    <3>. QED  BY <1>4, <2>1, <3>1
  <2>2. CASE k \in DOMAIN index /\ index'[k] = index[k]
    BY <2>2, StateDocuments DEF IngestInv, TypeOK, DocumentInv
  <2>. QED  BY <1>5, <2>1, <2>2
<1>8. DocumentInv'
  BY <1>6, <1>7 DEF DocumentInv
<1>9. TypeOK'
  <2>1. DOMAIN index' \subseteq Messages /\ \A k \in DOMAIN index' : index'[k] \in Seq(Messages) \ {<<>>}
    BY <1>7 DEF Document
  <2>2. todo' \in [Calls -> Seq(Seq(Messages))]
    BY <1>1, CallTypes DEF Upserts
  <2>. QED  BY <1>2, <2>1, <2>2 DEF IngestInv, TypeOK
<1>10. /\ \A b \in Calls \ {c} : todo'[b] = todo[b]
       /\ ToSet(todo[c]) = new \cup ToSet(todo'[c])
  BY <1>1, CallTypes DEF Upserts
<1>11. LoadedInv'
  <2>. SUFFICES ASSUME NEW b \in Calls
                PROVE  /\ loaded[b] \subseteq Indexable
                       /\ \A m \in loaded[b] : Time[m] >= since[b]
                       /\ at[b] = "upserting" => /\ unread[b] = {}
                                                 /\ ToSet(todo'[b]) \subseteq ToSet(Chunks(loaded[b]))
    BY <1>2, <1>6 DEF LoadedInv
  <2>1. ToSet(todo'[b]) \subseteq ToSet(todo[b])
    BY <1>10
  <2>. QED  BY <2>1 DEF IngestInv, LoadedInv
<1>12. ASSUME ~shifted'
       PROVE  UnshiftedInv'
  <2>1. ~shifted /\ UnshiftedInv
    BY <1>2, <1>12 DEF IngestInv
  <2>2. Indexed \subseteq Indexed' /\ \A d \in new : ToSet(d) \subseteq Indexed'
    BY <1>0, <1>1, <2>1, UpsertGrows
  <2>3. \A d \in ToSet(Chunks(loaded[c])) : Fits(d, Indexable)
    BY <1>0, <2>1 DEF UnshiftedInv
  <2>4. ASSUME NEW k \in DOMAIN index'
        PROVE  Fits(index'[k], Indexable)
    <3>1. CASE index'[k] \in new
      BY <1>1, <2>3, <3>1 DEF Upserts
    <3>2. CASE k \in DOMAIN index /\ index'[k] = index[k]
      BY <2>1, <3>2 DEF UnshiftedInv
    <3>. QED  BY <1>5, <3>1, <3>2
  <2>5. ASSUME NEW b \in Calls, at[b] # "idle", NEW m \in Indexed',
               Time[m] >= since[b], Author[m] \notin unread[b]
        PROVE  m \in loaded[b]
    <3>1. b = c
      BY <1>0, <2>5, CallTypes
    <3>2. PICK k \in DOMAIN index' : m \in ToSet(index'[k])
      BY DEF Indexed
    <3>3. CASE index'[k] \in new
      BY <1>4, <3>1, <3>2, <3>3
    <3>4. CASE k \in DOMAIN index /\ index'[k] = index[k]
      <4>1. m \in Indexed
        BY <3>2, <3>4, StateDocuments
      <4>. QED  BY <2>1, <2>5, <4>1 DEF UnshiftedInv
    <3>. QED  BY <1>5, <3>3, <3>4
  <2>6. ASSUME NEW b \in Calls, at[b] = "upserting", NEW d \in ToSet(Chunks(loaded[b]))
        PROVE  Fits(d, Indexable) /\ (d \in ToSet(todo'[b]) \/ ToSet(d) \subseteq Indexed')
    <3>1. b = c
      BY <1>0, <2>6, CallTypes
    <3>2. d \in ToSet(todo[c]) \/ ToSet(d) \subseteq Indexed
      BY <2>1, <2>6, <3>1 DEF UnshiftedInv
    <3>. QED  BY <1>10, <2>2, <2>3, <2>6, <3>1, <3>2
  <2>7. done' \subseteq Indexed'
    BY <1>2, <2>1, <2>2 DEF UnshiftedInv
  <2>. QED  BY <1>2, <1>6, <2>4, <2>5, <2>6, <2>7 DEF UnshiftedInv
<1>. QED  BY <1>8, <1>9, <1>11, <1>12 DEF IngestInv

LEMMA NextIngestInv ==
  ASSUME IngestInv, [Next]_vars
  PROVE  IngestInv'
<1>1. ASSUME NEW m \in Messages, Archive(m) \/ Caption(m)
      PROVE  IngestInv'
  BY <1>1, ArchiveKeepsInv
<1>2. ASSUME NEW c \in Calls, NEW s \in Sinces, Ingest(c, s)
      PROVE  IngestInv'
  BY <1>2, IngestKeepsInv
<1>3. ASSUME NEW c \in Calls, NEW a \in Authors, LoadFile(c, a) \/ SkipFile(c, a)
      PROVE  IngestInv'
  BY <1>3, FileKeepsInv
<1>4. ASSUME NEW c \in Calls, ChunkMessages(c) \/ Upsert(c) \/ Complete(c) \/ IngestFails(c)
      PROVE  IngestInv'
  BY <1>4, ChunkKeepsInv, UpsertKeepsInv, EndKeepsInv
<1>5. CASE UNCHANGED vars
  <2>1. UNCHANGED <<archive, captioned, index, task, at, since, unread, loaded, todo, done, shifted>>
    BY <1>5 DEF vars, run
  <2>2. Indexable' = Indexable /\ Indexed' = Indexed
    BY <2>1 DEF Indexable, Indexed
  <2>3. TypeOK'
    BY <2>1 DEF IngestInv, TypeOK
  <2>4. LoadedInv' /\ DocumentInv'
    BY <2>1, <2>2 DEF IngestInv, LoadedInv, DocumentInv
  <2>5. ~shifted' => UnshiftedInv'
    BY <2>1, <2>2 DEF IngestInv, UnshiftedInv
  <2>. QED  BY <2>3, <2>4, <2>5 DEF IngestInv
<1>. QED  BY <1>1, <1>2, <1>3, <1>4, <1>5 DEF Next

LEMMA IngestInvariance == Spec => []IngestInv
BY InitIngestInv, NextIngestInv, PTL DEF Spec

-----------------------------------------------------------------------------
(* The index.                                                              *)

\* However many runs there were, finished or broken off, the state is well formed
\* and a message is in one document only, as long as no cut has moved
\* (embed_and_upsert, "re-running does not duplicate data").
THEOREM IndexIsSound == Spec => []IndexInv
<1>1. IngestInv => IndexInv
  <2>. SUFFICES ASSUME IngestInv PROVE IndexInv
    OBVIOUS
  <2>1. ASSUME ~shifted, NEW j \in DOMAIN index, NEW k \in DOMAIN index, j # k
        PROVE  ToSet(index[j]) \cap ToSet(index[k]) = {}
    <3>1. Document(index[j]) /\ Document(index[k]) /\ Indexable \in SUBSET Messages
      BY StateDocuments
    <3>2. Fits(index[j], Indexable) /\ Fits(index[k], Indexable)
      BY <2>1 DEF IngestInv, UnshiftedInv
    <3>3. Head(index[j]) # Head(index[k])
      BY <2>1 DEF IngestInv, DocumentInv
    <3>. QED  BY <3>1, <3>2, <3>3, CommonChunk
  <2>. QED  BY <2>1 DEF IndexInv, EachMessageOnce, IngestInv
<1>. QED  BY <1>1, IngestInvariance, PTL

\* A run never takes a message out of the index that an earlier run put there,
\* unless a cut has moved (ingest, _ingest_task).
THEOREM IndexOnlyGrows == Spec => NothingLeavesIndex
<1>1. IngestInv /\ [Next]_vars => [~shifted' => Indexed \subseteq Indexed']_vars
  <2>. SUFFICES ASSUME IngestInv, Next, ~shifted' PROVE Indexed \subseteq Indexed'
    OBVIOUS
  <2>1. CASE index' = index
    BY <2>1 DEF Indexed
  <2>2. ASSUME NEW c \in Calls, Upsert(c)
        PROVE  Indexed \subseteq Indexed'
    <3>1. PICK new \in SUBSET Seq(Messages) : Upserts(c, new)
      BY <2>2, UpsertProperties
    <3>2. at[c] = "upserting" /\ ~shifted
      BY <2>2 DEF Upsert
    <3>. QED  BY <3>1, <3>2, UpsertGrows
  <2>3. ASSUME NEW m \in Messages, Archive(m) \/ Caption(m)
        PROVE  index' = index
    BY <2>3 DEF Archive, Caption, Arrives
  <2>4. ASSUME NEW c \in Calls, NEW s \in Sinces, Ingest(c, s)
        PROVE  index' = index
    BY <2>4 DEF Ingest
  <2>5. ASSUME NEW c \in Calls, NEW a \in Authors, LoadFile(c, a) \/ SkipFile(c, a)
        PROVE  index' = index
    BY <2>5 DEF LoadFile, SkipFile
  <2>6. ASSUME NEW c \in Calls, ChunkMessages(c) \/ Complete(c) \/ IngestFails(c)
        PROVE  index' = index
    BY <2>6 DEF ChunkMessages, Complete, IngestFails, Ends
  <2>. QED  BY <2>1, <2>2, <2>3, <2>4, <2>5, <2>6 DEF Next
<1>. QED  BY <1>1, IngestInvariance, PTL DEF Spec, NothingLeavesIndex

-----------------------------------------------------------------------------
(* What the chunks of an archive are.                                      *)

LEMMA TokensProperties ==
  ASSUME NEW c \in Seq(Messages), NEW d \in Seq(Messages), ToSet(c) \subseteq ToSet(d)
  PROVE  Tokens(c) \in Nat /\ Tokens(d) \in Nat /\ Tokens(c) <= Tokens(d)
<1>1. ToSet(d) \in SUBSET Messages
  BY DEF ToSet
<1>2. IsFiniteSet(ToSet(d))
  BY <1>1, EarlierOrders
<1>3. \A m \in ToSet(d) : Weight[m] \in Nat
  BY <1>1, IngestAssumption
<1>. QED  BY <1>2, <1>3, TotalProperties DEF Tokens

\* A part of s without the start of a conversation is in one conversation.
LEMMA ConversationCovers ==
  ASSUME NEW s \in Seq(Messages), NEW a \in 1..Len(s), NEW b \in a..Len(s),
         \A k \in (a + 1)..b : ~Opens(s, k)
  PROVE  /\ Conversation(s, b) \in Seq(Messages) /\ SubSeq(s, a, b) \in Seq(Messages)
         /\ ToSet(SubSeq(s, a, b)) \subseteq ToSet(Conversation(s, b))
<1> DEFINE before == {j \in 1..b : Opens(s, j)}
           after == {j \in b..Len(s) : j = Len(s) \/ Opens(s, j + 1)}
           f == Max(before)
           t == Min(after)
<1>0. Len(s) \in Nat /\ a \in Nat /\ b \in Nat /\ a >= 1 /\ a <= b /\ b <= Len(s)
  OBVIOUS
<1>1. f \in 1..a
  <2>1. 1 \in before /\ before \in SUBSET (0..b)
    BY <1>0 DEF Opens
  <2>2. f \in before
    <3>1. before # {}
      BY <2>1
    <3> HIDE DEF before
    <3>. QED  BY <1>0, <2>1, <3>1, MaxProperties
  <2>3. f \in 1..b /\ Opens(s, f)
    BY <2>2
  <2> HIDE DEF f
  <2>4. f \notin (a + 1)..b
    BY <2>3
  <2>. QED  BY <1>0, <2>3, <2>4
<1>2. t \in b..Len(s)
  <2>1. Len(s) \in after /\ after \in SUBSET Nat
    BY <1>0
  <2>2. t \in after
    <3>1. after # {}
      BY <2>1
    <3> HIDE DEF after
    <3>. QED  BY <2>1, <3>1, MinProperties
  <2>. QED  BY <2>2
<1>3. Conversation(s, b) = SubSeq(s, f, t)
  BY DEF Conversation
<1> HIDE DEF f, t
<1>4. f \in Nat \ {0} /\ t \in 0..Len(s) /\ f <= a /\ b <= t /\ b \in 0..Len(s) /\ a \in Nat \ {0} /\ t \in Nat
  BY <1>0, <1>1, <1>2
<1>5. IsPart(SubSeq(s, f, t), Messages, s, f, t) /\ IsPart(SubSeq(s, a, b), Messages, s, a, b)
  BY <1>4, PartProperties
<1>6. /\ SubSeq(s, f, t) \in Seq(Messages) /\ SubSeq(s, a, b) \in Seq(Messages)
      /\ \A x : x \in ToSet(SubSeq(s, f, t)) <=> \E i \in f..t : x = s[i]
      /\ \A x : x \in ToSet(SubSeq(s, a, b)) <=> \E i \in a..b : x = s[i]
  BY <1>5 DEF IsPart
<1>7. \A i \in a..b : i \in f..t
  BY <1>0, <1>4
<1>. QED  BY <1>3, <1>6, <1>7

Joined(m, n) == Chan[m] = Chan[n] /\ Time[n] - Time[m] <= Gap

\* No gap in a chunk, none over the budget but a single message, and none split
\* that would have fitted.
Splits(cs, i) ==
  /\ \A j \in 1..(Len(cs[i]) - 1) : Joined(cs[i][j], cs[i][j + 1])
  /\ Len(cs[i]) > 1 => Tokens(cs[i]) <= MaxTokens
  /\ i > 1 /\ Joined(Last(cs[i - 1]), Head(cs[i])) =>
       Tokens(Append(cs[i - 1], Head(cs[i]))) > MaxTokens

LEMMA ChunksSplit ==
  ASSUME NEW T \in SUBSET Messages, NEW cs, cs = Chunks(T), NEW i \in 1..Len(cs)
  PROVE  Splits(cs, i)
<1> DEFINE s == Sorted(T)
           K == Marked(s)
           start == ChunkStart(s)
           a(x) == Nth(K, x)
           b(x) == EndOf(s, K, x)
<1>1. /\ s \in Seq(Messages) /\ Grouped(cs, s, K, T)
      /\ \A k \in 1..Len(s) : Opens(s, k) => k \in K
  BY ChunkShape
<1>2. start \in [1..Len(s) -> 1..Len(s)] /\ StartsAt(start, Len(s), Opening(s), Overflow(s))
  BY <1>1, ChunkStartProperties
<1>3. Len(s) \in Nat /\ Len(cs) \in Nat /\ \A k \in 1..Len(s) : k \in K <=> start[k] = k
  BY <1>1 DEF Grouped, Marked
<1>4. ASSUME NEW x \in 1..Len(cs)
      PROVE  /\ a(x) \in K /\ a(x) \in 1..Len(s) /\ b(x) \in a(x)..Len(s)
             /\ cs[x] = SubSeq(s, a(x), b(x)) /\ Len(cs[x]) = b(x) - a(x) + 1
             /\ \A p \in 1..Len(cs[x]) : cs[x][p] = s[a(x) + p - 1]
             /\ ToSet(cs[x]) = {s[k] : k \in a(x)..b(x)}
             /\ \A k \in (a(x) + 1)..b(x) : k \notin K
  BY <1>1 DEF Grouped, GroupOf
<1>5. i # 1 => i - 1 \in 1..Len(cs) /\ b(i - 1) + 1 = a(i)
  <2>1. \A k \in 1..Len(cs) : k # Len(cs) => b(k) + 1 = a(k + 1)
    BY <1>1 DEF Grouped
  <2>2. i # 1 => i - 1 \in 1..Len(cs) /\ i - 1 # Len(cs) /\ (i - 1) + 1 = i
    BY <1>3
  <2>. QED  BY <2>1, <2>2
<1> HIDE DEF s, K, start, a, b
<1>6. ASSUME NEW x \in 1..Len(cs)
      PROVE  /\ a(x) \in Nat /\ b(x) \in Nat /\ a(x) >= 1 /\ a(x) <= b(x) /\ b(x) <= Len(s)
             /\ \A k \in (a(x) + 1)..b(x) : k \in 1..Len(s) /\ start[k] # k /\ ~Opens(s, k)
             /\ \A k \in a(x)..b(x) : start[k] = a(x)
  <2>1. a(x) \in Nat /\ b(x) \in Nat /\ a(x) >= 1 /\ a(x) <= b(x) /\ b(x) <= Len(s)
    <3>1. Len(s) \in Nat
      BY <1>3
    <3>2. a(x) \in 1..Len(s) /\ b(x) \in a(x)..Len(s)
      BY <1>4
    <3>. QED  BY <3>1, <3>2
  <2>2. \A k \in (a(x) + 1)..b(x) : k \in 1..Len(s)
    BY <1>3, <2>1
  <2>3. \A k \in (a(x) + 1)..b(x) : start[k] # k /\ ~Opens(s, k)
    BY <1>1, <1>3, <1>4, <2>2
  <2>4. start[a(x)] = a(x)
    BY <1>3, <1>4
  <2>5. \A k \in a(x)..b(x) : start[k] = a(x)
    <3> DEFINE f == a(x)
               g == b(x)
    <3>1. a(x) \in 1..Len(s) /\ b(x) \in a(x)..Len(s)
      BY <1>4
    <3>2. \A k \in (a(x) + 1)..b(x) : start[k] # k
      BY <2>3
    <3>3. Len(s) \in Nat
      BY <1>3
    <3>4. OneGroup(start, Len(s), f, g)
      BY <2>4, <3>1, <3>2 DEF OneGroup
    <3> HIDE DEF f, g
    <3>5. \A k \in f..g : start[k] = f
      BY <1>2, <3>3, <3>4, StartsProperties
    <3>. QED  BY <3>5 DEF f, g
  <2>. QED  BY <2>1, <2>2, <2>3, <2>5
<1>7. \A k \in 1..Len(s) : s[k] \in Messages
  BY <1>1
<1>8. \A m \in Messages : Chan[m] \in Nat /\ Time[m] \in Nat
  BY RecordAssumption
<1>9. Gap \in Nat /\ MaxTokens \in Nat
  BY IngestAssumption
<1>10. ASSUME NEW j \in 1..(Len(cs[i]) - 1)
       PROVE  Joined(cs[i][j], cs[i][j + 1])
  <2> DEFINE k == a(i) + j
  <2>0. a(i) \in Nat /\ b(i) \in Nat /\ Len(cs[i]) = b(i) - a(i) + 1 /\ a(i) >= 1 /\ a(i) <= b(i) /\ b(i) <= Len(s)
    BY <1>4, <1>6
  <2>1. /\ j \in 1..Len(cs[i]) /\ j + 1 \in 1..Len(cs[i]) /\ j \in Nat
        /\ a(i) + j - 1 = k - 1 /\ a(i) + (j + 1) - 1 = k /\ k \in (a(i) + 1)..b(i)
        /\ k - 1 \in 1..Len(s) /\ k \in 1..Len(s) /\ k # 1
    <3>1. j \in Nat /\ j >= 1 /\ j <= Len(cs[i]) - 1 /\ Len(cs[i]) \in Nat /\ Len(s) \in Nat
      <4>1. Len(s) \in Nat
        BY <1>3
      <4>2. Len(cs[i]) \in Nat
        BY <2>0
      <4>. QED  BY <4>1, <4>2
    <3> DEFINE L == Len(cs[i])
               N == Len(s)
               f == a(i)
               g == b(i)
    <3>2. L \in Nat /\ N \in Nat /\ f \in Nat /\ g \in Nat /\ L = g - f + 1 /\ f >= 1 /\ f <= g /\ g <= N
          /\ j \in Nat /\ j >= 1 /\ j <= L - 1 /\ k = f + j
      BY <2>0, <3>1
    <3> HIDE DEF L, N, f, g, k
    <3>3. j \in 1..L /\ j + 1 \in 1..L /\ f + j - 1 = k - 1 /\ f + (j + 1) - 1 = k
      BY <3>2
    <3>4. k \in (f + 1)..g /\ k - 1 \in 1..N /\ k \in 1..N /\ k # 1
      BY <3>2
    <3>. QED  BY <3>2, <3>3, <3>4 DEF L, N, f, g
  <2>2. cs[i][j] = s[k - 1] /\ cs[i][j + 1] = s[k]
    <3>1. \A p \in 1..Len(cs[i]) : cs[i][p] = s[a(i) + p - 1]
      BY <1>4
    <3>2. cs[i][j] = s[a(i) + j - 1] /\ cs[i][j + 1] = s[a(i) + (j + 1) - 1]
      <4>1. j \in 1..Len(cs[i]) /\ j + 1 \in 1..Len(cs[i])
        BY <2>1
      <4>. QED  BY <3>1, <4>1
    <3>3. a(i) + j - 1 = k - 1 /\ a(i) + (j + 1) - 1 = k
      BY <2>1
    <3>. QED  BY <3>2, <3>3
  <2>3. ~Opens(s, k)
    BY <1>6, <2>1
  <2> HIDE DEF k
  <2>4. Chan[s[k - 1]] = Chan[s[k]] /\ ~(Time[s[k]] - Time[s[k - 1]] > Gap)
    BY <2>1, <2>3 DEF Opens
  <2>5. Time[s[k]] \in Nat /\ Time[s[k - 1]] \in Nat
    BY <1>7, <1>8, <2>1
  <2>6. Time[s[k]] - Time[s[k - 1]] <= Gap
    BY <1>9, <2>4, <2>5
  <2>. QED  BY <2>2, <2>4, <2>6 DEF Joined
<1>11. ASSUME Len(cs[i]) > 1
       PROVE  Tokens(cs[i]) <= MaxTokens
  <2> DEFINE k == b(i)
  <2>1. /\ a(i) \in 1..Len(s) /\ k \in a(i)..Len(s) /\ Len(cs[i]) = k - a(i) + 1
        /\ a(i) \in Nat /\ k \in Nat /\ a(i) >= 1 /\ a(i) <= k /\ k <= Len(s)
    BY <1>4, <1>6
  <2>2. k \in (a(i) + 1)..k /\ k - 1 \in a(i)..k /\ k \in 1..Len(s) /\ k - 1 \in 1..Len(s)
    BY <1>3, <1>11, <2>1
  <2>3. start[k] # k /\ start[k - 1] = a(i)
    BY <1>6, <2>2
  <2>4. <<a(i), k>> \notin Overflow(s)
    BY <1>2, <2>2, <2>3 DEF StartsAt
  <2>5. ~TooLong(s, a(i), k)
    BY <2>1, <2>2, <2>4 DEF Overflow
  <2>6. /\ Conversation(s, k) \in Seq(Messages) /\ SubSeq(s, a(i), k) \in Seq(Messages)
        /\ ToSet(SubSeq(s, a(i), k)) \subseteq ToSet(Conversation(s, k))
    BY <1>1, <1>6, <2>1, ConversationCovers
  <2>7. /\ Tokens(SubSeq(s, a(i), k)) \in Nat /\ Tokens(Conversation(s, k)) \in Nat
        /\ Tokens(SubSeq(s, a(i), k)) <= Tokens(Conversation(s, k))
    BY <2>6, TokensProperties
  <2>8. Tokens(SubSeq(s, a(i), k)) <= MaxTokens
    BY <1>9, <2>5, <2>7 DEF TooLong
  <2>. QED  BY <1>4, <2>8
<1>12. ASSUME i > 1, Joined(Last(cs[i - 1]), Head(cs[i]))
       PROVE  Tokens(Append(cs[i - 1], Head(cs[i]))) > MaxTokens
  <2> DEFINE k == a(i)
             h == i - 1
  <2>1. h \in 1..Len(cs) /\ b(h) + 1 = k
    BY <1>3, <1>5, <1>12
  <2> HIDE DEF h
  <2>2. /\ a(h) \in 1..Len(s) /\ b(h) \in a(h)..Len(s) /\ Len(cs[h]) = b(h) - a(h) + 1
        /\ a(h) \in Nat /\ b(h) \in Nat /\ a(h) >= 1 /\ a(h) <= b(h) /\ b(h) <= Len(s)
        /\ cs[h] = SubSeq(s, a(h), b(h)) /\ ToSet(cs[h]) = {s[l] : l \in a(h)..b(h)}
    BY <1>4, <1>6, <2>1
  <2>3. k \in 1..Len(s) /\ k - 1 = b(h) /\ k # 1 /\ start[k] = k /\ start[b(h)] = a(h) /\ a(h) < k
    <3>1. k \in 1..Len(s) /\ k \in K
      BY <1>4
    <3>2. start[k] = k
      BY <1>3, <3>1
    <3>3. b(h) \in a(h)..b(h)
      BY <2>2
    <3>4. start[b(h)] = a(h)
      BY <1>6, <2>1, <3>3
    <3> HIDE DEF k
    <3>. QED  BY <1>3, <2>1, <2>2, <3>1, <3>2, <3>4
  <2>4. Last(cs[h]) = s[k - 1] /\ Head(cs[i]) = s[k]
    <3>1. Len(cs[h]) \in 1..Len(cs[h]) /\ a(h) + Len(cs[h]) - 1 = b(h)
      <4>1. a(h) \in Nat /\ b(h) \in Nat /\ a(h) <= b(h) /\ Len(cs[h]) = b(h) - a(h) + 1
        BY <2>2
      <4>. QED  BY <4>1
    <3>2. cs[h][Len(cs[h])] = s[b(h)]
      <4>1. \A p \in 1..Len(cs[h]) : cs[h][p] = s[a(h) + p - 1]
        BY <1>4, <2>1
      <4>. QED  BY <3>1, <4>1
    <3>3. cs[i] \in Seq(Messages) /\ Len(cs[i]) >= 1
      <4>1. cs[i] = SubSeq(s, a(i), b(i)) /\ b(i) \in 0..Len(s) /\ a(i) \in Nat \ {0} /\ Len(cs[i]) = b(i) - a(i) + 1
            /\ a(i) <= b(i) /\ b(i) \in Nat
        BY <1>3, <1>4, <1>6
      <4>2. cs[i] \in Seq(Messages)
        BY <1>1, <4>1, PartProperties DEF IsPart
      <4>. QED  BY <4>1, <4>2
    <3>4. Head(cs[i]) = cs[i][1] /\ 1 \in 1..Len(cs[i])
      BY <3>3
    <3>5. cs[i][1] = s[k + 1 - 1]
      BY <1>4, <3>4
    <3>6. k + 1 - 1 = k
      BY <2>2, <2>3
    <3>. QED  BY <2>3, <3>2, <3>4, <3>5, <3>6 DEF Last
  <2>5. ~Opens(s, k)
    <3>1. Chan[s[k - 1]] = Chan[s[k]] /\ Time[s[k]] - Time[s[k - 1]] <= Gap
      BY <1>12, <2>4 DEF Joined, h
    <3>2. Time[s[k]] \in Nat /\ Time[s[k - 1]] \in Nat
      <4>1. k - 1 \in 1..Len(s)
        BY <1>3, <2>2, <2>3
      <4>. QED  BY <1>7, <1>8, <2>3, <4>1
    <3>3. ~(Time[s[k]] - Time[s[k - 1]] > Gap)
      BY <1>9, <3>1, <3>2
    <3>. QED  BY <2>3, <3>1, <3>3 DEF Opens
  <2>6. <<a(h), k>> \in Overflow(s)
    <3>1. k \notin Opening(s)
      BY <2>3, <2>5 DEF Opening
    <3>2. start[k - 1] = a(h) /\ a(h) # k
      BY <2>2, <2>3
    <3>. QED  BY <1>2, <2>3, <3>1, <3>2 DEF StartsAt
  <2>7. Tokens(SubSeq(s, a(h), k)) > MaxTokens
    BY <2>6 DEF Overflow, TooLong
  <2>8. ToSet(Append(cs[h], s[k])) = ToSet(SubSeq(s, a(h), k))
    <3>1. cs[h] \in Seq(Messages)
      <4>1. b(h) \in 0..Len(s) /\ a(h) \in Nat \ {0}
        BY <1>3, <2>2
      <4>. QED  BY <1>1, <2>2, <4>1, PartProperties DEF IsPart
    <3>2. ToSet(Append(cs[h], s[k])) = ToSet(cs[h]) \cup {s[k]}
      <4> DEFINE u == cs[h]
                 v == Append(u, s[k])
      <4>1. u \in Seq(Messages) /\ Len(u) \in Nat /\ DOMAIN u = 1..Len(u)
        BY <3>1
      <4> HIDE DEF u
      <4>2. Len(v) = Len(u) + 1 /\ DOMAIN v = 1..(Len(u) + 1) /\ v[Len(u) + 1] = s[k]
            /\ \A p \in 1..Len(u) : v[p] = u[p]
        BY <4>1
      <4> HIDE DEF v
      <4>3. \A p \in 1..(Len(u) + 1) : p \in 1..Len(u) \/ p = Len(u) + 1
        BY <4>1
      <4>4. Len(u) + 1 \in 1..(Len(u) + 1) /\ \A p \in 1..Len(u) : p \in 1..(Len(u) + 1)
        BY <4>1
      <4>5. ToSet(v) \subseteq ToSet(u) \cup {s[k]}
        BY <4>1, <4>2, <4>3 DEF ToSet
      <4>6. ToSet(u) \subseteq ToSet(v) /\ s[k] \in ToSet(v)
        BY <4>1, <4>2, <4>4 DEF ToSet
      <4>. QED  BY <4>5, <4>6 DEF u, v
    <3>3. \A x : x \in ToSet(SubSeq(s, a(h), k)) <=> \E l \in a(h)..k : x = s[l]
      <4>1. k \in 0..Len(s) /\ a(h) \in Nat \ {0}
        BY <1>3, <2>2, <2>3
      <4>. QED  BY <1>1, <4>1, PartProperties DEF IsPart
    <3>4. \A l \in a(h)..k : l \in a(h)..b(h) \/ l = k
      BY <2>2, <2>3
    <3>5. k \in a(h)..k /\ \A l \in a(h)..b(h) : l \in a(h)..k
      BY <2>2, <2>3
    <3>. QED  BY <2>2, <3>2, <3>3, <3>4, <3>5
  <2>. QED  BY <2>4, <2>7, <2>8 DEF Tokens, h
<1>. QED  BY <1>10, <1>11, <1>12 DEF Splits

\* The chunks of the archive are its conversations, whatever it holds, and a cut is
\* where a channel or a conversation ends or the budget says so
\* (chunk_by_conversation, _split_chunk).
THEOREM ChunksAreTrue == Spec => []ChunksAreConversations
<1>1. IngestInv => ChunksAreConversations
  <2>. SUFFICES ASSUME IngestInv PROVE ChunksAreConversations
    OBVIOUS
  <2> DEFINE cs == Chunks(Indexable)
  <2>1. Indexable \in SUBSET Messages
    BY StateDocuments
  <2>2. UNION {ToSet(c) : c \in ToSet(cs)} = Indexable
    <3>1. Apart(ToSet(cs), Indexable)
      BY <2>1, ChunksApart
    <3>. QED  BY <3>1 DEF Apart
  <2>3. \A i, j \in 1..Len(cs) : \A p \in 1..Len(cs[i]), q \in 1..Len(cs[j]) :
          i < j \/ (i = j /\ p < q) => <<cs[i][p], cs[j][q]>> \in Earlier
    BY <2>1, ChunksProperties DEF Chunking
  <2>4. \A i \in 1..Len(cs) : Splits(cs, i)
    BY <2>1, ChunksSplit
  <2> HIDE DEF cs
  <2>. QED  BY <2>2, <2>3, <2>4 DEF ChunksAreConversations, cs, Splits, Joined
<1>. QED  BY <1>1, IngestInvariance, PTL


-----------------------------------------------------------------------------
(* What the searches answer.                                               *)

\* A query without dates is about all times.
LEMMA AllTimes ==
  ASSUME NEW t, NEW a, NEW chans, NEW m \in Messages
  PROVE  Second[m] >= Query(t, a, chans).from /\ Second[m] <= Query(t, a, chans).until
<1> DEFINE T == {Second[n] : n \in Messages}
           U == {0} \cup T
           f == [n \in Messages |-> Second[n]]
<1>1. T \in SUBSET Nat /\ \A n \in Messages : Second[n] \in Nat /\ Second[n] \in T
  BY IngestAssumption
<1>2. IsFiniteSet(T)
  <2>1. f \in Surjection(Messages, T)
    BY DEF Surjection
  <2> HIDE DEF f, T
  <2>. QED  BY <2>1, RecordAssumption, FS_Surjection
<1>3. PICK N \in Nat : \A i \in T : i <= N
  <2> HIDE DEF T
  <2>. QED  BY <1>1, <1>2, BoundOfSet
<1>4. Query(t, a, chans).from = 0 /\ Query(t, a, chans).until = Max(U)
  BY DEF Query
<1>5. Second[m] \in U /\ U \in SUBSET (0..N) /\ U # {}
  <2> HIDE DEF T
  <2>1. \A i \in T : i \in 0..N
    BY <1>1, <1>3
  <2>. QED  BY <1>1, <2>1
<1> HIDE DEF U
<1>6. Second[m] <= Max(U)
  BY <1>5, MaxProperties
<1>. QED  BY <1>1, <1>4, <1>6

\* The lines of messages.
LEMMA LinesProperties ==
  ASSUME NEW S \in SUBSET Messages
  PROVE  /\ IsFiniteSet(Lines(S))
         /\ \A x \in Lines(S) : /\ x[1] \in S /\ x[2] \in Nat \ {0} /\ x = <<x[1], x[2]>>
                                /\ x \in Lines({x[1]}) /\ x \in Lines(Messages)
         /\ \A m \in S : /\ Lines({m}) \subseteq Lines(S) /\ <<m, 1>> \in Lines({m})
                         /\ Name(<<m, 1>>) = Author[m]
                         /\ \A x \in Lines({m}) : \A i \in 1..x[2] : <<m, i>> \in Lines({m})
<1>1. \A m \in Messages : /\ Len(Parts[m]) \in Nat \ {0} /\ DOMAIN Parts[m] = 1..Len(Parts[m])
                          /\ Parts[m][1].by = Author[m]
  BY IngestAssumption
<1>2. ASSUME NEW T, NEW x
      PROVE  x \in Lines(T) <=> \E m \in T : \E i \in DOMAIN Parts[m] : x = <<m, i>>
  BY DEF Lines
<1>3. IsFiniteSet(Lines(S))
  <2> DEFINE L(m) == {m} \X DOMAIN Parts[m]
             f == [m \in S |-> L(m)]
             C == {L(m) : m \in S}
  <2>1. IsFiniteSet(S)
    BY EarlierOrders
  <2>2. IsFiniteSet(C)
    <3>1. f \in Surjection(S, C)
      BY DEF Surjection
    <3> HIDE DEF f, C
    <3>. QED  BY <2>1, <3>1, FS_Surjection
  <2>3. ASSUME NEW m \in S
        PROVE  IsFiniteSet(L(m))
    <3> DEFINE D == DOMAIN Parts[m]
               O == {m}
    <3>1. PICK n \in Nat : D = 1..n
      BY <1>1
    <3> HIDE DEF D
    <3>2. IsFiniteSet(D)
      BY <3>1, FS_Interval
    <3>3. IsFiniteSet(O)
      BY FS_Singleton
    <3> HIDE DEF O
    <3>4. IsFiniteSet(O \X D)
      BY <3>2, <3>3, FS_Product
    <3>. QED  BY <3>4 DEF O, D
  <2>4. \A T \in C : IsFiniteSet(T)
    BY <2>3
  <2>5. Lines(S) = UNION C
    BY DEF Lines
  <2> HIDE DEF C
  <2>. QED  BY <2>2, <2>4, <2>5, FS_UNION
<1>4. ASSUME NEW x \in Lines(S)
      PROVE  /\ x[1] \in S /\ x[2] \in Nat \ {0} /\ x = <<x[1], x[2]>>
             /\ x \in Lines({x[1]}) /\ x \in Lines(Messages)
  <2>1. PICK m \in S : \E i \in DOMAIN Parts[m] : x = <<m, i>>
    BY <1>2
  <2>2. PICK i \in 1..Len(Parts[m]) : x = <<m, i>>
    BY <1>1, <2>1
  <2>3. x[1] = m /\ x[2] = i /\ x = <<x[1], x[2]>> /\ i \in DOMAIN Parts[m]
    BY <1>1, <2>2
  <2>4. i \in Nat \ {0}
    BY <1>1, <2>2
  <2>5. x \in Lines({m}) /\ x \in Lines(Messages)
    BY <1>2, <2>3, <2>2
  <2>. QED  BY <2>3, <2>4, <2>5
<1>5. ASSUME NEW m \in S
      PROVE  /\ Lines({m}) \subseteq Lines(S) /\ <<m, 1>> \in Lines({m})
             /\ Name(<<m, 1>>) = Author[m]
             /\ \A x \in Lines({m}) : \A i \in 1..x[2] : <<m, i>> \in Lines({m})
  <2>1. Lines({m}) \subseteq Lines(S)
    BY <1>2
  <2>2. 1 \in DOMAIN Parts[m]
    BY <1>1
  <2>3. Name(<<m, 1>>) = Author[m]
    BY <1>1 DEF Name
  <2>4. ASSUME NEW x \in Lines({m}), NEW i \in 1..x[2]
        PROVE  <<m, i>> \in Lines({m})
    <3>1. PICK j \in DOMAIN Parts[m] : x = <<m, j>>
      BY <1>2
    <3>2. j \in 1..Len(Parts[m]) /\ x[2] = j /\ Len(Parts[m]) \in Nat
      BY <1>1, <3>1
    <3>3. i \in 1..Len(Parts[m])
      BY <3>2
    <3>4. i \in DOMAIN Parts[m]
      BY <1>1, <3>3
    <3>. QED  BY <1>2, <3>4
  <2>. QED  BY <1>2, <2>1, <2>2, <2>3, <2>4
<1>. QED  BY <1>3, <1>4, <1>5

\* Every message of the archive is in one document, with messages of its channel
\* only, and the documents of a channel follow each other in time.
HoldsAll(ix) ==
  /\ \A m \in Indexable : \E k \in DOMAIN ix : m \in ToSet(ix[k])
  /\ \A k \in DOMAIN ix : /\ k \in Messages /\ k \in ToSet(ix[k]) /\ ToSet(ix[k]) \subseteq Indexable
                          /\ \A m \in ToSet(ix[k]) : Chan[m] = Chan[k]
  /\ \A j, k \in DOMAIN ix : j # k => ToSet(ix[j]) \cap ToSet(ix[k]) = {}
  /\ \A j, k \in DOMAIN ix : \A m \in ToSet(ix[j]), n \in ToSet(ix[k]) :
       Chan[j] = Chan[k] /\ Time[j] < Time[k] => Time[m] < Time[n]

\* Once everything was read by a run that finished, the index is complete.
LEMMA IndexCompletes ==
  ASSUME IngestInv, ~shifted, Indexable \subseteq done
  PROVE  HoldsAll(index)
<1>1. Indexable \in SUBSET Messages /\ \A k \in DOMAIN index : Document(index[k])
  BY StateDocuments
<1>2. \A k \in DOMAIN index : /\ Fits(index[k], Indexable) /\ Head(index[k]) = k
                              /\ ToSet(index[k]) \subseteq Indexable /\ k \in Messages
  BY DEF IngestInv, UnshiftedInv, DocumentInv, TypeOK
<1>3. \A m \in Indexable : \E k \in DOMAIN index : m \in ToSet(index[k])
  <2>1. Indexable \subseteq Indexed
    BY DEF IngestInv, UnshiftedInv
  <2>. QED  BY <2>1, StateDocuments
<1>4. ASSUME NEW k \in DOMAIN index
      PROVE  k \in ToSet(index[k]) /\ \A m \in ToSet(index[k]) : Chan[m] = Chan[k]
  <2>1. Document(index[k]) /\ Head(index[k]) = k
    BY <1>1, <1>2
  <2>2. PICK e \in ToSet(Chunks(Indexable)) : IsPrefix(index[k], e)
    BY <1>2 DEF Fits
  <2>3. InTime(index[k])
    BY <1>1, <2>1, <2>2, FitsProperties
  <2>. QED  BY <2>1, <2>3, DocumentEnds DEF InTime
<1>5. \A j, k \in DOMAIN index : j # k => ToSet(index[j]) \cap ToSet(index[k]) = {}
  BY <1>1, <1>2, CommonChunk
<1>6. ASSUME NEW j \in DOMAIN index, NEW k \in DOMAIN index,
             NEW m \in ToSet(index[j]), NEW n \in ToSet(index[k]),
             Chan[j] = Chan[k], Time[j] < Time[k]
      PROVE  Time[m] < Time[n]
  <2>1. PICK e \in ToSet(Chunks(Indexable)) : IsPrefix(index[j], e)
    BY <1>2 DEF Fits
  <2>2. PICK f \in ToSet(Chunks(Indexable)) : IsPrefix(index[k], f)
    BY <1>2 DEF Fits
  <2>3. Document(index[j]) /\ Document(index[k]) /\ Head(index[j]) = j /\ Head(index[k]) = k
    BY <1>1, <1>2
  <2>4. Head(e) = j /\ m \in ToSet(e)
    BY <1>1, <2>1, <2>3, FitsProperties
  <2>5. Head(f) = k /\ n \in ToSet(f)
    BY <1>1, <2>2, <2>3, FitsProperties
  <2>6. Time[j] # Time[k]
    BY <1>2, <1>6, RecordAssumption
  <2>7. e # f
    BY <2>4, <2>5, <2>6
  <2>. QED  BY <1>1, <1>6, <2>4, <2>5, <2>7, ChunksApart DEF Apart
<1>. QED  BY <1>2, <1>3, <1>4, <1>5, <1>6 DEF HoldsAll

Hits(q) == {k \in DOMAIN index : Prefilter(q, index[k])}

\* Which documents a query reaches, and that the scan is not cut off if there are
\* few enough of them.
LEMMA ScanProperties ==
  ASSUME IngestInv, NEW t, NEW a, NEW chans, NEW q, q = Query(t, a, chans)
  PROVE  /\ \A k \in DOMAIN index :
              k \in Hits(q) <=> /\ Chan[k] \in chans
                                /\ \E x \in Lines(ToSet(index[k])) : q.author \in {Unset, Name(x)}
                                /\ \E x \in Lines(ToSet(index[k])) : q.term \in {Unset} \cup Words(x)
         /\ IsFiniteSet(Hits(q))
         /\ Cardinality(Hits(q)) <= MaxScan => Scan(q) = Hits(q)
<1>1. q.chans = chans
  BY DEF Query
<1>2. ASSUME NEW k \in DOMAIN index
      PROVE  /\ Head(index[k]) = k
             /\ Second[Head(index[k])] >= q.from /\ Second[Last(index[k])] <= q.until
  <2>1. Document(index[k]) /\ Head(index[k]) = k /\ k \in Messages
    BY StateDocuments DEF IngestInv, DocumentInv, TypeOK
  <2>2. Last(index[k]) \in Messages
    <3>1. Len(index[k]) \in 1..Len(index[k])
      BY <2>1, DocumentEnds
    <3>2. index[k][Len(index[k])] \in Messages
      BY <2>1, <3>1, DocumentEnds
    <3>. QED  BY <3>2 DEF Last
  <2>. QED  BY <2>1, <2>2, AllTimes
<1>3. \A k \in DOMAIN index :
        k \in Hits(q) <=> /\ Chan[k] \in chans
                          /\ \E x \in Lines(ToSet(index[k])) : q.author \in {Unset, Name(x)}
                          /\ \E x \in Lines(ToSet(index[k])) : q.term \in {Unset} \cup Words(x)
  BY <1>1, <1>2 DEF Hits, Prefilter
<1>4. IsFiniteSet(Hits(q))
  <2>1. Hits(q) \in SUBSET Messages
    BY DEF Hits, IngestInv, TypeOK
  <2>. QED  BY <2>1, EarlierOrders
<1>5. Cardinality(Hits(q)) <= MaxScan => Scan(q) = Hits(q)
  BY DEF Scan, Hits
<1>. QED  BY <1>3, <1>4, <1>5


\* A line of a recognised message is read as part of a message that starts in it, and
\* if nothing else starts one, of the message itself.
LEMMA ReadBack ==
  ASSUME NEW d, ToSet(d) \subseteq Messages, Firsts(d) \subseteq Starts(d), NEW m \in ToSet(d)
  PROVE  /\ \A y \in Lines({m}) : \E x \in Starts(d) : x[1] = m /\ y \in Continues(d, x)
         /\ Firsts(d) = Starts(d) => Continues(d, <<m, 1>>) = Lines({m})
<1>1. \A x \in Starts(d) : x \in Lines(ToSet(d)) /\ x[1] \in ToSet(d) /\ x[2] \in Nat \ {0} /\ x = <<x[1], x[2]>>
  BY LinesProperties DEF Starts
<1>2. \A n \in ToSet(d) : <<n, 1>> \in Starts(d)
  BY DEF Firsts
<1>3. \A x \in Lines({m}) : x[1] = m /\ x[2] \in Nat \ {0} /\ x = <<m, x[2]>> /\ x \in Lines(ToSet(d))
  <2>1. {m} \in SUBSET Messages /\ Lines({m}) \subseteq Lines(ToSet(d))
    BY LinesProperties
  <2>2. \A x \in Lines({m}) : x[1] \in {m} /\ x[2] \in Nat \ {0} /\ x = <<x[1], x[2]>>
    BY <2>1, LinesProperties
  <2>. QED  BY <2>1, <2>2
<1>4. \A x \in Messages : <<x, x>> \notin Earlier
  BY EarlierOrders DEF Orders
<1>5. \A x, y \in Messages : x = y \/ <<x, y>> \in Earlier \/ <<y, x>> \in Earlier
  BY EarlierOrders DEF Orders
<1>6. ASSUME NEW y \in Lines({m})
      PROVE  \E x \in Starts(d) : x[1] = m /\ y \in Continues(d, x)
  <2> DEFINE T == {i \in 1..y[2] : <<m, i>> \in Starts(d)}
             j == Max(T)
  <2>1. y[2] \in Nat \ {0}
    BY <1>3
  <2>2. 1 \in T /\ T \in SUBSET (0..y[2])
    BY <1>2, <2>1
  <2>3. \A i \in 1..y[2] : <<m, i>> \in Starts(d) => i \in T
    OBVIOUS
  <2>4. \A i \in T : i \in 1..y[2] /\ <<m, i>> \in Starts(d)
    OBVIOUS
  <2> HIDE DEF T
  <2>5. j \in T /\ j \in Nat /\ \A i \in T : i <= j
    BY <2>1, <2>2, MaxProperties
  <2> HIDE DEF j
  <2>6. j \in 1..y[2] /\ <<m, j>> \in Starts(d)
    BY <2>4, <2>5
  <2>7. y \in Lines(ToSet(d)) /\ y = <<m, y[2]>>
    BY <1>3
  <2>8. <<m, j>> = y \/ Above(<<m, j>>, y)
    <3>1. j = y[2] \/ j < y[2]
      BY <2>1, <2>6
    <3>. QED  BY <2>7, <3>1 DEF Above
  <2>9. ASSUME NEW z \in Starts(d), Above(<<m, j>>, z)
        PROVE  Above(y, z)
    <3>1. <<m, z[1]>> \in Earlier \/ (m = z[1] /\ j < z[2])
      BY <2>9 DEF Above
    <3>2. CASE <<m, z[1]>> \in Earlier
      BY <2>7, <3>2 DEF Above
    <3>3. CASE m = z[1] /\ j < z[2]
      <4>1. z[2] \in Nat \ {0} /\ <<m, z[2]>> \in Starts(d)
        BY <1>1, <3>3
      <4>2. z[2] \notin 1..y[2]
        BY <2>3, <2>5, <3>3, <4>1
      <4>3. y[2] < z[2]
        BY <2>1, <4>1, <4>2
      <4>4. y[1] = z[1]
        BY <2>7, <3>3
      <4>. QED  BY <4>3, <4>4 DEF Above
    <3>. QED  BY <3>1, <3>2, <3>3
  <2>10. y \in Continues(d, <<m, j>>)
    BY <2>7, <2>8, <2>9 DEF Continues
  <2>. QED  BY <2>6, <2>10
<1>7. ASSUME Firsts(d) = Starts(d)
      PROVE  Continues(d, <<m, 1>>) = Lines({m})
  <2>1. \A z \in Starts(d) : z[1] \in ToSet(d) /\ z = <<z[1], 1>> /\ z[2] = 1
    BY <1>7 DEF Firsts
  <2>2. ASSUME NEW y \in Lines({m})
        PROVE  y \in Continues(d, <<m, 1>>)
    <3>1. PICK x \in Starts(d) : x[1] = m /\ y \in Continues(d, x)
      BY <1>6
    <3>. QED  BY <2>1, <3>1
  <2>3. ASSUME NEW y \in Continues(d, <<m, 1>>)
        PROVE  y \in Lines({m})
    <3>1. /\ y \in Lines(ToSet(d))
          /\ <<m, 1>> = y \/ (Above(<<m, 1>>, y) /\ \A z \in Starts(d) : Above(<<m, 1>>, z) => Above(y, z))
      BY DEF Continues
    <3>2. /\ y[1] \in ToSet(d) /\ y[1] \in Messages /\ y[2] \in Nat \ {0} /\ y \in Lines({y[1]})
      BY <3>1, LinesProperties
    <3>3. SUFFICES ASSUME y[1] # m PROVE FALSE
      BY <3>2
    <3>4. <<m, 1>> # y
      BY <3>3
    <3>5. <<m, y[1]>> \in Earlier
      BY <3>1, <3>3, <3>4 DEF Above
    <3>6. Above(<<m, 1>>, <<y[1], 1>>)
      BY <3>5 DEF Above
    <3>7. Above(y, <<y[1], 1>>)
      BY <1>2, <3>1, <3>2, <3>4, <3>6
    <3>8. <<y[1], y[1]>> \in Earlier \/ y[2] < 1
      BY <3>7 DEF Above
    <3>. QED  BY <1>4, <3>2, <3>8
  <2>. QED  BY <2>2, <2>3
<1>. QED  BY <1>6, <1>7

\* What a document says of its messages: it has a match just if one of them is, and at
\* least one for each of them; if it is read back as they are, one for each of them.
Holds(q, d) == MatchesIn(q, d) # {} <=> \E m \in ToSet(d) : Speaks(q, m) /\ SaysIt(q, m)
Covers(q, d) ==
  \A m \in ToSet(d) : Speaks(q, m) /\ SaysIt(q, m) => \E x \in MatchesIn(q, d) : x[1] = m
Tells(q, d) == MatchesIn(q, d) = {<<m, 1>> : m \in {n \in ToSet(d) : Speaks(q, n) /\ SaysIt(q, n)}}

LEMMA DocumentTells ==
  ASSUME NEW q, NEW d, ToSet(d) \subseteq Messages
  PROVE  /\ Firsts(d) \subseteq Starts(d) /\ q.author = Unset => Holds(q, d) /\ Covers(q, d)
         /\ Firsts(d) = Starts(d) => Holds(q, d) /\ Tells(q, d)
<1>1. \A m \in ToSet(d) : Name(<<m, 1>>) = Author[m]
  BY LinesProperties
<1>2. ASSUME Firsts(d) \subseteq Starts(d), q.author = Unset
      PROVE  Holds(q, d) /\ Covers(q, d)
  <2>1. ASSUME NEW m \in ToSet(d), SaysIt(q, m)
        PROVE  \E x \in MatchesIn(q, d) : x[1] = m
    <3>1. PICK y \in Lines({m}) : q.term \in {Unset} \cup Words(y)
      BY <2>1 DEF SaysIt
    <3>2. PICK x \in Starts(d) : x[1] = m /\ y \in Continues(d, x)
      BY <1>2, ReadBack
    <3>3. x \in MatchesIn(q, d)
      BY <1>2, <3>1, <3>2 DEF MatchesIn
    <3>. QED  BY <3>2, <3>3
  <2>2. ASSUME NEW x \in MatchesIn(q, d)
        PROVE  \E m \in ToSet(d) : SaysIt(q, m)
    <3>1. PICK y \in Continues(d, x) : q.term \in {Unset} \cup Words(y)
      BY DEF MatchesIn
    <3>2. y \in Lines(ToSet(d))
      BY DEF Continues
    <3>3. y[1] \in ToSet(d) /\ y \in Lines({y[1]})
      BY <3>2, LinesProperties
    <3>4. SaysIt(q, y[1])
      BY <3>1, <3>3 DEF SaysIt
    <3>. QED  BY <3>3, <3>4
  <2>3. \A m : Speaks(q, m)
    BY <1>2 DEF Speaks
  <2>. QED  BY <2>1, <2>2, <2>3 DEF Holds, Covers
<1>3. ASSUME Firsts(d) = Starts(d)
      PROVE  Holds(q, d) /\ Tells(q, d)
  <2>1. \A m \in ToSet(d) : Continues(d, <<m, 1>>) = Lines({m})
    BY <1>3, ReadBack
  <2>2. \A x \in Starts(d) : \E m \in ToSet(d) : x = <<m, 1>>
    BY <1>3 DEF Firsts
  <2>3. \A m \in ToSet(d) : <<m, 1>> \in Starts(d)
    BY <1>3 DEF Firsts
  <2>4. ASSUME NEW m \in ToSet(d)
        PROVE  <<m, 1>> \in MatchesIn(q, d) <=> Speaks(q, m) /\ SaysIt(q, m)
    <3>1. <<m, 1>> \in MatchesIn(q, d) <=>
             /\ q.author \in {Unset, Author[m]}
             /\ \E y \in Lines({m}) : q.term \in {Unset} \cup Words(y)
      BY <1>1, <2>1, <2>3 DEF MatchesIn
    <3>. QED  BY <3>1 DEF Speaks, SaysIt
  <2>5. MatchesIn(q, d) \subseteq Starts(d)
    BY DEF MatchesIn
  <2>6. Tells(q, d)
    BY <2>2, <2>4, <2>5 DEF Tells
  <2>. QED  BY <2>6 DEF Holds, Tells
<1>. QED  BY <1>2, <1>3

Matching(q, chans) == {m \in Indexable : Chan[m] \in chans /\ Speaks(q, m) /\ SaysIt(q, m)}

\* The documents that the scan reaches are of the channels, and every match in the
\* archive is in one of them.
LEMMA ScanFindsMatches ==
  ASSUME IngestInv, HoldsAll(index), NEW t, NEW a, NEW chans, NEW q, q = Query(t, a, chans),
         Cardinality(Hits(q)) <= MaxScan
  PROVE  /\ Scan(q) \subseteq DOMAIN index /\ IsFiniteSet(Scan(q))
         /\ \A k \in Scan(q) : /\ Chan[k] \in chans /\ ToSet(index[k]) \subseteq Messages
                               /\ \A m \in ToSet(index[k]) :
                                    /\ Chan[m] = Chan[k]
                                    /\ Speaks(q, m) /\ SaysIt(q, m) => m \in Matching(q, chans)
         /\ \A m \in Matching(q, chans) :
              /\ Speaks(q, m) /\ SaysIt(q, m)
              /\ \E k \in Scan(q) : m \in ToSet(index[k])
<1>1. Scan(q) = Hits(q) /\ IsFiniteSet(Scan(q))
  BY ScanProperties
<1>2. Scan(q) \subseteq DOMAIN index
  BY <1>1 DEF Hits
<1>3. \A k \in DOMAIN index :
        k \in Scan(q) <=> /\ Chan[k] \in chans
                          /\ \E x \in Lines(ToSet(index[k])) : q.author \in {Unset, Name(x)}
                          /\ \E x \in Lines(ToSet(index[k])) : q.term \in {Unset} \cup Words(x)
  BY <1>1, ScanProperties
<1>4. Indexable \subseteq Messages
  BY StateDocuments
<1>5. \A k \in DOMAIN index : ToSet(index[k]) \subseteq Messages
  BY <1>4 DEF HoldsAll
<1>6. ASSUME NEW k \in Scan(q)
      PROVE  /\ Chan[k] \in chans /\ ToSet(index[k]) \subseteq Messages
             /\ \A m \in ToSet(index[k]) :
                  /\ Chan[m] = Chan[k]
                  /\ Speaks(q, m) /\ SaysIt(q, m) => m \in Matching(q, chans)
  <2>1. k \in DOMAIN index /\ Chan[k] \in chans
    BY <1>2, <1>3
  <2>2. ToSet(index[k]) \subseteq Indexable /\ \A m \in ToSet(index[k]) : Chan[m] = Chan[k]
    BY <2>1 DEF HoldsAll
  <2>. QED  BY <1>5, <2>1, <2>2 DEF Matching
<1>7. ASSUME NEW m \in Matching(q, chans)
      PROVE  \E k \in Scan(q) : m \in ToSet(index[k])
  <2>1. m \in Indexable /\ Chan[m] \in chans /\ Speaks(q, m) /\ SaysIt(q, m)
    BY DEF Matching
  <2>2. PICK k \in DOMAIN index : m \in ToSet(index[k])
    BY <2>1 DEF HoldsAll
  <2>3. Chan[k] \in chans
    BY <2>1, <2>2 DEF HoldsAll
  <2>4. <<m, 1>> \in Lines(ToSet(index[k])) /\ Name(<<m, 1>>) = Author[m] /\ Lines({m}) \subseteq Lines(ToSet(index[k]))
    BY <1>5, <2>2, LinesProperties
  <2>5. \E x \in Lines(ToSet(index[k])) : q.author \in {Unset, Name(x)}
    BY <2>1, <2>4 DEF Speaks
  <2>6. \E x \in Lines(ToSet(index[k])) : q.term \in {Unset} \cup Words(x)
    BY <2>1, <2>4 DEF SaysIt
  <2>. QED  BY <1>3, <2>2, <2>3, <2>5, <2>6
<1>8. \A m \in Matching(q, chans) : Speaks(q, m) /\ SaysIt(q, m)
  BY DEF Matching
<1>. QED  BY <1>1, <1>2, <1>6, <1>7, <1>8

\* What is counted document by document is what the archive has, if nothing else is
\* read back from the documents.
LEMMA CountIsTrue ==
  ASSUME IngestInv, HoldsAll(index), NEW t, NEW a, NEW chans, NEW q, q = Query(t, a, chans),
         Cardinality(Hits(q)) <= MaxScan, Plain(chans), NEW g
  PROVE  /\ CountBy(q, g) = Cardinality({m \in Matching(q, chans) : Author[m] = g})
         /\ CountIn(q, g) = Cardinality({m \in Matching(q, chans) : Chan[m] = g})
<1> DEFINE real == Matching(q, chans)
           C == Counted(q)
           P == {p \in C : Name(p[2]) = g}
           R == {m \in real : Author[m] = g}
           U == {p \in C : Chan[p[1]] = g}
           V == {m \in real : Chan[m] = g}
<1>1. real \subseteq Messages
  BY StateDocuments DEF Matching
<1>2. R \in SUBSET Messages /\ V \in SUBSET Messages
  BY <1>1
<1>3. ASSUME NEW k \in Scan(q)
      PROVE  Tells(q, index[k]) /\ k \in DOMAIN index
  <2>1. Firsts(index[k]) = Starts(index[k]) /\ ToSet(index[k]) \subseteq Messages /\ k \in DOMAIN index
    BY ScanFindsMatches DEF Plain
  <2>. QED  BY <2>1, DocumentTells
<1>4. ASSUME NEW p \in C
      PROVE  /\ p = <<p[1], p[2]>> /\ p[1] \in Scan(q) /\ p[1] \in DOMAIN index
             /\ p[2][1] \in real /\ p[2][1] \in ToSet(index[p[1]]) /\ p[2] = <<p[2][1], 1>>
             /\ Name(p[2]) = Author[p[2][1]] /\ Chan[p[1]] = Chan[p[2][1]]
  <2>1. p = <<p[1], p[2]>> /\ p[1] \in Scan(q) /\ p[2] \in MatchesIn(q, index[p[1]])
    BY DEF Counted
  <2>2. PICK m \in ToSet(index[p[1]]) : p[2] = <<m, 1>> /\ Speaks(q, m) /\ SaysIt(q, m)
    BY <1>3, <2>1 DEF Tells
  <2>3. m \in real /\ Chan[m] = Chan[p[1]] /\ m \in Messages
    BY <2>1, <2>2, ScanFindsMatches
  <2>4. Name(<<m, 1>>) = Author[m]
    BY <2>3, LinesProperties
  <2>. QED  BY <1>3, <2>1, <2>2, <2>3, <2>4
<1>5. ASSUME NEW m \in real
      PROVE  \E p \in C : p[2][1] = m /\ Name(p[2]) = Author[m] /\ Chan[p[1]] = Chan[m]
  <2>1. PICK k \in Scan(q) : m \in ToSet(index[k])
    BY ScanFindsMatches
  <2>2. Speaks(q, m) /\ SaysIt(q, m) /\ Chan[m] = Chan[k] /\ m \in Messages
    BY <1>1, <2>1, ScanFindsMatches
  <2>3. <<m, 1>> \in MatchesIn(q, index[k])
    BY <1>3, <2>1, <2>2 DEF Tells
  <2>4. <<m, 1>> \in Lines(Messages) /\ Name(<<m, 1>>) = Author[m]
    BY <2>2, LinesProperties
  <2>5. <<k, <<m, 1>>>> \in C
    BY <2>1, <2>3, <2>4 DEF Counted
  <2>. QED  BY <2>2, <2>4, <2>5
<1>6. CountBy(q, g) = Cardinality(P) /\ CountIn(q, g) = Cardinality(U)
  BY DEF CountBy, CountIn
<1> HIDE DEF C, real
<1>7. ASSUME NEW p \in C, NEW r \in C, p[2][1] = r[2][1]
      PROVE  p = r
  <2>1. p[1] = r[1]
    BY <1>4, <1>7 DEF HoldsAll
  <2>2. p[2] = r[2]
    BY <1>4, <1>7
  <2>. QED  BY <1>4, <2>1, <2>2
<1>8. \A p \in P : p[2][1] \in R
  BY <1>4
<1>9. \A m \in R : \E p \in P : p[2][1] = m
  BY <1>5
<1>10. \A p \in U : p[2][1] \in V
  BY <1>4
<1>11. \A m \in V : \E p \in U : p[2][1] = m
  BY <1>5
<1>12. P \subseteq C /\ U \subseteq C
  OBVIOUS
<1>13. Cardinality(P) = Cardinality(R)
  <2> HIDE DEF P, R
  <2>1. IsFiniteSet(R)
    BY <1>2, EarlierOrders
  <2>. QED  BY <1>7, <1>8, <1>9, <1>12, <2>1, PairsCounted
<1>14. Cardinality(U) = Cardinality(V)
  <2> HIDE DEF U, V
  <2>1. IsFiniteSet(V)
    BY <1>2, EarlierOrders
  <2>. QED  BY <1>7, <1>10, <1>11, <1>12, <2>1, PairsCounted
<1>. QED  BY <1>6, <1>13, <1>14 DEF real

\* What is counted in a channel is no less than the archive has, if its messages are
\* recognised.
LEMMA CountIsEnough ==
  ASSUME IngestInv, HoldsAll(index), NEW t, NEW chans, NEW q, q = Query(t, Unset, chans),
         Cardinality(Hits(q)) <= MaxScan, Recognised(chans), NEW g
  PROVE  CountIn(q, g) >= Cardinality({m \in Matching(q, chans) : Chan[m] = g})
<1> DEFINE U == {p \in Counted(q) : Chan[p[1]] = g}
           V == {m \in Matching(q, chans) : Chan[m] = g}
<1>1. IsFiniteSet(U)
  <2>1. IsFiniteSet(Scan(q)) /\ IsFiniteSet(Lines(Messages))
    BY ScanFindsMatches, LinesProperties
  <2>2. IsFiniteSet(Scan(q) \X Lines(Messages))
    BY <2>1, FS_Product
  <2>3. U \in SUBSET (Scan(q) \X Lines(Messages))
    BY DEF Counted
  <2> HIDE DEF U
  <2>. QED  BY <2>2, <2>3, FS_Subset
<1>2. ASSUME NEW m \in V
      PROVE  \E p \in U : p[2][1] = m
  <2>1. PICK k \in Scan(q) : m \in ToSet(index[k])
    BY ScanFindsMatches
  <2>2. /\ Speaks(q, m) /\ SaysIt(q, m) /\ Chan[m] = Chan[k] /\ Chan[k] \in chans
        /\ k \in DOMAIN index /\ ToSet(index[k]) \subseteq Messages
    BY <2>1, ScanFindsMatches
  <2>3. q.author = Unset
    BY DEF Query
  <2>4. Covers(q, index[k])
    BY <2>2, <2>3, DocumentTells DEF Recognised
  <2>5. PICK x \in MatchesIn(q, index[k]) : x[1] = m
    BY <2>1, <2>2, <2>4 DEF Covers
  <2>6. x \in Lines(Messages)
    BY <2>2, LinesProperties DEF MatchesIn, Starts
  <2>7. <<k, x>> \in U
    BY <2>1, <2>2, <2>5, <2>6 DEF Counted
  <2>. QED  BY <2>5, <2>7
<1>3. Cardinality(V) <= Cardinality(U)
  <2> HIDE DEF U, V
  <2>. QED  BY <1>1, <1>2, PairsCover
<1>4. IsFiniteSet(V)
  <2>1. V \in SUBSET Messages
    BY StateDocuments DEF Matching
  <2> HIDE DEF V
  <2>. QED  BY <2>1, EarlierOrders
<1>5. Cardinality(U) \in Nat /\ Cardinality(V) \in Nat
  BY <1>1, <1>4, FS_CardinalityType
<1>6. CountIn(q, g) = Cardinality(U)
  BY DEF CountIn
<1> HIDE DEF U
<1>. QED  BY <1>3, <1>5, <1>6

LEMMA CountsFollow ==
  ASSUME IngestInv
  PROVE  CountsAreTrue
<1>. SUFFICES ASSUME ~shifted, Indexable \subseteq done,
                     NEW t \in Terms \cup {Unset}, NEW chans \in SUBSET Channels,
                     Cardinality(Hits(Query(t, Unset, chans))) <= MaxScan
              PROVE  LET q == Query(t, Unset, chans)
                         real == {m \in Indexable : Chan[m] \in chans /\ SaysIt(q, m)}
                     IN  /\ Plain(chans) =>
                              \A a \in Authors :
                                /\ CountBy(q, a) = Cardinality({m \in real : Author[m] = a})
                                /\ CountBy(Query(t, a, chans), a) =
                                     Cardinality({m \in real : Author[m] = a})
                         /\ Plain(chans) =>
                              \A c \in Channels : CountIn(q, c) = Cardinality({m \in real : Chan[m] = c})
                         /\ Recognised(chans) =>
                              \A c \in Channels : CountIn(q, c) >= Cardinality({m \in real : Chan[m] = c})
  BY DEF CountsAreTrue, Hits
<1> DEFINE q == Query(t, Unset, chans)
           real == {m \in Indexable : Chan[m] \in chans /\ SaysIt(q, m)}
<1>1. HoldsAll(index)
  BY IndexCompletes
<1>2. q.author = Unset /\ q.term = t /\ q = Query(t, Unset, chans)
  BY DEF Query
<1>3. Matching(q, chans) = real
  BY <1>2 DEF Matching, Speaks
<1>4. Cardinality(Hits(q)) <= MaxScan
  OBVIOUS
<1>5. ASSUME Plain(chans), NEW g
      PROVE  /\ CountBy(q, g) = Cardinality({m \in real : Author[m] = g})
             /\ CountIn(q, g) = Cardinality({m \in real : Chan[m] = g})
  <2> HIDE DEF q, real
  <2>1. /\ CountBy(q, g) = Cardinality({m \in Matching(q, chans) : Author[m] = g})
        /\ CountIn(q, g) = Cardinality({m \in Matching(q, chans) : Chan[m] = g})
    BY <1>1, <1>2, <1>4, <1>5, CountIsTrue
  <2>. QED  BY <1>3, <2>1
<1>6. Plain(chans) => \A c \in Channels : CountIn(q, c) = Cardinality({m \in real : Chan[m] = c})
  BY <1>5
<1>7. Recognised(chans) => \A c \in Channels : CountIn(q, c) >= Cardinality({m \in real : Chan[m] = c})
  <2> HIDE DEF q, real
  <2>. QED  BY <1>1, <1>2, <1>3, <1>4, CountIsEnough
<1>8. ASSUME Plain(chans), NEW a \in Authors
      PROVE  CountBy(Query(t, a, chans), a) = Cardinality({m \in real : Author[m] = a})
  <2> DEFINE r == Query(t, a, chans)
  <2>1. r.author = a /\ r.term = t /\ r = Query(t, a, chans)
    BY DEF Query
  <2>2. \A m : SaysIt(r, m) <=> SaysIt(q, m)
    BY <1>2, <2>1 DEF SaysIt
  <2>3. {m \in Matching(r, chans) : Author[m] = a} = {m \in real : Author[m] = a}
    BY <2>1, <2>2 DEF Matching, Speaks
  <2> HIDE DEF r, q, real
  <2>4. Hits(r) \in SUBSET Hits(q)
    <3>1. \A k \in DOMAIN index : k \in Hits(r) =>
             /\ Chan[k] \in chans
             /\ \E x \in Lines(ToSet(index[k])) : r.term \in {Unset} \cup Words(x)
      BY <2>1, ScanProperties
    <3>2. \A k \in DOMAIN index : /\ Chan[k] \in chans
                                  /\ \E x \in Lines(ToSet(index[k])) : q.author \in {Unset, Name(x)}
                                  /\ \E x \in Lines(ToSet(index[k])) : q.term \in {Unset} \cup Words(x)
                                  => k \in Hits(q)
      BY <1>2, ScanProperties
    <3>3. Hits(r) \subseteq DOMAIN index
      BY DEF Hits
    <3>. QED  BY <1>2, <2>1, <3>1, <3>2, <3>3
  <2>5. Cardinality(Hits(r)) <= MaxScan
    <3>1. IsFiniteSet(Hits(q))
      BY <1>2, ScanProperties
    <3>2. Cardinality(Hits(r)) <= Cardinality(Hits(q)) /\ Cardinality(Hits(r)) \in Nat /\ Cardinality(Hits(q)) \in Nat
      BY <2>4, <3>1, FS_Subset, FS_CardinalityType
    <3>. QED  BY <1>4, <3>2, IngestAssumption
  <2>6. /\ CountBy(r, a) = Cardinality({m \in Matching(r, chans) : Author[m] = a})
        /\ CountIn(r, a) = Cardinality({m \in Matching(r, chans) : Chan[m] = a})
    BY <1>1, <1>8, <2>1, <2>5, CountIsTrue
  <2>. QED  BY <2>3, <2>6 DEF r
<1>. QED  BY <1>5, <1>6, <1>7, <1>8


\* The first entry of a list by an order is before all the others.
IsHead(j, found, S, R) ==
  /\ Head(SubSeq(found, 1, Min({1, Len(found)}))) = j
  /\ \A k \in S : k = j \/ <<j, k>> \in R

LEMMA HeadOfList ==
  ASSUME NEW S \in SUBSET Messages, S # {}, NEW R, Orders(R, S), NEW found, found = InOrder(S, R)
  PROVE  \E j \in S : IsHead(j, found, S, R)
<1>1. IsFiniteSet(S)
  BY EarlierOrders
<1>2. Lists(found, S, R)
  BY <1>1, InOrderProperties
<1>3. found \in Seq(S) /\ Len(found) \in Nat
  BY <1>2 DEF Lists
<1>4. Len(found) # 0
  BY <1>2, <1>3 DEF Lists
<1>5. 1 \in 1..Len(found) /\ 1 \in 0..Len(found) /\ 1 \in Nat \ {0}
  BY <1>3, <1>4
<1>6. Min({1, Len(found)}) = 1
  <2>1. {1, Len(found)} \in SUBSET Nat /\ {1, Len(found)} # {} /\ 1 <= Len(found)
    BY <1>3, <1>4
  <2>2. Min({1, Len(found)}) \in {1, Len(found)} /\ Min({1, Len(found)}) <= 1
    BY <2>1, MinProperties
  <2>. QED  BY <1>3, <2>1, <2>2
<1>7. Head(SubSeq(found, 1, 1)) = found[1]
  <2> DEFINE u == SubSeq(found, 1, 1)
  <2>1. IsPart(u, S, found, 1, 1)
    BY <1>3, <1>5, PartProperties
  <2> HIDE DEF u
  <2>2. u \in Seq(S) /\ Len(u) = 1 /\ \A i \in 1..Len(u) : u[i] = found[1 + i - 1]
    BY <2>1 DEF IsPart
  <2>3. 1 \in 1..Len(u) /\ 1 + 1 - 1 = 1
    BY <2>2
  <2>4. u[1] = found[1] /\ Head(u) = u[1]
    BY <2>2, <2>3
  <2>. QED  BY <2>4 DEF u
<1>8. found[1] \in S
  BY <1>3, <1>5
<1>9. ASSUME NEW k \in S
      PROVE  k = found[1] \/ <<found[1], k>> \in R
  <2>1. PICK i \in 1..Len(found) : k = found[i]
    BY <1>2 DEF Lists
  <2>2. CASE i = 1
    BY <2>1, <2>2
  <2>3. CASE 1 < i
    BY <1>2, <1>5, <2>1, <2>3 DEF Lists
  <2>. QED  BY <1>3, <2>2, <2>3
<1>. QED  BY <1>6, <1>7, <1>8, <1>9 DEF IsHead

\* Documents are ordered by the second they start in, either way, and by rank.
LEMMA SecondOrders ==
  ASSUME NEW S \in SUBSET Messages, NEW R,
         \/ \A j, k \in S : <<j, k>> \in R <=>
              (Second[j] = Second[k] /\ Rank[j] < Rank[k]) \/ Second[j] < Second[k]
         \/ \A j, k \in S : <<j, k>> \in R <=>
              (Second[j] = Second[k] /\ Rank[j] < Rank[k]) \/ Second[j] > Second[k]
  PROVE  Orders(R, S)
<1>1. \A k \in S : Second[k] \in Nat /\ Rank[k] \in Nat
  BY IngestAssumption
<1>2. \A x \in S : <<x, x>> \notin R
  BY <1>1
<1>3. \A x, y, z \in S : <<x, y>> \in R /\ <<y, z>> \in R => <<x, z>> \in R
  BY <1>1
<1>4. \A x, y \in S : x = y \/ <<x, y>> \in R \/ <<y, x>> \in R
  <2>. TAKE x, y \in S
  <2>1. x # y => Rank[x] # Rank[y]
    BY IngestAssumption
  <2>2. CASE Second[x] = Second[y]
    BY <1>1, <2>1, <2>2
  <2>3. CASE Second[x] # Second[y]
    BY <1>1, <2>3
  <2>. QED  BY <2>2, <2>3
<1>. QED  BY <1>2, <1>3, <1>4 DEF Orders

\* The times of messages have a least and a greatest.
LEMMA EndsOfTime ==
  ASSUME NEW S \in SUBSET Messages, S # {}
  PROVE  /\ \E m \in S : \A n \in S : Time[m] <= Time[n]
         /\ \E m \in S : \A n \in S : Time[m] >= Time[n]
<1> DEFINE T == {Time[n] : n \in S}
           f == [n \in S |-> Time[n]]
<1>1. T \in SUBSET Nat /\ T # {} /\ \A n \in S : Time[n] \in Nat /\ Time[n] \in T
  BY RecordAssumption
<1>2. \A i \in T : \E n \in S : i = Time[n]
  OBVIOUS
<1>3. IsFiniteSet(T)
  <2>1. f \in Surjection(S, T)
    BY DEF Surjection
  <2>2. IsFiniteSet(S)
    BY EarlierOrders
  <2> HIDE DEF f, T
  <2>. QED  BY <2>1, <2>2, FS_Surjection
<1> HIDE DEF T
<1>4. PICK i \in T : \A j \in T : i <= j
  BY <1>1, LeastOfSet
<1>5. PICK N \in Nat : \A j \in T : j <= N
  BY <1>1, <1>3, BoundOfSet
<1>6. T \in SUBSET (0..N)
  BY <1>1, <1>5
<1>7. Max(T) \in T /\ Max(T) \in Nat /\ \A j \in T : j <= Max(T)
  BY <1>1, <1>6, MaxProperties
<1>8. PICK m \in S : i = Time[m]
  BY <1>2
<1>9. PICK n \in S : Max(T) = Time[n]
  BY <1>2, <1>7
<1>10. \A x \in S : Time[m] <= Time[x]
  BY <1>1, <1>4, <1>8
<1>11. \A x \in S : Time[n] >= Time[x]
  BY <1>1, <1>7, <1>9
<1>. QED  BY <1>10, <1>11


\* The first document of an answer starts when the one does that has the message.
StartsWith(m, j) == \E k \in DOMAIN index : m \in ToSet(index[k]) /\ Second[k] = Second[j]
AtTheHead(q, first, newest) ==
  /\ StartsWith(first, Head(SearchLiteral(q, "earliest", 1)))
  /\ StartsWith(newest, Head(SearchLiteral(q, "latest", 1)))

LEMMA FirstIsAtTheHead ==
  ASSUME IngestInv, HoldsAll(index), NEW t, NEW a, NEW c, NEW q, q = Query(t, a, {c}),
         IF a = Unset THEN Recognised({c}) ELSE Plain({c}),
         Matching(q, {c}) # {}, Cardinality(Hits(q)) <= MaxScan,
         NEW first \in Matching(q, {c}), \A n \in Matching(q, {c}) : Time[first] <= Time[n],
         NEW newest \in Matching(q, {c}), \A n \in Matching(q, {c}) : Time[newest] >= Time[n]
  PROVE  AtTheHead(q, first, newest)
<1> DEFINE real == Matching(q, {c})
<1>1. real \in SUBSET Messages /\ first \in real /\ newest \in real
  BY StateDocuments DEF Matching
<1>2. \A n \in real : Time[first] <= Time[n]
  OBVIOUS
<1>3. \A n \in real : Time[newest] >= Time[n]
  OBVIOUS
<1>4. \A m \in Messages : Time[m] \in Nat /\ Second[m] \in Nat
  BY RecordAssumption, IngestAssumption
<1>5. \A k \in Scan(q) : Holds(q, index[k]) /\ k \in DOMAIN index
  <2>. TAKE k \in Scan(q)
  <2>1. k \in DOMAIN index /\ Chan[k] \in {c} /\ ToSet(index[k]) \subseteq Messages
    BY ScanFindsMatches
  <2>2. CASE a = Unset
    <3>1. q.author = Unset /\ Firsts(index[k]) \subseteq Starts(index[k])
      BY <2>1, <2>2 DEF Query, Recognised
    <3>. QED  BY <2>1, <3>1, DocumentTells
  <2>3. CASE a # Unset
    <3>1. Firsts(index[k]) = Starts(index[k])
      BY <2>1, <2>3 DEF Plain
    <3>. QED  BY <2>1, <3>1, DocumentTells
  <2>. QED  BY <2>1, <2>2, <2>3
<1>6. /\ Kept(q) \in SUBSET Messages /\ Kept(q) \subseteq DOMAIN index
      /\ \A k \in Kept(q) : Chan[k] = c
      /\ \A k \in Kept(q) : \E m \in real : m \in ToSet(index[k])
      /\ \A m \in real : \E k \in Kept(q) : m \in ToSet(index[k])
  <2>1. \A k \in Kept(q) : k \in Scan(q) /\ k \in DOMAIN index /\ k \in Messages
    BY <1>5 DEF Kept, HoldsAll
  <2>2. \A k \in Kept(q) : Chan[k] \in {c}
    BY <2>1, ScanFindsMatches
  <2>3. ASSUME NEW k \in Kept(q)
        PROVE  \E m \in real : m \in ToSet(index[k])
    <3>1. MatchesIn(q, index[k]) # {} /\ k \in Scan(q)
      BY DEF Kept
    <3>2. PICK m \in ToSet(index[k]) : Speaks(q, m) /\ SaysIt(q, m)
      BY <1>5, <3>1 DEF Holds
    <3>. QED  BY <3>1, <3>2, ScanFindsMatches
  <2>4. ASSUME NEW m \in real
        PROVE  \E k \in Kept(q) : m \in ToSet(index[k])
    <3>1. PICK k \in Scan(q) : m \in ToSet(index[k])
      BY ScanFindsMatches
    <3>2. Speaks(q, m) /\ SaysIt(q, m)
      BY ScanFindsMatches
    <3>3. MatchesIn(q, index[k]) # {}
      BY <1>5, <3>1, <3>2 DEF Holds
    <3>. QED  BY <3>1, <3>3 DEF Kept
  <2>. QED  BY <2>1, <2>2, <2>3, <2>4
<1> HIDE DEF real
<1>7. ASSUME NEW j \in Kept(q), NEW k \in Kept(q), NEW m \in ToSet(index[j]), NEW n \in ToSet(index[k]),
             Time[j] < Time[k]
      PROVE  Time[m] < Time[n]
  <2>1. j \in DOMAIN index /\ k \in DOMAIN index /\ Chan[j] = Chan[k]
    BY <1>6
  <2>. QED  BY <1>7, <2>1 DEF HoldsAll
<1>8. \A j, k \in Messages : ~(Time[j] < Time[k]) => Second[k] <= Second[j]
  <2>. TAKE j, k \in Messages
  <2>1. ~(Time[j] < Time[k]) => Time[k] <= Time[j]
    BY <1>4
  <2>. QED  BY <2>1, IngestAssumption
<1> DEFINE tie(j, k) == Second[j] = Second[k] /\ Rank[j] < Rank[k]
           sooner == {p \in Messages \X Messages :
                        \/ Second[p[1]] = Second[p[2]] /\ Rank[p[1]] < Rank[p[2]]
                        \/ "earliest" = "earliest" /\ Second[p[1]] < Second[p[2]]
                        \/ "earliest" = "latest" /\ Second[p[1]] > Second[p[2]]}
           later == {p \in Messages \X Messages :
                       \/ Second[p[1]] = Second[p[2]] /\ Rank[p[1]] < Rank[p[2]]
                       \/ "latest" = "earliest" /\ Second[p[1]] < Second[p[2]]
                       \/ "latest" = "latest" /\ Second[p[1]] > Second[p[2]]}
           up == InOrder(Kept(q), sooner)
           down == InOrder(Kept(q), later)
<1>9. SearchLiteral(q, "earliest", 1) = SubSeq(up, 1, Min({1, Len(up)}))
  BY DEF SearchLiteral
<1>10. SearchLiteral(q, "latest", 1) = SubSeq(down, 1, Min({1, Len(down)}))
  BY DEF SearchLiteral
<1>11. /\ \A j, k \in Kept(q) : <<j, k>> \in sooner <=> tie(j, k) \/ Second[j] < Second[k]
       /\ \A j, k \in Kept(q) : <<j, k>> \in later <=> tie(j, k) \/ Second[j] > Second[k]
  BY <1>6
<1>12. Orders(sooner, Kept(q)) /\ Orders(later, Kept(q))
  <2> HIDE DEF sooner, later
  <2>. QED  BY <1>6, <1>11, SecondOrders
<1>13. Kept(q) # {}
  BY <1>1, <1>6
<1>14. StartsWith(first, Head(SearchLiteral(q, "earliest", 1)))
  <2>1. PICK j \in Kept(q) : /\ Head(SubSeq(up, 1, Min({1, Len(up)}))) = j
                             /\ \A k \in Kept(q) : k = j \/ <<j, k>> \in sooner
    <3>1. up = InOrder(Kept(q), sooner)
      OBVIOUS
    <3> HIDE DEF up, sooner
    <3>2. \E j \in Kept(q) : IsHead(j, up, Kept(q), sooner)
      BY <1>6, <1>12, <1>13, <3>1, HeadOfList
    <3>. QED  BY <3>2 DEF IsHead
  <2> HIDE DEF up, sooner
  <2>2. PICK k \in Kept(q) : first \in ToSet(index[k])
    BY <1>1, <1>6
  <2>3. PICK m \in real : m \in ToSet(index[j])
    BY <1>6
  <2>4. ~(Time[m] < Time[first])
    BY <1>1, <1>2, <1>4
  <2>5. ~(Time[j] < Time[k])
    BY <1>7, <2>2, <2>3, <2>4
  <2>6. Second[j] \in Nat /\ Second[k] \in Nat /\ j \in Messages /\ k \in Messages
    BY <1>4, <1>6
  <2>7. k = j \/ Second[j] = Second[k] \/ Second[j] < Second[k]
    BY <1>11, <2>1
  <2>8. Second[k] <= Second[j]
    BY <1>8, <2>5, <2>6
  <2>9. Second[k] = Second[j]
    BY <2>6, <2>7, <2>8
  <2>. QED  BY <1>6, <1>9, <2>1, <2>2, <2>9 DEF StartsWith
<1>15. StartsWith(newest, Head(SearchLiteral(q, "latest", 1)))
  <2>1. PICK j \in Kept(q) : /\ Head(SubSeq(down, 1, Min({1, Len(down)}))) = j
                             /\ \A k \in Kept(q) : k = j \/ <<j, k>> \in later
    <3>1. down = InOrder(Kept(q), later)
      OBVIOUS
    <3> HIDE DEF down, later
    <3>2. \E j \in Kept(q) : IsHead(j, down, Kept(q), later)
      BY <1>6, <1>12, <1>13, <3>1, HeadOfList
    <3>. QED  BY <3>2 DEF IsHead
  <2> HIDE DEF down, later
  <2>2. PICK k \in Kept(q) : newest \in ToSet(index[k])
    BY <1>1, <1>6
  <2>3. PICK m \in real : m \in ToSet(index[j])
    BY <1>6
  <2>4. ~(Time[newest] < Time[m])
    BY <1>1, <1>3, <1>4
  <2>5. ~(Time[k] < Time[j])
    BY <1>7, <2>2, <2>3, <2>4
  <2>6. Second[j] \in Nat /\ Second[k] \in Nat /\ j \in Messages /\ k \in Messages
    BY <1>4, <1>6
  <2>7. k = j \/ Second[j] = Second[k] \/ Second[j] > Second[k]
    BY <1>11, <2>1
  <2>8. Second[j] <= Second[k]
    BY <1>8, <2>5, <2>6
  <2>9. Second[k] = Second[j]
    BY <2>6, <2>7, <2>8
  <2>. QED  BY <1>6, <1>10, <2>1, <2>2, <2>9 DEF StartsWith
<1>. QED  BY <1>14, <1>15 DEF AtTheHead

LEMMA FirstFollows ==
  ASSUME IngestInv
  PROVE  FirstIsFirst
<1>1. SUFFICES ASSUME ~shifted, Indexable \subseteq done,
                      NEW t \in Terms, NEW a \in Authors \cup {Unset}, NEW c \in Channels
      PROVE  LET q == Query(t, a, {c})
                 real == {m \in Indexable : Chan[m] = c /\ Speaks(q, m) /\ SaysIt(q, m)}
                 first == CHOOSE m \in real : \A n \in real : Time[m] <= Time[n]
                 newest == CHOOSE m \in real : \A n \in real : Time[m] >= Time[n]
             IN  /\ real # {} /\ IF a = Unset THEN Recognised({c}) ELSE Plain({c})
                 /\ Cardinality(Hits(q)) <= MaxScan
                 => AtTheHead(q, first, newest)
  BY DEF FirstIsFirst, Hits, AtTheHead, StartsWith
<1> DEFINE q == Query(t, a, {c})
           real == {m \in Indexable : Chan[m] = c /\ Speaks(q, m) /\ SaysIt(q, m)}
           first == CHOOSE m \in real : \A n \in real : Time[m] <= Time[n]
           newest == CHOOSE m \in real : \A n \in real : Time[m] >= Time[n]
<1>2. q = Query(t, a, {c}) /\ real = Matching(q, {c}) /\ real \in SUBSET Messages
  BY StateDocuments DEF Matching
<1> HIDE DEF real, q
<1>3. ASSUME real # {}
      PROVE  /\ first \in real /\ \A n \in real : Time[first] <= Time[n]
             /\ newest \in real /\ \A n \in real : Time[newest] >= Time[n]
  <2>1. first \in real /\ \A n \in real : Time[first] <= Time[n]
    BY <1>2, <1>3, EndsOfTime
  <2>2. newest \in real /\ \A n \in real : Time[newest] >= Time[n]
    BY <1>2, <1>3, EndsOfTime
  <2>. QED  BY <2>1, <2>2
<1>4. HoldsAll(index)
  BY <1>1, IndexCompletes
<1>5. ASSUME real # {}, IF a = Unset THEN Recognised({c}) ELSE Plain({c}),
             Cardinality(Hits(q)) <= MaxScan
      PROVE  AtTheHead(q, first, newest)
  <2> HIDE DEF first, newest
  <2>. QED  BY <1>2, <1>3, <1>4, <1>5, FirstIsAtTheHead
<1>. QED  BY <1>5 DEF q, real

\* What the searches without embeddings say of the archive is so, whatever it holds,
\* once it was read by a run that finished and no cut has moved: how often, by whom
\* and where first (aggregate_stats, search_literal).
THEOREM SearchesTellTruth == Spec => []SearchesAreTrue
<1>1. IngestInv => SearchesAreTrue
  BY CountsFollow, FirstFollows DEF SearchesAreTrue
<1>. QED  BY <1>1, IngestInvariance, PTL


-----------------------------------------------------------------------------
(* The dataset: the turns of a channel.                                    *)

\* What is said in a channel.
Said(S, c) == {m \in S \ Noise : Chan[m] = c}

\* s has the messages of T in the order of their times.
InLine(s, T) ==
  /\ s \in Seq(Messages) /\ Len(s) \in Nat
  /\ \A i \in 1..Len(s) : s[i] \in T /\ s[i] \in Messages /\ Time[s[i]] \in Nat
  /\ \A m \in T : \E i \in 1..Len(s) : m = s[i]
  /\ \A i, j \in 1..Len(s) : i < j <=> Time[s[i]] < Time[s[j]]

LEMMA TimelineProperties ==
  ASSUME NEW S \in SUBSET Messages, NEW c
  PROVE  InLine(Timeline(S, c), Said(S, c))
<1> DEFINE T == Said(S, c)
           s == Timeline(S, c)
<1>1. T \in SUBSET Messages /\ \A m \in T : Chan[m] = c
  BY DEF Said
<1>2. s = InOrder(T, Earlier)
  BY DEF Timeline, Said
<1> HIDE DEF T, s
<1>3. Lists(s, T, Earlier)
  BY <1>1, <1>2, EarlierOrders, InOrderProperties
<1>4. s \in Seq(T) /\ Len(s) \in Nat
  BY <1>3 DEF Lists
<1>5. \A i \in 1..Len(s) : s[i] \in T
  BY <1>4
<1>6. s \in Seq(Messages)
  BY <1>1, <1>4
<1>7. \A i \in 1..Len(s) : s[i] \in Messages /\ Time[s[i]] \in Nat /\ Chan[s[i]] = c
  BY <1>1, <1>5, RecordAssumption
<1>8. \A i, j \in 1..Len(s) : i < j <=> Time[s[i]] < Time[s[j]]
  <2>. TAKE i, j \in 1..Len(s)
  <2>1. i < j <=> <<s[i], s[j]>> \in Earlier
    BY <1>3 DEF Lists
  <2>2. c \in Nat
    BY <1>7, RecordAssumption
  <2>3. <<s[i], s[j]>> \in Earlier <=> Time[s[i]] < Time[s[j]]
    BY <1>7, <2>2 DEF Earlier
  <2>. QED  BY <2>1, <2>3
<1>9. \A m \in T : \E i \in 1..Len(s) : m = s[i]
  BY <1>3 DEF Lists
<1>. QED  BY <1>4, <1>5, <1>6, <1>7, <1>8, <1>9 DEF InLine, T, s

TurnStarts(s) ==
  {i \in 1..Len(s) : \/ i = 1
                     \/ Author[s[i - 1]] # Author[s[i]]
                     \/ Time[s[i]] - Time[s[i - 1]] > MergeSeconds}

\* Where the k-th turn starts and where it ends.
From(s, k) == Nth(TurnStarts(s), k)
Till(s, k) == EndOf(s, TurnStarts(s), k)

\* The turn t has the messages of s from a to b, by one author without a pause.
TurnOf(t, s, a, b) ==
  /\ a \in 1..Len(s) /\ b \in a..Len(s) /\ a \in Nat /\ b \in Nat
  /\ Head(t) = s[a] /\ Last(t) = s[b]
  /\ \A m : m \in ToSet(t) <=> \E i \in a..b : m = s[i]
  /\ \A i \in (a + 1)..b : /\ Author[s[i - 1]] = Author[s[i]]
                           /\ Time[s[i]] - Time[s[i - 1]] <= MergeSeconds

\* The turns ts are the messages of s, one turn after the other.
TurnsOf(ts, s) ==
  /\ ts \in Seq(Seq(Messages)) /\ Len(ts) \in Nat
  /\ \A k \in 1..Len(ts) : TurnOf(ts[k], s, From(s, k), Till(s, k))
  /\ \A k \in 1..Len(ts) : k # Len(ts) => Till(s, k) + 1 = From(s, k + 1)
  /\ \A j, k \in 1..Len(ts) : j < k => Till(s, j) < From(s, k)
  /\ \A i \in 1..Len(s) : \E k \in 1..Len(ts) : i \in From(s, k)..Till(s, k)

LEMMA TurnsProperties ==
  ASSUME NEW T, NEW s, InLine(s, T), NEW ts, ts = Turns(s)
  PROVE  TurnsOf(ts, s)
<1> DEFINE K == TurnStarts(s)
<1>1. s \in Seq(Messages) /\ Len(s) \in Nat
  BY DEF InLine
<1>2. K \in SUBSET (1..Len(s)) /\ (Len(s) > 0 => 1 \in K) /\ ts = Groups(s, K)
  BY <1>1 DEF TurnStarts, Turns
<1>3. \A i \in 1..Len(s) : i \notin K =>
         i # 1 /\ Author[s[i - 1]] = Author[s[i]] /\ ~(Time[s[i]] - Time[s[i - 1]] > MergeSeconds)
  BY DEF TurnStarts
<1>4. \A k : From(s, k) = Nth(K, k) /\ Till(s, k) = EndOf(s, K, k)
  BY DEF From, Till
<1> HIDE DEF K
<1>5. Grouped(ts, s, K, Messages)
  BY <1>1, <1>2, GroupsProperties
<1>6. ts \in Seq(Seq(Messages)) /\ Len(ts) \in Nat
  BY <1>5 DEF Grouped
<1>7. ASSUME NEW k \in 1..Len(ts)
      PROVE  TurnOf(ts[k], s, From(s, k), Till(s, k))
  <2> DEFINE t == ts[k]
             a == From(s, k)
             b == Till(s, k)
  <2>1. GroupOf(t, s, K, a, b)
    BY <1>4, <1>5 DEF Grouped
  <2>2. t \in Seq(Messages)
    BY <1>6
  <2> HIDE DEF t, a, b
  <2>3. a \in 1..Len(s) /\ b \in a..Len(s) /\ Len(t) = b - a + 1
    BY <2>1 DEF GroupOf
  <2>4. a \in Nat /\ b \in Nat /\ a >= 1 /\ a <= b /\ b <= Len(s)
    BY <1>1, <2>3
  <2>5. Len(t) \in Nat /\ Len(t) >= 1 /\ 1 \in 1..Len(t) /\ Len(t) \in 1..Len(t)
        /\ a + 1 - 1 = a /\ a + Len(t) - 1 = b
    BY <2>3, <2>4
  <2>6. \A p \in 1..Len(t) : t[p] = s[a + p - 1]
    BY <2>1 DEF GroupOf
  <2>7. t[1] = s[a + 1 - 1] /\ t[Len(t)] = s[a + Len(t) - 1]
    BY <2>5, <2>6
  <2>8. Head(t) = s[a] /\ Last(t) = s[b]
    <3>1. t # <<>>
      BY <2>5
    <3>2. Head(t) = t[1]
      BY <2>2, <3>1
    <3>. QED  BY <2>5, <2>7, <3>2 DEF Last
  <2>9. \A m : m \in ToSet(t) <=> \E i \in a..b : m = s[i]
    <3>1. ToSet(t) = {s[i] : i \in a..b}
      BY <2>1 DEF GroupOf
    <3>. QED  BY <3>1
  <2>10. ASSUME NEW i \in (a + 1)..b
         PROVE  /\ Author[s[i - 1]] = Author[s[i]]
                /\ Time[s[i]] - Time[s[i - 1]] <= MergeSeconds
    <3>1. i \notin K
      BY <2>1 DEF GroupOf
    <3>2. i \in Nat /\ i \in 1..Len(s) /\ (i # 1 => i - 1 \in 1..Len(s))
      BY <1>1, <2>4
    <3>3. i # 1 /\ Author[s[i - 1]] = Author[s[i]] /\ ~(Time[s[i]] - Time[s[i - 1]] > MergeSeconds)
      BY <1>3, <3>1, <3>2
    <3>4. Time[s[i]] \in Nat /\ Time[s[i - 1]] \in Nat /\ MergeSeconds \in Nat
      BY <3>2, <3>3, DatasetAssumption DEF InLine
    <3>. QED  BY <3>3, <3>4
  <2>11. TurnOf(t, s, a, b)
    BY <2>3, <2>4, <2>8, <2>9, <2>10 DEF TurnOf
  <2>. QED  BY <2>11 DEF t, a, b
<1>8. \A k \in 1..Len(ts) : k # Len(ts) => Till(s, k) + 1 = From(s, k + 1)
  BY <1>4, <1>5 DEF Grouped
<1>9. \A j, k \in 1..Len(ts) : j < k => Till(s, j) < From(s, k)
  BY <1>4, <1>5 DEF Grouped
<1>10. \A i \in 1..Len(s) : \E k \in 1..Len(ts) : i \in From(s, k)..Till(s, k)
  BY <1>4, <1>5 DEF Grouped
<1>. QED  BY <1>6, <1>7, <1>8, <1>9, <1>10 DEF TurnsOf


\* The context of the k-th turn is that from the f-th on: not more turns than the
\* limit, no silence up to the reply, and no turn before it that could be in it.
ContextOf(ctx, ts, k, f) ==
  /\ k \in Nat /\ f \in Nat /\ f >= 1 /\ f < k /\ k <= Len(ts)
  /\ Len(ctx) = k - f /\ Head(ctx) = ts[f]
  /\ \A t : t \in ToSet(ctx) <=> \E j \in f..(k - 1) : t = ts[j]
  /\ k - f <= ContextN
  /\ \A j \in f..(k - 1) : ~Silent(ts[j + 1], ts[j])
  /\ f > 1 => k - (f - 1) > ContextN \/ Silent(ts[f], ts[f - 1])

LEMMA ContextProperties ==
  ASSUME NEW T, NEW s, InLine(s, T), NEW ts, TurnsOf(ts, s), NEW k \in 1..Len(ts)
  PROVE  /\ Context(ts, k) # <<>> => \E f \in 1..Len(ts) : ContextOf(Context(ts, k), ts, k, f)
         /\ (k # 1 /\ ContextN > 0 /\ ~Silent(ts[k], ts[k - 1])) => Context(ts, k) # <<>>
<1> DEFINE far == {j \in 1..(k - 1) : k - j > ContextN \/ Silent(ts[j + 1], ts[j])}
           f == IF far = {} THEN 1 ELSE Max(far) + 1
           ctx == SubSeq(ts, f, k - 1)
<1>1. ts \in Seq(Seq(Messages)) /\ Len(ts) \in Nat /\ k \in Nat /\ k >= 1 /\ k <= Len(ts)
  BY DEF TurnsOf
<1>2. ContextN \in Nat
  BY DatasetAssumption
<1>3. Context(ts, k) = ctx
  BY DEF Context
<1>4. \A j \in 1..(k - 1) : j \in far <=> k - j > ContextN \/ Silent(ts[j + 1], ts[j])
  OBVIOUS
<1>5. far \in SUBSET (1..(k - 1)) /\ far \in SUBSET (0..k)
  BY <1>1
<1> HIDE DEF far
<1>6. /\ f \in Nat /\ f >= 1 /\ f <= k
      /\ \A j \in far : j < f
      /\ f > 1 => f - 1 \in far
  <2>1. CASE far = {}
    BY <1>1, <2>1
  <2>2. CASE far # {}
    <3>1. Max(far) \in far /\ Max(far) \in Nat /\ \A j \in far : j <= Max(far)
      BY <1>1, <1>5, <2>2, MaxProperties
    <3>2. Max(far) \in 1..(k - 1)
      BY <1>5, <3>1
    <3>3. f = Max(far) + 1
      BY <2>2
    <3> HIDE DEF f
    <3>4. f \in Nat /\ f >= 1 /\ f <= k /\ f - 1 = Max(far)
      BY <1>1, <3>1, <3>2, <3>3
    <3>5. \A j \in far : j < f
      <4>1. \A j \in far : j \in Nat
        BY <1>1, <1>5
      <4>. QED  BY <3>1, <3>3, <4>1
    <3>. QED  BY <3>1, <3>4, <3>5
  <2>. QED  BY <2>1, <2>2
<1> HIDE DEF f
<1>7. /\ ctx \in Seq(Seq(Messages)) /\ Len(ctx) = IF f <= k - 1 THEN k - 1 - f + 1 ELSE 0
      /\ \A i \in 1..Len(ctx) : ctx[i] = ts[f + i - 1]
      /\ \A t : t \in ToSet(ctx) <=> \E j \in f..(k - 1) : t = ts[j]
  <2>1. f \in Nat \ {0} /\ k - 1 \in 0..Len(ts)
    BY <1>1, <1>6
  <2>2. IsPart(ctx, Seq(Messages), ts, f, k - 1)
    BY <1>1, <2>1, PartProperties
  <2> HIDE DEF ctx
  <2>. QED  BY <2>2 DEF IsPart
<1> HIDE DEF ctx
<1>8. Len(ctx) = k - f /\ Len(ctx) \in Nat
  <2>1. Len(ctx) = IF f <= k - 1 THEN k - 1 - f + 1 ELSE 0
    BY <1>7
  <2>. QED  BY <1>1, <1>6, <2>1
<1>9. ASSUME ctx # <<>>
      PROVE  ContextOf(ctx, ts, k, f) /\ f \in 1..Len(ts)
  <2>1. Len(ctx) # 0
    BY <1>7, <1>9
  <2>2. f < k /\ f \in f..(k - 1) /\ f \in 1..(k - 1)
    BY <1>1, <1>6, <1>8, <2>1
  <2>3. \A j \in f..(k - 1) : j \in 1..(k - 1) /\ j \notin far
    <3>1. \A j \in f..(k - 1) : j \in Nat /\ j \in 1..(k - 1) /\ ~(j < f)
      BY <1>1, <1>6
    <3>. QED  BY <1>6, <3>1
  <2>4. \A j \in f..(k - 1) : ~(k - j > ContextN) /\ ~Silent(ts[j + 1], ts[j])
    BY <1>4, <2>3
  <2>5. k - f <= ContextN
    <3>1. ~(k - f > ContextN)
      BY <2>2, <2>4
    <3>. QED  BY <1>1, <1>2, <1>6, <3>1
  <2>6. Head(ctx) = ts[f]
    <3>1. Head(ctx) = ctx[1] /\ 1 \in 1..Len(ctx)
      BY <1>7, <1>8, <1>9, <2>1
    <3>2. ctx[1] = ts[f + 1 - 1]
      BY <1>7, <3>1
    <3>3. f + 1 - 1 = f
      BY <1>6
    <3>. QED  BY <3>1, <3>2, <3>3
  <2>7. f > 1 => k - (f - 1) > ContextN \/ Silent(ts[f], ts[f - 1])
    <3>1. SUFFICES ASSUME f > 1 PROVE k - (f - 1) > ContextN \/ Silent(ts[f], ts[f - 1])
      OBVIOUS
    <3>2. f - 1 \in far /\ f - 1 \in 1..(k - 1) /\ (f - 1) + 1 = f
      BY <1>1, <1>6, <2>2, <3>1
    <3>. QED  BY <1>4, <3>2
  <2>8. f \in 1..Len(ts)
    BY <1>1, <1>6, <2>2
  <2>9. \A t : t \in ToSet(ctx) <=> \E j \in f..(k - 1) : t = ts[j]
    BY <1>7
  <2>. QED  BY <1>1, <1>6, <1>8, <2>2, <2>4, <2>5, <2>6, <2>7, <2>8, <2>9 DEF ContextOf
<1>10. ASSUME k # 1, ContextN > 0, ~Silent(ts[k], ts[k - 1])
       PROVE  ctx # <<>>
  <2>1. k - 1 \in 1..(k - 1) /\ (k - 1) + 1 = k /\ ~(k - (k - 1) > ContextN)
    BY <1>1, <1>2, <1>10
  <2>2. k - 1 \notin far
    BY <1>4, <1>10, <2>1
  <2>3. f - 1 # k - 1
    <3>1. CASE f = 1
      BY <1>1, <1>10, <3>1
    <3>2. CASE f # 1
      <4>1. f > 1
        BY <1>6, <3>2
      <4>. QED  BY <1>6, <2>2, <4>1
    <3>. QED  BY <3>1, <3>2
  <2>4. f # k
    BY <2>3
  <2>5. Len(ctx) # 0
    BY <1>1, <1>6, <1>8, <2>4
  <2>. QED  BY <2>5
<1>. QED  BY <1>3, <1>9, <1>10


-----------------------------------------------------------------------------
(* The dataset: its examples.                                              *)

TurnsIn(S, c) == Turns(Timeline(S, c))

\* x is the example of the k-th turn in channel c, with the context from the f-th.
ExampleOf(x, S, c, k, f) ==
  /\ k \in 1..Len(TurnsIn(S, c)) /\ x.reply = TurnsIn(S, c)[k]
  /\ x = [reply |-> TurnsIn(S, c)[k], context |-> Context(TurnsIn(S, c), k)]
  /\ ContextOf(x.context, TurnsIn(S, c), k, f)

LEMMA ChannelProperties ==
  ASSUME NEW S \in SUBSET Messages, NEW c
  PROVE  InLine(Timeline(S, c), Said(S, c)) /\ TurnsOf(TurnsIn(S, c), Timeline(S, c))
<1>1. InLine(Timeline(S, c), Said(S, c))
  BY TimelineProperties
<1>2. TurnsIn(S, c) = Turns(Timeline(S, c))
  BY DEF TurnsIn
<1>. QED  BY <1>1, <1>2, TurnsProperties

LEMMA ExamplesShape ==
  ASSUME NEW S \in SUBSET Messages
  PROVE  /\ \A x \in AllExamples(S) : \E c \in Channels : \E k, f \in Nat : ExampleOf(x, S, c, k, f)
         /\ \A c \in Channels : \A k \in 1..Len(TurnsIn(S, c)) :
              IsTarget(TurnsIn(S, c)[k]) /\ Context(TurnsIn(S, c), k) # <<>> =>
                \E x \in AllExamples(S) : x.reply = TurnsIn(S, c)[k]
<1>1. ASSUME NEW x \in AllExamples(S)
      PROVE  \E c \in Channels : \E k, f \in Nat : ExampleOf(x, S, c, k, f)
  <2>1. PICK c \in Channels : x \in ExamplesIn(TurnsIn(S, c))
    BY DEF AllExamples, TurnsIn
  <2> DEFINE ts == TurnsIn(S, c)
  <2>2. PICK k \in 1..Len(ts) : /\ IsTarget(ts[k]) /\ Context(ts, k) # <<>>
                                /\ x = [reply |-> ts[k], context |-> Context(ts, k)]
    BY <2>1 DEF ExamplesIn
  <2>3. x.reply = ts[k] /\ x.context = Context(ts, k)
    BY <2>2
  <2>4. InLine(Timeline(S, c), Said(S, c)) /\ TurnsOf(ts, Timeline(S, c))
    BY ChannelProperties
  <2> HIDE DEF ts
  <2>5. PICK f \in 1..Len(ts) : ContextOf(Context(ts, k), ts, k, f)
    BY <2>2, <2>4, ContextProperties
  <2>6. k \in Nat /\ f \in Nat
    BY <2>5 DEF ContextOf
  <2>7. ExampleOf(x, S, c, k, f)
    BY <2>2, <2>3, <2>5 DEF ExampleOf, ts
  <2>. QED  BY <2>6, <2>7
<1>2. ASSUME NEW c \in Channels, NEW k \in 1..Len(TurnsIn(S, c)),
             IsTarget(TurnsIn(S, c)[k]), Context(TurnsIn(S, c), k) # <<>>
      PROVE  \E x \in AllExamples(S) : x.reply = TurnsIn(S, c)[k]
  <2> DEFINE ts == TurnsIn(S, c)
             x == [reply |-> ts[k], context |-> Context(ts, k)]
  <2>1. x \in ExamplesIn(ts)
    BY <1>2 DEF ExamplesIn
  <2>2. x \in AllExamples(S)
    BY <2>1 DEF AllExamples, TurnsIn
  <2>. QED  BY <2>2
<1>. QED  BY <1>1, <1>2

\* A turn has messages of its channel, its first one among them.
LEMMA TurnMessages ==
  ASSUME NEW S \in SUBSET Messages, NEW c, NEW k \in 1..Len(TurnsIn(S, c)), NEW t, t = TurnsIn(S, c)[k]
  PROVE  /\ Head(t) \in ToSet(t) /\ Head(t) \in Messages /\ Time[Head(t)] \in Nat
         /\ \A m \in ToSet(t) : m \in Said(S, c)
<1> DEFINE s == Timeline(S, c)
           a == From(s, k)
           b == Till(s, k)
<1>1. InLine(s, Said(S, c)) /\ TurnOf(t, s, a, b)
  BY ChannelProperties DEF TurnsOf
<1> HIDE DEF s, a, b
<1>2. a \in 1..Len(s) /\ b \in a..Len(s) /\ a \in Nat /\ b \in Nat /\ Head(t) = s[a] /\ Len(s) \in Nat
  BY <1>1 DEF TurnOf, InLine
<1>3. a \in a..b /\ \A i \in a..b : i \in 1..Len(s)
  BY <1>2
<1>4. \A m : m \in ToSet(t) <=> \E i \in a..b : m = s[i]
  BY <1>1 DEF TurnOf
<1>5. \A i \in 1..Len(s) : s[i] \in Said(S, c) /\ s[i] \in Messages /\ Time[s[i]] \in Nat
  BY <1>1 DEF InLine
<1>. QED  BY <1>2, <1>3, <1>4, <1>5

\* A turn before another has other messages, and starts before it.
LEMMA TurnsApart ==
  ASSUME NEW S \in SUBSET Messages, NEW c,
         NEW j \in 1..Len(TurnsIn(S, c)), NEW k \in 1..Len(TurnsIn(S, c)), j < k
  PROVE  /\ ToSet(TurnsIn(S, c)[j]) \cap ToSet(TurnsIn(S, c)[k]) = {}
         /\ Time[Head(TurnsIn(S, c)[j])] < Time[Head(TurnsIn(S, c)[k])]
<1> DEFINE s == Timeline(S, c)
           ts == TurnsIn(S, c)
           a(x) == From(s, x)
           b(x) == Till(s, x)
<1>1. /\ InLine(s, Said(S, c)) /\ TurnOf(ts[j], s, a(j), b(j)) /\ TurnOf(ts[k], s, a(k), b(k))
      /\ b(j) < a(k)
  BY ChannelProperties DEF TurnsOf
<1> HIDE DEF s, ts, a, b
<1>2. /\ a(j) \in 1..Len(s) /\ b(j) \in a(j)..Len(s) /\ a(j) \in Nat /\ b(j) \in Nat
      /\ a(k) \in 1..Len(s) /\ b(k) \in a(k)..Len(s) /\ a(k) \in Nat /\ b(k) \in Nat /\ Len(s) \in Nat
  BY <1>1 DEF TurnOf, InLine
<1>3. a(j) < a(k)
  BY <1>1, <1>2
<1>4. \A i, l \in 1..Len(s) : i < l <=> Time[s[i]] < Time[s[l]]
  BY <1>1 DEF InLine
<1>5. Head(ts[j]) = s[a(j)] /\ Head(ts[k]) = s[a(k)]
  BY <1>1 DEF TurnOf
<1>6. Time[Head(ts[j])] < Time[Head(ts[k])]
  BY <1>2, <1>3, <1>4, <1>5
<1>7. ASSUME NEW m \in ToSet(ts[j]) \cap ToSet(ts[k])
      PROVE  FALSE
  <2>1. PICK i \in a(j)..b(j) : m = s[i]
    BY <1>1 DEF TurnOf
  <2>2. PICK l \in a(k)..b(k) : m = s[l]
    BY <1>1 DEF TurnOf
  <2>3. i \in 1..Len(s) /\ l \in 1..Len(s) /\ i < l
    BY <1>1, <1>2
  <2>4. Time[m] < Time[m]
    BY <1>4, <2>1, <2>2, <2>3
  <2>5. Time[m] \in Nat
    BY <1>1, <2>1, <2>3 DEF InLine
  <2>. QED  BY <2>4, <2>5
<1>. QED  BY <1>6, <1>7 DEF ts


\* An example is known by any message of its reply.
LEMMA ExamplesApart ==
  ASSUME NEW S \in SUBSET Messages, NEW x \in AllExamples(S), NEW y \in AllExamples(S),
         ToSet(x.reply) \cap ToSet(y.reply) # {}
  PROVE  x = y
<1>1. PICK c \in Channels : \E k, f \in Nat : ExampleOf(x, S, c, k, f)
  BY ExamplesShape
<1>2. PICK k \in Nat, f \in Nat : ExampleOf(x, S, c, k, f)
  BY <1>1
<1>3. PICK d \in Channels : \E l, g \in Nat : ExampleOf(y, S, d, l, g)
  BY ExamplesShape
<1>4. PICK l \in Nat, g \in Nat : ExampleOf(y, S, d, l, g)
  BY <1>3
<1>5. /\ k \in 1..Len(TurnsIn(S, c)) /\ x.reply = TurnsIn(S, c)[k]
      /\ x = [reply |-> TurnsIn(S, c)[k], context |-> Context(TurnsIn(S, c), k)]
  BY <1>2 DEF ExampleOf
<1>6. /\ l \in 1..Len(TurnsIn(S, d)) /\ y.reply = TurnsIn(S, d)[l]
      /\ y = [reply |-> TurnsIn(S, d)[l], context |-> Context(TurnsIn(S, d), l)]
  BY <1>4 DEF ExampleOf
<1>7. PICK m : m \in ToSet(x.reply) /\ m \in ToSet(y.reply)
  OBVIOUS
<1>8. m \in Said(S, c) /\ m \in Said(S, d)
  <2>1. m \in Said(S, c)
    BY <1>5, <1>7, TurnMessages
  <2>2. m \in Said(S, d)
    BY <1>6, <1>7, TurnMessages
  <2>. QED  BY <2>1, <2>2
<1>9. c = d
  BY <1>8 DEF Said
<1>10. ~(k < l) /\ ~(l < k)
  <2>1. m \in ToSet(TurnsIn(S, c)[k]) \cap ToSet(TurnsIn(S, c)[l]) /\ l \in 1..Len(TurnsIn(S, c))
    BY <1>5, <1>6, <1>7, <1>9
  <2>2. ~(k < l)
    BY <1>5, <2>1, TurnsApart
  <2>3. ~(l < k)
    BY <1>5, <2>1, TurnsApart
  <2>. QED  BY <2>2, <2>3
<1>11. k = l
  BY <1>10
<1>. QED  BY <1>5, <1>6, <1>9, <1>11

\* A reply starts with a message, and its context before it.
LEMMA ReplyProperties ==
  ASSUME NEW S \in SUBSET Messages, NEW x \in AllExamples(S)
  PROVE  /\ Head(x.reply) \in ToSet(x.reply) /\ Head(x.reply) \in Messages
         /\ Start(x.reply) = Time[Head(x.reply)] /\ Start(x.reply) \in Nat
         /\ \A t \in ToSet(x.context) : Start(t) < Start(x.reply)
<1>1. PICK c \in Channels : \E k, f \in Nat : ExampleOf(x, S, c, k, f)
  BY ExamplesShape
<1>2. PICK k \in Nat, f \in Nat : ExampleOf(x, S, c, k, f)
  BY <1>1
<1> DEFINE ts == TurnsIn(S, c)
<1>3. k \in 1..Len(ts) /\ x.reply = ts[k] /\ ContextOf(x.context, ts, k, f)
  BY <1>2 DEF ExampleOf
<1>4. Head(x.reply) \in ToSet(x.reply) /\ Head(x.reply) \in Messages /\ Time[Head(x.reply)] \in Nat
  BY <1>3, TurnMessages
<1>5. ASSUME NEW t \in ToSet(x.context)
      PROVE  Start(t) < Start(x.reply)
  <2>1. PICK j \in f..(k - 1) : t = ts[j]
    BY <1>3 DEF ContextOf
  <2>2. f \in Nat /\ f >= 1 /\ k \in Nat /\ k <= Len(ts) /\ Len(ts) \in Nat
    BY <1>3, ChannelProperties DEF ContextOf, TurnsOf
  <2>3. j \in 1..Len(ts) /\ j < k
    BY <2>2
  <2>4. Time[Head(ts[j])] < Time[Head(ts[k])]
    BY <1>3, <2>3, TurnsApart
  <2>. QED  BY <1>3, <2>1, <2>4 DEF Start
<1>. QED  BY <1>4, <1>5 DEF Start

\* The examples of all channels, oldest reply first.
LEMMA ExamplesListed ==
  ASSUME NEW S \in SUBSET Messages
  PROVE  Lists(BuildExamples(S), AllExamples(S), Sooner(S))
<1> DEFINE E == AllExamples(S)
           R == Sooner(S)
           head == [x \in E |-> Head(x.reply)]
<1>1. \A x \in E : /\ Head(x.reply) \in ToSet(x.reply) /\ Head(x.reply) \in Messages
                   /\ Start(x.reply) = Time[Head(x.reply)]
                   /\ Time[Head(x.reply)] \in Nat /\ Chan[Head(x.reply)] \in Nat
  BY ReplyProperties, RecordAssumption
<1>2. ASSUME NEW x \in E, NEW y \in E, Head(x.reply) = Head(y.reply)
      PROVE  x = y
  <2>1. Head(x.reply) \in ToSet(x.reply) \cap ToSet(y.reply)
    BY <1>1, <1>2
  <2>. QED  BY <2>1, ExamplesApart
<1>3. IsFiniteSet(E)
  <2>1. head \in Injection(E, Messages)
    <3> HIDE DEF E
    <3>1. head \in [E -> Messages] /\ \A x \in E : head[x] = Head(x.reply)
      BY <1>1
    <3> HIDE DEF head
    <3>2. \A x, y \in E : head[x] = head[y] => x = y
      BY <1>2, <3>1
    <3>. QED  BY <3>1, <3>2 DEF Injection, IsInjective
  <2> HIDE DEF head, E
  <2>. QED  BY <2>1, RecordAssumption, FS_Injection
<1>4. \A x, y \in E : <<x, y>> \in R <=>
         \/ Time[Head(x.reply)] < Time[Head(y.reply)]
         \/ /\ Time[Head(x.reply)] = Time[Head(y.reply)]
            /\ Chan[Head(x.reply)] < Chan[Head(y.reply)]
  BY DEF Sooner, Start
<1> HIDE DEF E, R
<1>5. \A x \in E : <<x, x>> \notin R
  BY <1>1, <1>4
<1>6. ASSUME NEW x \in E, NEW y \in E, NEW z \in E, <<x, y>> \in R, <<y, z>> \in R
      PROVE  <<x, z>> \in R
  <2> DEFINE t(v) == Time[Head(v.reply)]
             h(v) == Chan[Head(v.reply)]
  <2>1. t(x) \in Nat /\ t(y) \in Nat /\ t(z) \in Nat /\ h(x) \in Nat /\ h(y) \in Nat /\ h(z) \in Nat
    BY <1>1
  <2>2. (t(x) < t(y) \/ (t(x) = t(y) /\ h(x) < h(y))) /\ (t(y) < t(z) \/ (t(y) = t(z) /\ h(y) < h(z)))
    BY <1>4, <1>6
  <2> HIDE DEF t, h
  <2>3. t(x) < t(z) \/ (t(x) = t(z) /\ h(x) < h(z))
    BY <2>1, <2>2
  <2>. QED  BY <1>4, <2>3 DEF t, h
<1>7. ASSUME NEW x \in E, NEW y \in E
      PROVE  x = y \/ <<x, y>> \in R \/ <<y, x>> \in R
  <2> DEFINE p == Head(x.reply)
             q == Head(y.reply)
  <2>1. /\ p \in Messages /\ q \in Messages /\ Time[p] \in Nat /\ Time[q] \in Nat
        /\ Chan[p] \in Nat /\ Chan[q] \in Nat /\ (p = q => x = y)
    BY <1>1, <1>2
  <2>2. /\ <<x, y>> \in R <=> Time[p] < Time[q] \/ (Time[p] = Time[q] /\ Chan[p] < Chan[q])
        /\ <<y, x>> \in R <=> Time[q] < Time[p] \/ (Time[q] = Time[p] /\ Chan[q] < Chan[p])
    BY <1>4
  <2> HIDE DEF p, q
  <2>3. p # q /\ Chan[p] = Chan[q] => Time[p] # Time[q]
    BY <2>1, RecordAssumption
  <2>4. \A i, j \in Nat : i = j \/ i < j \/ j < i
    OBVIOUS
  <2>5. (Time[p] = Time[q] \/ Time[p] < Time[q] \/ Time[q] < Time[p])
        /\ (Chan[p] = Chan[q] \/ Chan[p] < Chan[q] \/ Chan[q] < Chan[p])
    BY <2>1, <2>4
  <2>. QED  BY <2>1, <2>2, <2>3, <2>5
<1>8. Orders(R, E)
  BY <1>5, <1>6, <1>7 DEF Orders
<1>9. BuildExamples(S) = InOrder(E, R)
  BY DEF BuildExamples, E, R
<1>10. Lists(BuildExamples(S), E, R)
  BY <1>3, <1>8, <1>9, InOrderProperties
<1>. QED  BY <1>10 DEF E, R


\* There are not more examples for evaluation than examples.
LEMMA NEvalProperties ==
  ASSUME NEW n \in Nat
  PROVE  NEval(n) \in Nat /\ NEval(n) <= n
<1>1. CASE n = 0 \/ EvalOneIn = 0
  BY <1>1 DEF NEval
<1>2. CASE ~(n = 0 \/ EvalOneIn = 0)
  <2> DEFINE d == n \div EvalOneIn
  <2>1. EvalOneIn \in Nat /\ EvalOneIn >= 1 /\ n >= 1
    BY <1>2, DatasetAssumption
  <2>2. d \in Nat /\ d <= n
    BY <2>1
  <2>3. NEval(n) = Max({1, d})
    BY <1>2 DEF NEval
  <2> HIDE DEF d
  <2>4. {1, d} \in SUBSET (0..n) /\ {1, d} # {}
    BY <2>1, <2>2
  <2>5. Max({1, d}) \in {1, d}
    BY <2>4, MaxProperties
  <2>. QED  BY <2>1, <2>2, <2>3, <2>5
<1>. QED  BY <1>1, <1>2

\* What is evaluated comes after what is trained on in the list of examples.
LEMMA SplitProperties ==
  ASSUME NEW E, NEW es \in Seq(E), NEW x \in ToSet(Split(es).train), NEW y \in ToSet(Split(es).eval)
  PROVE  \E i, j \in 1..Len(es) : i < j /\ x = es[i] /\ y = es[j]
<1> DEFINE n == Len(es) - NEval(Len(es))
<1>1. Len(es) \in Nat
  OBVIOUS
<1>2. n \in 0..Len(es) /\ n \in Nat
  <2>1. NEval(Len(es)) \in Nat /\ NEval(Len(es)) <= Len(es)
    BY <1>1, NEvalProperties
  <2>. QED  BY <1>1, <2>1
<1>3. Split(es).train = SubSeq(es, 1, n) /\ Split(es).eval = SubSeq(es, n + 1, Len(es))
  BY DEF Split
<1> HIDE DEF n
<1>4. IsPart(SubSeq(es, 1, n), E, es, 1, n) /\ IsPart(SubSeq(es, n + 1, Len(es)), E, es, n + 1, Len(es))
  <2>1. 1 \in Nat \ {0} /\ n + 1 \in Nat \ {0} /\ Len(es) \in 0..Len(es)
    BY <1>1, <1>2
  <2>. QED  BY <1>2, <2>1, PartProperties
<1>5. PICK i \in 1..n : x = es[i]
  BY <1>3, <1>4 DEF IsPart
<1>6. PICK j \in (n + 1)..Len(es) : y = es[j]
  BY <1>3, <1>4 DEF IsPart
<1>7. i \in 1..Len(es) /\ j \in 1..Len(es) /\ i < j
  BY <1>1, <1>2
<1>. QED  BY <1>5, <1>6, <1>7

LEMMA ExamplesHeldOut ==
  ASSUME NEW S \in SUBSET Messages
  PROVE  HeldOut(S)
<1> DEFINE es == BuildExamples(S)
<1>. SUFFICES ASSUME NEW x \in ToSet(Split(es).train), NEW y \in ToSet(Split(es).eval)
              PROVE  /\ Start(x.reply) <= Start(y.reply)
                     /\ y.reply # x.reply /\ y.reply \notin ToSet(x.context)
  BY DEF HeldOut
<1>1. Lists(es, AllExamples(S), Sooner(S))
  BY ExamplesListed
<1> HIDE DEF es
<1>2. es \in Seq(AllExamples(S))
  BY <1>1 DEF Lists
<1>3. PICK i \in 1..Len(es), j \in 1..Len(es) : i < j /\ x = es[i] /\ y = es[j]
  BY <1>2, SplitProperties
<1>4. x \in AllExamples(S) /\ y \in AllExamples(S)
  BY <1>2, <1>3
<1>5. <<x, y>> \in Sooner(S) /\ x # y
  <2>1. <<x, y>> \in Sooner(S)
    BY <1>1, <1>3 DEF Lists
  <2>2. i # j
    BY <1>2, <1>3
  <2>. QED  BY <1>1, <1>3, <2>1, <2>2 DEF Lists
<1>6. Start(x.reply) \in Nat /\ Start(y.reply) \in Nat
  BY <1>4, ReplyProperties
<1>7. Start(x.reply) <= Start(y.reply)
  BY <1>5, <1>6 DEF Sooner
<1>8. y.reply # x.reply
  <2>1. Head(x.reply) \in ToSet(x.reply)
    BY <1>4, ReplyProperties
  <2>. QED  BY <1>4, <1>5, <2>1, ExamplesApart
<1>9. y.reply \notin ToSet(x.context)
  <2>1. \A t \in ToSet(x.context) : Start(t) < Start(x.reply)
    BY <1>4, ReplyProperties
  <2>. QED  BY <1>6, <1>7, <2>1
<1>. QED  BY <1>7, <1>8, <1>9


-----------------------------------------------------------------------------
(* The dataset: the context of its examples.                               *)

Whole(x) == UNION {ToSet(t) : t \in ToSet(x.context) \cup {x.reply}}

\* An example has the messages of its channel from a to b, all of them.
Spans(x, s, a, b) ==
  /\ a \in 1..Len(s) /\ b \in a..Len(s) /\ a \in Nat /\ b \in Nat
  /\ Head(Head(x.context)) = s[a] /\ Last(x.reply) = s[b]
  /\ \A m : m \in Whole(x) <=> \E p \in a..b : m = s[p]

LEMMA ExampleSpans ==
  ASSUME NEW S \in SUBSET Messages, NEW c, NEW k, NEW f, NEW x, ExampleOf(x, S, c, k, f),
         NEW s, s = Timeline(S, c)
  PROVE  Spans(x, s, From(s, f), Till(s, k))
<1> DEFINE ts == TurnsIn(S, c)
           a(i) == From(s, i)
           b(i) == Till(s, i)
<1>1. x.reply = ts[k] /\ ContextOf(x.context, ts, k, f) /\ InLine(s, Said(S, c)) /\ TurnsOf(ts, s)
  BY ChannelProperties DEF ExampleOf
<1> HIDE DEF ts
<1>2. /\ k \in Nat /\ f \in Nat /\ f >= 1 /\ f < k /\ k <= Len(ts) /\ Len(ts) \in Nat
      /\ Head(x.context) = ts[f]
      /\ \A t : t \in ToSet(x.context) <=> \E j \in f..(k - 1) : t = ts[j]
  BY <1>1 DEF ContextOf, TurnsOf
<1>3. f \in 1..Len(ts) /\ k \in 1..Len(ts) /\ \A j \in f..k : j \in 1..Len(ts)
  BY <1>2
<1>4. ASSUME NEW i \in 1..Len(ts)
      PROVE  /\ a(i) \in 1..Len(s) /\ b(i) \in a(i)..Len(s) /\ a(i) \in Nat /\ b(i) \in Nat
             /\ Head(ts[i]) = s[a(i)] /\ Last(ts[i]) = s[b(i)]
             /\ \A m : m \in ToSet(ts[i]) <=> \E p \in a(i)..b(i) : m = s[p]
  BY <1>1 DEF TurnsOf, TurnOf
<1>5. \A i, j \in 1..Len(ts) : i < j => b(i) < a(j)
  BY <1>1 DEF TurnsOf
<1>6. \A p \in 1..Len(s) : \E i \in 1..Len(ts) : p \in a(i)..b(i)
  BY <1>1 DEF TurnsOf
<1>7. Len(s) \in Nat
  BY <1>1 DEF InLine
<1> HIDE DEF a, b
<1>8. /\ a(f) \in 1..Len(s) /\ b(f) \in a(f)..Len(s) /\ a(f) \in Nat /\ b(f) \in Nat
      /\ a(k) \in 1..Len(s) /\ b(k) \in a(k)..Len(s) /\ a(k) \in Nat /\ b(k) \in Nat
      /\ b(f) < a(k)
  BY <1>2, <1>3, <1>4, <1>5
<1>9. b(k) \in a(f)..Len(s)
  BY <1>7, <1>8
<1>10. \A m : m \in Whole(x) <=> \E j \in f..k : m \in ToSet(ts[j])
  <2>1. \A t : t \in ToSet(x.context) \cup {x.reply} <=> \E j \in f..k : t = ts[j]
    <3>1. \A j \in f..k : j \in f..(k - 1) \/ j = k
      BY <1>2
    <3>2. k \in f..k /\ \A j \in f..(k - 1) : j \in f..k
      BY <1>2
    <3>. QED  BY <1>1, <1>2, <3>1, <3>2
  <2>. QED  BY <2>1 DEF Whole
<1>11. ASSUME NEW m \in Whole(x)
       PROVE  \E p \in a(f)..b(k) : m = s[p]
  <2>1. PICK j \in f..k : m \in ToSet(ts[j])
    BY <1>10
  <2>2. j \in 1..Len(ts) /\ j \in Nat /\ f <= j /\ j <= k
    BY <1>2, <1>3
  <2>3. PICK p \in a(j)..b(j) : m = s[p]
    BY <1>4, <2>1, <2>2
  <2>4. a(j) \in Nat /\ b(j) \in Nat /\ a(j) <= b(j) /\ p \in Nat /\ a(j) <= p /\ p <= b(j)
    <3>1. a(j) \in Nat /\ b(j) \in Nat /\ b(j) \in a(j)..Len(s)
      BY <1>4, <2>2
    <3>. QED  BY <1>7, <3>1
  <2>5. a(f) <= a(j)
    <3>1. CASE f = j
      BY <1>8, <3>1
    <3>2. CASE f < j
      <4>1. b(f) < a(j) /\ a(f) <= b(f)
        BY <1>3, <1>5, <1>8, <2>2, <3>2
      <4>. QED  BY <1>8, <2>4, <4>1
    <3>. QED  BY <1>2, <2>2, <3>1, <3>2
  <2>6. b(j) <= b(k)
    <3>1. CASE j = k
      BY <1>8, <3>1
    <3>2. CASE j < k
      <4>1. b(j) < a(k) /\ a(k) <= b(k)
        BY <1>3, <1>5, <1>8, <2>2, <3>2
      <4>. QED  BY <1>8, <2>4, <4>1
    <3>. QED  BY <1>2, <2>2, <3>1, <3>2
  <2>7. p \in a(f)..b(k)
    BY <1>8, <2>4, <2>5, <2>6
  <2>. QED  BY <2>3, <2>7
<1>12. ASSUME NEW p \in a(f)..b(k)
       PROVE  s[p] \in Whole(x)
  <2>1. p \in 1..Len(s) /\ p \in Nat /\ a(f) <= p /\ p <= b(k)
    BY <1>7, <1>8, <1>9
  <2>2. PICK j \in 1..Len(ts) : p \in a(j)..b(j)
    BY <1>6, <2>1
  <2>3. a(j) \in Nat /\ b(j) \in Nat /\ j \in Nat /\ a(j) <= p /\ p <= b(j)
    BY <1>4, <2>1, <2>2
  <2>4. ~(j < f)
    <3>1. j < f => b(j) < a(f)
      BY <1>3, <1>5
    <3>. QED  BY <1>8, <2>1, <2>3, <3>1
  <2>5. ~(k < j)
    <3>1. k < j => b(k) < a(j)
      BY <1>3, <1>5
    <3>. QED  BY <1>8, <2>1, <2>3, <3>1
  <2>6. j \in f..k
    BY <1>2, <2>3, <2>4, <2>5
  <2>7. s[p] \in ToSet(ts[j])
    BY <1>4, <2>2
  <2>. QED  BY <1>10, <2>6, <2>7
<1>13. Head(Head(x.context)) = s[a(f)] /\ Last(x.reply) = s[b(k)]
  BY <1>1, <1>2, <1>3, <1>4
<1>14. Spans(x, s, a(f), b(k))
  BY <1>8, <1>9, <1>11, <1>12, <1>13 DEF Spans
<1>. QED  BY <1>14 DEF a, b


\* Whether n can answer m: no silence between them.
Near(m, n) == Chan[m] = Chan[n] /\ Time[m] < Time[n] /\ Time[n] - Time[m] <= GapSeconds

\* What is said in the channel from the first message m on to the last of t.
Interval(S, m, t) == {n \in S \ Noise : Chan[n] = Chan[m] /\ Time[n] \in Time[m]..End(t)}

\* The context of an example is what preceded its reply, no more and no less.
Framed(S, x) ==
  LET first == Head(Head(x.context)) IN
  /\ Len(x.context) \in 1..ContextN
  /\ Whole(x) = Interval(S, first, x.reply)
  /\ \A m \in Whole(x) \ {Last(x.reply)} : \E n \in Whole(x) :
       Time[n] > Time[m] /\ Time[n] - Time[m] <= Max({GapSeconds, MergeSeconds})
  /\ Len(x.context) < ContextN => ~\E m \in S \ Noise : Near(m, first)

\* Between the limits of a silence and of a pause: the greater of the two.
LEMMA PauseProperties ==
  LET M == Max({GapSeconds, MergeSeconds}) IN M \in Nat /\ GapSeconds <= M /\ MergeSeconds <= M
<1>1. GapSeconds \in Nat /\ MergeSeconds \in Nat
  BY DatasetAssumption
<1>2. {GapSeconds, MergeSeconds} \in SUBSET (0..(GapSeconds + MergeSeconds))
      /\ GapSeconds + MergeSeconds \in Nat /\ {GapSeconds, MergeSeconds} # {}
  BY <1>1
<1>. QED  BY <1>2, MaxProperties

\* The messages of an example are those of its channel between its first and its
\* last.
LEMMA ExampleIsInterval ==
  ASSUME NEW S \in SUBSET Messages, NEW c, NEW s, InLine(s, Said(S, c)),
         NEW x, NEW a, NEW b, Spans(x, s, a, b),
         NEW first, first = Head(Head(x.context))
  PROVE  Whole(x) = Interval(S, first, x.reply)
<1>1. /\ a \in 1..Len(s) /\ b \in a..Len(s) /\ a \in Nat /\ b \in Nat /\ Len(s) \in Nat
      /\ first = s[a] /\ End(x.reply) = Time[s[b]]
      /\ \A m : m \in Whole(x) <=> \E p \in a..b : m = s[p]
  BY DEF Spans, InLine, End
<1>2. b \in 1..Len(s) /\ \A p \in a..b : p \in 1..Len(s) /\ p \in Nat
  BY <1>1
<1>3. \A i \in 1..Len(s) : s[i] \in Said(S, c) /\ Time[s[i]] \in Nat
  BY DEF InLine
<1>4. \A m : m \in Said(S, c) <=> m \in S \ Noise /\ Chan[m] = c
  BY DEF Said
<1>5. Chan[first] = c /\ Time[first] = Time[s[a]] /\ Time[s[a]] \in Nat /\ Time[s[b]] \in Nat
  BY <1>1, <1>2, <1>3, <1>4
<1>6. \A i, j \in 1..Len(s) : i < j <=> Time[s[i]] < Time[s[j]]
  BY DEF InLine
<1>7. \A i, j \in 1..Len(s) : i <= j <=> Time[s[i]] <= Time[s[j]]
  <2>. TAKE i, j \in 1..Len(s)
  <2>1. j < i <=> Time[s[j]] < Time[s[i]]
    BY <1>6
  <2>2. Time[s[i]] \in Nat /\ Time[s[j]] \in Nat /\ i \in Nat /\ j \in Nat
    BY <1>1, <1>3
  <2>. QED  BY <2>1, <2>2
<1>8. ASSUME NEW m \in Whole(x)
      PROVE  m \in S \ Noise /\ Chan[m] = c /\ Time[m] \in Time[s[a]]..Time[s[b]]
  <2>1. PICK p \in a..b : m = s[p]
    BY <1>1
  <2>2. p \in 1..Len(s) /\ a <= p /\ p <= b
    BY <1>1, <1>2
  <2>3. Time[s[a]] <= Time[s[p]] /\ Time[s[p]] <= Time[s[b]] /\ Time[s[p]] \in Nat
    BY <1>1, <1>2, <1>3, <1>7, <2>2
  <2>. QED  BY <1>3, <1>4, <1>5, <2>1, <2>2, <2>3
<1>9. ASSUME NEW m \in S \ Noise, Chan[m] = c, Time[m] \in Time[s[a]]..Time[s[b]]
      PROVE  m \in Whole(x)
  <2>1. PICK p \in 1..Len(s) : m = s[p]
    BY <1>4, <1>9 DEF InLine
  <2>2. Time[s[a]] <= Time[s[p]] /\ Time[s[p]] <= Time[s[b]]
    BY <1>3, <1>5, <1>9, <2>1
  <2>3. a <= p /\ p <= b
    BY <1>1, <1>2, <1>7, <2>1, <2>2
  <2>4. p \in a..b
    BY <1>1, <2>1, <2>3
  <2>. QED  BY <1>1, <2>1, <2>4
<1>. QED  BY <1>1, <1>5, <1>8, <1>9 DEF Interval

\* From one message of an example to the next there is neither a silence nor, in a
\* turn, a pause.
LEMMA ExampleHasNoGap ==
  ASSUME NEW S \in SUBSET Messages, NEW c, NEW k, NEW f, NEW x, ExampleOf(x, S, c, k, f),
         NEW m \in Whole(x) \ {Last(x.reply)}
  PROVE  \E n \in Whole(x) : Time[n] > Time[m] /\ Time[n] - Time[m] <= Max({GapSeconds, MergeSeconds})
<1> DEFINE s == Timeline(S, c)
           ts == TurnsIn(S, c)
           a(i) == From(s, i)
           b(i) == Till(s, i)
           M == Max({GapSeconds, MergeSeconds})
<1>1. ContextOf(x.context, ts, k, f) /\ InLine(s, Said(S, c)) /\ TurnsOf(ts, s)
  BY ChannelProperties DEF ExampleOf
<1>2. Spans(x, s, a(f), b(k))
  BY ExampleSpans
<1>3. M \in Nat /\ GapSeconds <= M /\ MergeSeconds <= M /\ GapSeconds \in Nat /\ MergeSeconds \in Nat
  BY PauseProperties, DatasetAssumption
<1> HIDE DEF s, ts, M
<1>4. /\ k \in Nat /\ f \in Nat /\ f >= 1 /\ f < k /\ k <= Len(ts) /\ Len(ts) \in Nat /\ Len(s) \in Nat
      /\ \A j \in f..(k - 1) : ~Silent(ts[j + 1], ts[j])
  BY <1>1 DEF ContextOf, TurnsOf, InLine
<1>5. ASSUME NEW i \in 1..Len(ts)
      PROVE  /\ a(i) \in 1..Len(s) /\ b(i) \in a(i)..Len(s) /\ a(i) \in Nat /\ b(i) \in Nat
             /\ Head(ts[i]) = s[a(i)] /\ Last(ts[i]) = s[b(i)]
             /\ \A p \in (a(i) + 1)..b(i) : Time[s[p]] - Time[s[p - 1]] <= MergeSeconds
  BY <1>1 DEF TurnsOf, TurnOf
<1>6. /\ \A i, j \in 1..Len(ts) : i < j => b(i) < a(j)
      /\ \A p \in 1..Len(s) : \E i \in 1..Len(ts) : p \in a(i)..b(i)
      /\ \A i \in 1..Len(ts) : i # Len(ts) => b(i) + 1 = a(i + 1)
  BY <1>1 DEF TurnsOf
<1>7. /\ \A i \in 1..Len(s) : Time[s[i]] \in Nat
      /\ \A i, j \in 1..Len(s) : i < j <=> Time[s[i]] < Time[s[j]]
  BY <1>1 DEF InLine
<1>8. /\ a(f) \in 1..Len(s) /\ b(k) \in a(f)..Len(s) /\ a(f) \in Nat /\ b(k) \in Nat
      /\ Last(x.reply) = s[b(k)] /\ \A n : n \in Whole(x) <=> \E p \in a(f)..b(k) : n = s[p]
  BY <1>2 DEF Spans
<1> HIDE DEF a, b
<1>9. PICK p \in a(f)..b(k) : m = s[p]
  BY <1>8
<1>10. p # b(k)
  BY <1>8, <1>9
<1>11. /\ p \in Nat /\ a(f) <= p /\ p < b(k) /\ p \in 1..Len(s) /\ p + 1 \in 1..Len(s)
       /\ p + 1 \in a(f)..b(k) /\ (p + 1) - 1 = p
  BY <1>4, <1>8, <1>10
<1>12. s[p + 1] \in Whole(x)
  BY <1>8, <1>11
<1>13. Time[s[p]] \in Nat /\ Time[s[p + 1]] \in Nat /\ Time[s[p]] < Time[s[p + 1]]
  BY <1>7, <1>11
<1>14. PICK j \in 1..Len(ts) : p + 1 \in a(j)..b(j)
  BY <1>6, <1>11
<1>15. a(j) \in Nat /\ b(j) \in Nat /\ j \in Nat /\ a(j) <= p + 1 /\ p + 1 <= b(j)
  BY <1>5, <1>14
<1>16. Time[s[p + 1]] - Time[s[p]] <= M
  <2>1. CASE a(j) # p + 1
    <3>1. p + 1 \in (a(j) + 1)..b(j)
      BY <1>11, <1>15, <2>1
    <3>2. Time[s[p + 1]] - Time[s[(p + 1) - 1]] <= MergeSeconds
      BY <1>5, <3>1
    <3>. QED  BY <1>3, <1>11, <1>13, <3>2
  <2>2. CASE a(j) = p + 1
    <3>1. f \in 1..Len(ts) /\ k \in 1..Len(ts)
      BY <1>4
    <3>2. ~(j < f)
      <4>1. j < f => b(j) < a(f)
        BY <1>6, <3>1
      <4>. QED  BY <1>8, <1>11, <1>15, <4>1
    <3>3. j # f
      BY <1>8, <1>11, <2>2
    <3>4. ~(k < j)
      <4>1. k < j => b(k) < a(j)
        BY <1>6, <3>1
      <4>. QED  BY <1>8, <1>11, <1>15, <4>1
    <3>5. j - 1 \in f..(k - 1) /\ (j - 1) + 1 = j /\ j - 1 \in 1..Len(ts) /\ j - 1 # Len(ts)
      BY <1>4, <1>15, <3>2, <3>3, <3>4
    <3>6. ~Silent(ts[j], ts[j - 1]) /\ b(j - 1) + 1 = a(j) /\ b(j - 1) \in Nat
      BY <1>4, <1>5, <1>6, <3>5
    <3>7. b(j - 1) = p
      BY <1>11, <2>2, <3>6
    <3>8. Head(ts[j]) = s[p + 1] /\ Last(ts[j - 1]) = s[p]
      BY <1>5, <2>2, <3>5, <3>7
    <3>9. ~(Time[s[p + 1]] - Time[s[p]] > GapSeconds)
      BY <3>6, <3>8 DEF Silent, Start, End
    <3>. QED  BY <1>3, <1>13, <3>9
  <2>. QED  BY <2>1, <2>2
<1>17. Time[s[p + 1]] > Time[m]
  BY <1>9, <1>13
<1>. QED  BY <1>9, <1>12, <1>16, <1>17 DEF M


\* A context short of the limit starts after a silence or where the channel starts.
LEMMA ExampleStartsAfterSilence ==
  ASSUME NEW S \in SUBSET Messages, NEW c, NEW k, NEW f, NEW x, ExampleOf(x, S, c, k, f),
         Len(x.context) < ContextN, NEW m \in S \ Noise
  PROVE  ~Near(m, Head(Head(x.context)))
<1> DEFINE s == Timeline(S, c)
           ts == TurnsIn(S, c)
           a(i) == From(s, i)
           b(i) == Till(s, i)
           first == Head(Head(x.context))
<1>1. ContextOf(x.context, ts, k, f) /\ InLine(s, Said(S, c)) /\ TurnsOf(ts, s)
  BY ChannelProperties DEF ExampleOf
<1>2. Spans(x, s, a(f), b(k))
  BY ExampleSpans
<1>3. GapSeconds \in Nat /\ ContextN \in Nat
  BY DatasetAssumption
<1> HIDE DEF s, ts
<1>4. /\ k \in Nat /\ f \in Nat /\ f >= 1 /\ f < k /\ k <= Len(ts) /\ Len(ts) \in Nat /\ Len(s) \in Nat
      /\ Len(x.context) = k - f
      /\ f > 1 => k - (f - 1) > ContextN \/ Silent(ts[f], ts[f - 1])
  BY <1>1 DEF ContextOf, TurnsOf, InLine
<1>5. ASSUME NEW i \in 1..Len(ts)
      PROVE  /\ a(i) \in 1..Len(s) /\ b(i) \in a(i)..Len(s) /\ a(i) \in Nat /\ b(i) \in Nat
             /\ Head(ts[i]) = s[a(i)] /\ Last(ts[i]) = s[b(i)]
  BY <1>1 DEF TurnsOf, TurnOf
<1>6. /\ \A i, j \in 1..Len(ts) : i < j => b(i) < a(j)
      /\ \A p \in 1..Len(s) : \E i \in 1..Len(ts) : p \in a(i)..b(i)
      /\ \A i \in 1..Len(ts) : i # Len(ts) => b(i) + 1 = a(i + 1)
  BY <1>1 DEF TurnsOf
<1>7. /\ \A i \in 1..Len(s) : Time[s[i]] \in Nat /\ s[i] \in Said(S, c)
      /\ \A i, j \in 1..Len(s) : i < j <=> Time[s[i]] < Time[s[j]]
      /\ \A n \in Said(S, c) : \E i \in 1..Len(s) : n = s[i]
  BY <1>1 DEF InLine
<1>8. a(f) \in 1..Len(s) /\ a(f) \in Nat /\ first = s[a(f)]
  BY <1>2 DEF Spans
<1> HIDE DEF a, b, first
<1>9. SUFFICES ASSUME Near(m, first)
               PROVE  FALSE
  BY DEF first
<1>10. Chan[m] = Chan[first] /\ Time[m] < Time[first] /\ Time[first] - Time[m] <= GapSeconds
  BY <1>9 DEF Near
<1>11. m \in Said(S, c)
  BY <1>7, <1>8, <1>10 DEF Said
<1>12. PICK p \in 1..Len(s) : m = s[p]
  BY <1>7, <1>11
<1>13. p < a(f) /\ p \in Nat
  BY <1>4, <1>7, <1>8, <1>10, <1>12
<1>14. PICK j \in 1..Len(ts) : p \in a(j)..b(j)
  BY <1>6
<1>15. a(j) \in Nat /\ b(j) \in Nat /\ j \in Nat /\ a(j) <= p /\ p <= b(j) /\ f \in 1..Len(ts) /\ j >= 1
  BY <1>4, <1>5, <1>13, <1>14
<1>16. j < f
  <2>1. j # f
    BY <1>8, <1>13, <1>15
  <2>2. ~(f < j)
    <3>1. f < j => b(f) < a(j)
      BY <1>6, <1>15
    <3>2. b(f) \in Nat /\ a(f) <= b(f)
      <4>1. b(f) \in a(f)..Len(s) /\ b(f) \in Nat
        BY <1>5, <1>15
      <4>. QED  BY <1>4, <1>8, <4>1
    <3>. QED  BY <1>8, <1>13, <1>15, <3>1, <3>2
  <2>. QED  BY <1>4, <1>15, <2>1, <2>2
<1>17. f > 1 /\ f - 1 \in 1..Len(ts) /\ f - 1 # Len(ts) /\ (f - 1) + 1 = f
  BY <1>4, <1>15, <1>16
<1>18. ~(k - (f - 1) > ContextN)
  BY <1>3, <1>4
<1>19. Silent(ts[f], ts[f - 1])
  BY <1>4, <1>17, <1>18
<1>20. b(f - 1) + 1 = a(f) /\ b(f - 1) \in Nat /\ b(f - 1) \in 1..Len(s)
  <2>1. b(f - 1) + 1 = a(f)
    BY <1>6, <1>17
  <2>2. a(f - 1) \in 1..Len(s) /\ b(f - 1) \in a(f - 1)..Len(s) /\ b(f - 1) \in Nat /\ a(f - 1) \in Nat
    BY <1>5, <1>17
  <2>. QED  BY <1>4, <2>1, <2>2
<1>21. Time[s[a(f)]] - Time[s[b(f - 1)]] > GapSeconds
  <2>1. Head(ts[f]) = s[a(f)] /\ Last(ts[f - 1]) = s[b(f - 1)]
    BY <1>5, <1>15, <1>17
  <2>. QED  BY <1>19, <2>1 DEF Silent, Start, End
<1>22. Time[s[p]] <= Time[s[b(f - 1)]]
  <2>1. p = b(f - 1) \/ p < b(f - 1)
    BY <1>8, <1>13, <1>20
  <2>2. p < b(f - 1) => Time[s[p]] < Time[s[b(f - 1)]]
    BY <1>7, <1>20
  <2>3. Time[s[p]] \in Nat /\ Time[s[b(f - 1)]] \in Nat
    BY <1>7, <1>20
  <2>. QED  BY <2>1, <2>2, <2>3
<1>23. Time[s[p]] \in Nat /\ Time[s[b(f - 1)]] \in Nat /\ Time[s[a(f)]] \in Nat
  BY <1>7, <1>8, <1>20
<1>24. Time[s[a(f)]] - Time[s[p]] <= GapSeconds
  BY <1>8, <1>10, <1>12
<1>. QED  BY <1>3, <1>21, <1>22, <1>23, <1>24

LEMMA ExamplesFramed ==
  ASSUME NEW S \in SUBSET Messages, NEW x \in AllExamples(S)
  PROVE  Framed(S, x)
<1>1. PICK c \in Channels : \E k, f \in Nat : ExampleOf(x, S, c, k, f)
  BY ExamplesShape
<1>2. PICK k \in Nat, f \in Nat : ExampleOf(x, S, c, k, f)
  BY <1>1
<1> DEFINE first == Head(Head(x.context))
           s == Timeline(S, c)
<1>3. Len(x.context) \in 1..ContextN
  <2>1. k \in Nat /\ f \in Nat /\ f < k /\ Len(x.context) = k - f /\ k - f <= ContextN
    BY <1>2 DEF ExampleOf, ContextOf
  <2>. QED  BY <2>1, DatasetAssumption
<1>4. Whole(x) = Interval(S, first, x.reply)
  <2>1. InLine(s, Said(S, c)) /\ Spans(x, s, From(s, f), Till(s, k))
    BY <1>2, ChannelProperties, ExampleSpans
  <2>2. first = Head(Head(x.context))
    OBVIOUS
  <2> HIDE DEF first, s
  <2>. QED  BY <2>1, <2>2, ExampleIsInterval
<1>5. \A m \in Whole(x) \ {Last(x.reply)} : \E n \in Whole(x) :
        Time[n] > Time[m] /\ Time[n] - Time[m] <= Max({GapSeconds, MergeSeconds})
  BY <1>2, ExampleHasNoGap
<1>6. Len(x.context) < ContextN => ~\E m \in S \ Noise : Near(m, first)
  BY <1>2, ExampleStartsAfterSilence
<1>. QED  BY <1>3, <1>4, <1>5, <1>6, Zenon DEF Framed


Lone(S, m) == ~\E n \in (S \ Noise) \ {m} : Author[n] = Author[m] /\ Chan[n] = Chan[m]

\* A message between those of others is a turn of its own, and the answer to what
\* came just before is an example.
LEMMA AnswersAreExamples ==
  ASSUME NEW S \in SUBSET Messages, NEW m \in (S \ Noise) \ (Images \cup LongNumbers),
         Author[m] \in UserIds, Chars[m] >= MinChars, ContextN > 0, Lone(S, m),
         NEW n \in S \ Noise, Near(n, m)
  PROVE  \E x \in AllExamples(S) : m \in ToSet(x.reply)
<1> DEFINE c == Chan[m]
           s == Timeline(S, c)
           ts == TurnsIn(S, c)
           a(i) == From(s, i)
           b(i) == Till(s, i)
<1>1. InLine(s, Said(S, c)) /\ TurnsOf(ts, s)
  BY ChannelProperties
<1>2. c \in Channels /\ m \in Said(S, c) /\ n \in Said(S, c) /\ Chars[m] \in Nat /\ GapSeconds \in Nat
  BY DatasetAssumption DEF Channels, Said, Near
<1>3. \A k \in 1..Len(ts) : IsTarget(ts[k]) /\ Context(ts, k) # <<>> =>
        \E x \in AllExamples(S) : x.reply = ts[k]
  BY <1>2, ExamplesShape
<1>4. \A l \in Said(S, c) : l # m => Author[l] # Author[m]
  BY DEF Said, Lone
<1> HIDE DEF c, s, ts
<1>5. /\ Len(ts) \in Nat /\ Len(s) \in Nat
      /\ \A i \in 1..Len(s) : s[i] \in Said(S, c) /\ Time[s[i]] \in Nat
      /\ \A l \in Said(S, c) : \E i \in 1..Len(s) : l = s[i]
      /\ \A i, j \in 1..Len(s) : i < j <=> Time[s[i]] < Time[s[j]]
  BY <1>1 DEF TurnsOf, InLine
<1>6. ASSUME NEW i \in 1..Len(ts)
      PROVE  /\ a(i) \in 1..Len(s) /\ b(i) \in a(i)..Len(s) /\ a(i) \in Nat /\ b(i) \in Nat
             /\ Head(ts[i]) = s[a(i)] /\ Last(ts[i]) = s[b(i)]
             /\ \A l : l \in ToSet(ts[i]) <=> \E p \in a(i)..b(i) : l = s[p]
             /\ \A p \in (a(i) + 1)..b(i) : Author[s[p - 1]] = Author[s[p]]
  BY <1>1 DEF TurnsOf, TurnOf
<1>7. /\ \A i, j \in 1..Len(ts) : i < j => b(i) < a(j)
      /\ \A p \in 1..Len(s) : \E i \in 1..Len(ts) : p \in a(i)..b(i)
      /\ \A i \in 1..Len(ts) : i # Len(ts) => b(i) + 1 = a(i + 1)
  BY <1>1 DEF TurnsOf
<1> HIDE DEF a, b
<1>8. PICK p \in 1..Len(s) : m = s[p]
  BY <1>2, <1>5
<1>9. PICK r \in 1..Len(s) : n = s[r]
  BY <1>2, <1>5
<1>10. Time[n] < Time[m] /\ Time[m] - Time[n] <= GapSeconds
  BY DEF Near
<1>11. r < p /\ r \in Nat /\ p \in Nat
  BY <1>5, <1>8, <1>9, <1>10
<1>12. PICK k \in 1..Len(ts) : p \in a(k)..b(k)
  BY <1>7
<1>13. /\ a(k) \in Nat /\ b(k) \in Nat /\ b(k) \in a(k)..Len(s) /\ a(k) >= 1 /\ b(k) <= Len(s)
       /\ a(k) <= p /\ p <= b(k) /\ k \in Nat
  <2>1. a(k) \in 1..Len(s) /\ b(k) \in a(k)..Len(s) /\ a(k) \in Nat /\ b(k) \in Nat
    BY <1>6
  <2>. QED  BY <1>5, <1>11, <1>12, <2>1
<1>14. \A i \in 1..Len(s) : i # p => Author[s[i]] # Author[m]
  <2>1. \A i \in 1..Len(s) : i # p => s[i] # m
    <3>. SUFFICES ASSUME NEW i \in 1..Len(s), i # p, s[i] = m PROVE FALSE
      OBVIOUS
    <3>1. i \in Nat /\ Time[m] \in Nat
      BY <1>5, <1>8
    <3>2. i < p \/ p < i
      BY <1>11, <3>1
    <3>3. Time[m] < Time[m]
      BY <1>5, <1>8, <3>2
    <3>. QED  BY <3>1, <3>3
  <2>. QED  BY <1>4, <1>5, <2>1
<1>15. a(k) = p
  <2>1. SUFFICES ASSUME a(k) # p PROVE FALSE
    OBVIOUS
  <2>2. p \in (a(k) + 1)..b(k) /\ p - 1 \in 1..Len(s) /\ p - 1 # p
    BY <1>5, <1>11, <1>13, <2>1
  <2>3. Author[s[p - 1]] = Author[s[p]]
    BY <1>6, <2>2
  <2>. QED  BY <1>8, <1>14, <2>2, <2>3
<1>16. b(k) = p
  <2>1. SUFFICES ASSUME b(k) # p PROVE FALSE
    OBVIOUS
  <2>2. p + 1 \in (a(k) + 1)..b(k) /\ p + 1 \in 1..Len(s) /\ p + 1 # p /\ (p + 1) - 1 = p
    BY <1>5, <1>11, <1>13, <2>1
  <2>3. Author[s[(p + 1) - 1]] = Author[s[p + 1]]
    BY <1>6, <2>2
  <2>. QED  BY <1>8, <1>14, <2>2, <2>3
<1>17. ToSet(ts[k]) = {m} /\ Head(ts[k]) = m
  <2>1. \A l : l \in ToSet(ts[k]) <=> \E i \in a(k)..b(k) : l = s[i]
    BY <1>6
  <2>2. \A i \in a(k)..b(k) : i = p
    BY <1>11, <1>15, <1>16
  <2>3. p \in a(k)..b(k)
    BY <1>12
  <2>4. \A l : l \in ToSet(ts[k]) <=> l = m
    BY <1>8, <2>1, <2>2, <2>3
  <2>5. Head(ts[k]) = m
    BY <1>6, <1>8, <1>15
  <2>. QED  BY <2>4, <2>5
<1>18. IsTarget(ts[k])
  <2>1. Total({m}, Chars) = Chars[m]
    BY <1>2, TotalOfOne
  <2>. QED  BY <1>17, <2>1 DEF IsTarget
<1>19. k # 1 /\ k - 1 \in 1..Len(ts) /\ b(k - 1) + 1 = p /\ b(k - 1) \in Nat
  <2>1. PICK j \in 1..Len(ts) : r \in a(j)..b(j)
    BY <1>7
  <2>2. a(j) \in Nat /\ b(j) \in Nat /\ a(j) <= r /\ r <= b(j) /\ j \in Nat /\ j >= 1
    BY <1>5, <1>6, <1>11, <2>1
  <2>3. j # k
    BY <1>11, <1>15, <2>2
  <2>4. ~(k < j)
    <3>1. k < j => b(k) < a(j)
      BY <1>7
    <3>. QED  BY <1>11, <1>16, <2>2, <3>1
  <2>5. k # 1 /\ k - 1 \in 1..Len(ts) /\ k - 1 # Len(ts) /\ (k - 1) + 1 = k
    BY <1>5, <1>13, <2>2, <2>3, <2>4
  <2>6. b(k - 1) + 1 = a(k) /\ b(k - 1) \in Nat
    BY <1>6, <1>7, <2>5
  <2>. QED  BY <1>15, <2>5, <2>6
<1>20. ~Silent(ts[k], ts[k - 1])
  <2>1. Start(ts[k]) = Time[m] /\ End(ts[k - 1]) = Time[s[b(k - 1)]]
    BY <1>6, <1>17, <1>19 DEF Start, End
  <2>2. b(k - 1) \in 1..Len(s) /\ r <= b(k - 1)
    BY <1>5, <1>11, <1>19
  <2>3. Time[n] <= Time[s[b(k - 1)]]
    <3>1. r = b(k - 1) \/ r < b(k - 1)
      BY <1>11, <1>19, <2>2
    <3>2. r < b(k - 1) => Time[s[r]] < Time[s[b(k - 1)]]
      BY <1>5, <2>2
    <3>3. Time[s[r]] \in Nat /\ Time[s[b(k - 1)]] \in Nat
      BY <1>5, <2>2
    <3>. QED  BY <1>9, <3>1, <3>2, <3>3
  <2>4. Time[n] \in Nat /\ Time[m] \in Nat /\ Time[s[b(k - 1)]] \in Nat
    BY <1>5, <1>8, <1>9, <2>2
  <2>5. ~(Time[m] - Time[s[b(k - 1)]] > GapSeconds)
    <3>1. GapSeconds \in Nat
      BY <1>2
    <3>2. Time[m] - Time[n] <= GapSeconds
      BY <1>10
    <3>. QED  BY <2>3, <2>4, <3>1, <3>2
  <2>. QED  BY <2>1, <2>5 DEF Silent
<1>21. Context(ts, k) # <<>>
  BY <1>1, <1>19, <1>20, ContextProperties
<1>22. PICK x \in AllExamples(S) : x.reply = ts[k]
  BY <1>3, <1>18, <1>21
<1>. QED  BY <1>17, <1>22

LEMMA ExamplesInContext ==
  ASSUME NEW S \in SUBSET Messages
  PROVE  InContext(S)
<1> DEFINE es == BuildExamples(S)
<1>1. Lists(es, AllExamples(S), Sooner(S))
  BY ExamplesListed
<1> HIDE DEF es
<1>2. /\ es \in Seq(AllExamples(S)) /\ Len(es) \in Nat
      /\ \A x \in AllExamples(S) : \E i \in 1..Len(es) : x = es[i]
      /\ \A i, j \in 1..Len(es) : es[i] = es[j] => i = j
  BY <1>1 DEF Lists
<1>3. \A i \in 1..Len(es) : es[i] \in AllExamples(S)
  BY <1>2
<1>4. \A x \in ToSet(es) : Framed(S, x)
  <2>1. \A x \in ToSet(es) : x \in AllExamples(S)
    BY <1>2 DEF ToSet
  <2>. QED  BY <2>1, ExamplesFramed
<1>5. \A i, j \in 1..Len(es) : i # j => ToSet(es[i].reply) \cap ToSet(es[j].reply) = {}
  BY <1>2, <1>3, ExamplesApart
<1>6. ASSUME NEW m \in (S \ Noise) \ (Images \cup LongNumbers),
             Author[m] \in UserIds, Chars[m] >= MinChars, ContextN > 0,
             \E n \in S \ Noise : Near(n, m) /\ Author[n] # Author[m], Lone(S, m)
      PROVE  \E i \in 1..Len(es) : m \in ToSet(es[i].reply)
  <2>1. PICK x \in AllExamples(S) : m \in ToSet(x.reply)
    BY <1>6, AnswersAreExamples
  <2>. QED  BY <1>2, <2>1
<1>7. \A m \in (S \ Noise) \ (Images \cup LongNumbers) :
        (/\ Author[m] \in UserIds /\ Chars[m] >= MinChars /\ ContextN > 0
         /\ \E n \in S \ Noise : Near(n, m) /\ Author[n] # Author[m]
         /\ Lone(S, m)) =>
          \E i \in 1..Len(es) : m \in ToSet(es[i].reply)
  BY <1>6
<1>. QED  BY <1>4, <1>5, <1>7, Zenon DEF InContext, es, Framed, Whole, Interval, Near, Lone

\* Whatever the archive holds, the builder keeps the evaluation apart from the
\* training and gives every reply the context that preceded it, and nothing else
\* (build_examples, split_by_time).
THEOREM DatasetsAreSound == Spec => []DatasetIsSound
<1>1. \A S \in SUBSET Messages : S \in SoundParts
  <2>. TAKE S \in SUBSET Messages
  <2>1. HeldOut(S) /\ InContext(S)
    BY ExamplesHeldOut, ExamplesInContext
  <2>. QED  BY <2>1 DEF SoundParts
<1>2. IngestInv => DatasetIsSound
  <2>1. IngestInv => archive \subseteq Messages
    BY DEF IngestInv, TypeOK
  <2>. QED  BY <1>1, <2>1 DEF DatasetIsSound
<1>. QED  BY <1>2, IngestInvariance, PTL
=============================================================================
