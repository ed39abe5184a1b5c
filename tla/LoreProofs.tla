------------------------------ MODULE LoreProofs ------------------------------
(***************************************************************************)
(* Proofs about Lore, for any number of offers, messages and restarts.  A   *)
(* thread that is not retired under a follow-up has one lock, so one turn   *)
(* at a time touches its transcript: its answer directly follows its own    *)
(* question, and the positions that a compaction noted before it asked for  *)
(* a summary are still those of research when it gets one.                  *)
(***************************************************************************)
EXTENDS Lore, SequenceLemmas

Question(m) == [kind |-> "question", by |-> m]
AnswerOf(m) == [kind |-> "answer", by |-> m]

\* The files say which sessions and entries there are as soon as the stores do.
SyncInv ==
  disk.pending = pending /\ disk.live = live /\ disk.registered = registered

\* A session that is on offer or in a thread has been seeded, and only one of
\* the two holds; the lore threads that are not routed are still to be visited.
SessionInv ==
  /\ pending \cap live = {} /\ registered \subseteq live
  /\ \A o \in pending \cup live : transcript[o] # <<>> /\ disk.transcript[o] # <<>>
  /\ registered \ missed \subseteq routed \cup restoring

\* A follow-up under way is in a thread whose offer was claimed.
TurnInv ==
  \A m \in Messages : at[m] \in UnderWay =>
    to[m] \notin pending /\ transcript[to[m]] # <<>>

\* The handlers of a thread all use its one lock.
LockInv ==
  \A m \in Messages : (at[m] \in {"queued"} \cup Holding /\ to[m] \notin stray) =>
    lockOf[m] = locks[to[m]] /\ lockOf[m] # NoOne

\* So that one of them at a time gets to the transcript.
AloneInv ==
  \A m, n \in Messages :
    (at[m] \in Holding /\ at[n] \in Holding /\ to[m] = to[n] /\ to[m] \notin stray) => m = n

\* TurnsDoNotInterleave, for one transcript.
Apart(s) ==
  \A i \in 1..Len(s) : (s[i].kind = "answer" /\ s[i].by # NoOne) =>
    \E j \in 1..i : s[j] = Question(s[i].by) /\ \A k \in j..i : s[k].by \in {s[i].by, NoOne}

TranscriptInv ==
  \A t \in Offers \ stray : Apart(transcript[t]) /\ Apart(disk.transcript[t])

\* The transcript ends with what m has said.
Speaks(s, m) ==
  \E j \in 1..Len(s) : s[j] = Question(m) /\ \A k \in j..Len(s) : s[k].by \in {m, NoOne}

SpeakInv ==
  \A m \in Messages : (at[m] \in {"searching", "answering"} /\ to[m] \notin stray) =>
    Speaks(transcript[to[m]], m)

\* What a compaction is about to remove is research, and is still there.
CutInv ==
  \A m \in Messages : (at[m] = "summarising" /\ to[m] \notin stray) =>
    cut[m] # {} /\ cut[m] \subseteq ResearchIn(to[m])

\* An answer is in the session, in memory and on disk, before it is posted.
KeptInv ==
  /\ \A m \in shown : at[m] # "unsent"
  /\ \A m \in Messages : ((m \in shown \/ at[m] = "posting") /\ to[m] \notin stray) =>
       /\ AnswerOf(m) \in Range(transcript[to[m]])
       /\ to[m] \in pending \cup live => AnswerOf(m) \in Range(disk.transcript[to[m]])

IInv ==
  /\ TypeOK /\ SyncInv /\ SessionInv /\ TurnInv
  /\ LockInv /\ AloneInv /\ TranscriptInv /\ SpeakInv /\ CutInv /\ KeptInv

-----------------------------------------------------------------------------
(* Transcripts.                                                            *)

LEMMA EntryFacts ==
  ASSUME NEW k \in {"question", "research", "answer"}, NEW m \in Messages \cup {NoOne}
  PROVE  [kind |-> k, by |-> m] \in Entry
  BY DEF Entry

\* What an entry added to the end of a transcript changes.
LEMMA AppendFacts ==
  ASSUME NEW s \in Seq(Entry), NEW e \in Entry
  PROVE  LET t == Append(s, e) IN
         /\ t \in Seq(Entry) /\ t # <<>>
         /\ Range(s) \subseteq Range(t) /\ e \in Range(t)
<1> DEFINE t == Append(s, e)
<1>1. t \in Seq(Entry) /\ Len(t) = Len(s) + 1 /\ DOMAIN t = 1..Len(t) /\ DOMAIN s = 1..Len(s)
      /\ Len(s) \in Nat /\ t[Len(s) + 1] = e /\ \A i \in 1..Len(s) : t[i] = s[i]
  OBVIOUS
<1> HIDE DEF t
<1>2. t # <<>>
  BY <1>1
<1>3. \A i \in 1..Len(s) : i \in 1..Len(t)
  BY <1>1
<1>4. Len(s) + 1 \in 1..Len(t)
  BY <1>1
<1>5. Range(s) \subseteq Range(t) /\ e \in Range(t)
  BY <1>1, <1>3, <1>4 DEF Range
<1>. QED  BY <1>1, <1>2, <1>5 DEF t

LEMMA AppendSpeaks ==
  ASSUME NEW s \in Seq(Entry), NEW e \in Entry, NEW m \in Messages,
         e.by = m, e = Question(m) \/ Speaks(s, m)
  PROVE  Speaks(Append(s, e), m)
<1> DEFINE t == Append(s, e)
<1>1. Len(t) = Len(s) + 1 /\ Len(s) \in Nat /\ t[Len(s) + 1] = e
      /\ \A i \in 1..Len(s) : t[i] = s[i]
  OBVIOUS
<1> HIDE DEF t
<1>2. CASE e = Question(m)
  <2>1. Len(t) \in 1..Len(t) /\ t[Len(t)] = Question(m)
    BY <1>1, <1>2
  <2>2. \A k \in Len(t)..Len(t) : t[k].by \in {m, NoOne}
    BY <1>1
  <2>. QED  BY <2>1, <2>2 DEF Speaks, t
<1>3. CASE Speaks(s, m)
  <2>1. PICK j \in 1..Len(s) : s[j] = Question(m) /\ \A k \in j..Len(s) : s[k].by \in {m, NoOne}
    BY <1>3 DEF Speaks
  <2>2. j \in 1..Len(t) /\ t[j] = Question(m)
    BY <1>1, <2>1
  <2>3. \A k \in j..Len(t) : t[k].by \in {m, NoOne}
    <3>. TAKE k \in j..Len(t)
    <3>1. CASE k = Len(t)
      BY <1>1, <3>1
    <3>2. CASE k # Len(t)
      <4>1. k \in j..Len(s) /\ k \in 1..Len(s)
        BY <1>1, <3>2
      <4>. QED  BY <1>1, <2>1, <4>1
    <3>. QED  BY <3>1, <3>2
  <2>. QED  BY <2>2, <2>3 DEF Speaks, t
<1>. QED  BY <1>2, <1>3

LEMMA AppendApart ==
  ASSUME NEW s \in Seq(Entry), NEW e \in Entry, Apart(s),
         e.kind # "answer" \/ e.by = NoOne \/ Speaks(s, e.by)
  PROVE  Apart(Append(s, e))
<1> DEFINE t == Append(s, e)
<1>1. Len(t) = Len(s) + 1 /\ Len(s) \in Nat /\ t[Len(s) + 1] = e
      /\ \A i \in 1..Len(s) : t[i] = s[i]
  OBVIOUS
<1> HIDE DEF t
<1>2. SUFFICES ASSUME NEW i \in 1..Len(t), t[i].kind = "answer" /\ t[i].by # NoOne
               PROVE  \E j \in 1..i : t[j] = Question(t[i].by)
                                     /\ \A k \in j..i : t[k].by \in {t[i].by, NoOne}
  BY DEF Apart, t
<1>3. CASE i \in 1..Len(s)
  <2>1. t[i] = s[i]
    BY <1>1, <1>3
  <2>2. PICK j \in 1..i : s[j] = Question(s[i].by) /\ \A k \in j..i : s[k].by \in {s[i].by, NoOne}
    BY <1>2, <1>3, <2>1 DEF Apart
  <2>3. \A k \in j..i : k \in 1..Len(s)
    BY <1>1, <1>3
  <2>4. j \in j..i
    OBVIOUS
  <2>. QED  BY <1>1, <2>1, <2>2, <2>3, <2>4
<1>4. CASE i = Len(s) + 1
  <2>1. t[i] = e /\ Speaks(s, e.by)
    BY <1>1, <1>2, <1>4
  <2>2. PICK j \in 1..Len(s) : s[j] = Question(e.by) /\ \A k \in j..Len(s) : s[k].by \in {e.by, NoOne}
    BY <2>1 DEF Speaks
  <2>3. j \in 1..i /\ t[j] = Question(e.by)
    BY <1>1, <1>4, <2>2
  <2>4. \A k \in j..i : t[k].by \in {e.by, NoOne}
    <3>. TAKE k \in j..i
    <3>1. CASE k = i
      BY <2>1, <3>1
    <3>2. CASE k # i
      <4>1. k \in j..Len(s) /\ k \in 1..Len(s)
        BY <1>1, <1>4, <3>2
      <4>. QED  BY <1>1, <2>2, <4>1
    <3>. QED  BY <3>1, <3>2
  <2>. QED  BY <2>1, <2>3, <2>4
<1>. QED  BY <1>1, <1>3, <1>4

LEMMA SeedFacts ==
  /\ Seed \in Seq(Entry) /\ Seed # <<>> /\ Apart(Seed)
<1>1. Len(Seed) = 3 /\ Seed[1].by = NoOne /\ Seed[2].by = NoOne /\ Seed[3].by = NoOne
  BY DEF Seed
<1>2. Seed \in Seq(Entry) /\ Seed # <<>>
  BY DEF Seed, Entry
<1>3. \A i \in 1..Len(Seed) : Seed[i].by = NoOne
  BY <1>1
<1>. QED  BY <1>2, <1>3 DEF Apart

LEMMA EmptyApart == Apart(<<>>)
  BY DEF Apart

\* The positions of research in a transcript.
Research(s) == {i \in 1..Len(s) : s[i].kind = "research"}

Summary == [kind |-> "research", by |-> NoOne]

\* The transcript c is s with the research at the positions gone condensed:
\* position k of c was position p[k] of s.
IsCondensed(c, s, p, first) ==
  /\ c \in Seq(Entry) /\ Len(c) \in Nat /\ p \in [1..Len(c) -> 1..Len(s)]
  /\ \A i, j \in 1..Len(c) : i < j => p[i] < p[j]
  /\ \A k \in 1..Len(c) : c[k] = IF p[k] = first THEN Summary ELSE s[p[k]]

LEMMA CondensedShape ==
  ASSUME NEW s \in Seq(Entry), NEW gone \in SUBSET (Nat \ {0})
  PROVE  \E first, p :
           /\ IsCondensed(Condensed(s, gone), s, p, first)
           /\ gone # {} => first \in gone /\ \A i \in gone : first <= i
           /\ \A i \in 1..Len(s) : (i = first \/ i \notin gone) =>
                \E k \in 1..Len(Condensed(s, gone)) : p[k] = i
<1> DEFINE first == CHOOSE i \in gone : \A j \in gone : i <= j
           u == [i \in 1..Len(s) |-> IF i = first THEN Summary ELSE s[i]]
           K == {i \in 1..Len(s) : i = first \/ i \notin gone}
           n == Cardinality(K)
           p == [k \in 1..n |-> Nth(K, k)]
           c == Condensed(s, gone)
<1>1. gone # {} => first \in gone /\ \A i \in gone : first <= i
  BY LeastOfSet
<1>2. c = Selected(u, K)
  BY DEF Condensed, Summary
<1> HIDE DEF first
<1>3. u \in Seq(Entry) /\ Len(u) = Len(s) /\ Len(s) \in Nat
      /\ \A i \in 1..Len(s) : u[i] = IF i = first THEN Summary ELSE s[i]
  <2>1. Summary \in Entry
    BY EntryFacts DEF Summary
  <2>2. Len(s) \in Nat /\ \A i \in 1..Len(s) : s[i] \in Entry
    OBVIOUS
  <2>3. u \in [1..Len(s) -> Entry]
    BY <2>1, <2>2
  <2>. QED  BY <2>2, <2>3
<1> HIDE DEF u
<1>4. K \in SUBSET (1..Len(u))
  BY <1>3
<1>5. K \in SUBSET (1..Len(s))
  OBVIOUS
<1>6. \A i \in 1..Len(s) : (i = first \/ i \notin gone) => i \in K
  OBVIOUS
<1> HIDE DEF K, c
<1>7. c \in Seq(Entry) /\ Len(c) = n /\ \A k \in 1..n : c[k] = u[Nth(K, k)]
  BY <1>2, <1>3, <1>4, SelectedProperties
<1>8. ListsAll(K)
  BY <1>3, <1>5, NthProperties
<1>9. /\ n \in Nat /\ p \in [1..n -> 1..Len(s)]
      /\ \A k \in 1..n : p[k] = Nth(K, k)
      /\ \A i, j \in 1..n : i < j => p[i] < p[j]
      /\ \A i \in K : \E k \in 1..n : p[k] = i
  BY <1>5, <1>8 DEF ListsAll
<1> HIDE DEF n, p
<1>10. IsCondensed(c, s, p, first)
  <2>1. \A k \in 1..n : p[k] \in 1..Len(s) /\ c[k] = u[p[k]]
    BY <1>7, <1>9
  <2>2. \A k \in 1..n : c[k] = IF p[k] = first THEN Summary ELSE s[p[k]]
    BY <1>3, <2>1
  <2>. QED  BY <1>7, <1>9, <2>2 DEF IsCondensed
<1>11. \A i \in 1..Len(s) : (i = first \/ i \notin gone) => \E k \in 1..Len(c) : p[k] = i
  BY <1>6, <1>7, <1>9
<1>. QED  BY <1>1, <1>10, <1>11 DEF c

LEMMA CondensedTyped ==
  ASSUME NEW s \in Seq(Entry), NEW gone \in SUBSET (Nat \ {0})
  PROVE  Condensed(s, gone) \in Seq(Entry) /\ (s # <<>> => Condensed(s, gone) # <<>>)
<1> DEFINE c == Condensed(s, gone)
<1>1. PICK first, p :
        /\ IsCondensed(c, s, p, first)
        /\ gone # {} => first \in gone /\ \A i \in gone : first <= i
        /\ \A i \in 1..Len(s) : (i = first \/ i \notin gone) => \E k \in 1..Len(c) : p[k] = i
  BY CondensedShape
<1> HIDE DEF c
<1>2. ASSUME s # <<>> PROVE c # <<>>
  <2>1. 1 \in 1..Len(s)
    BY <1>2
  <2>2. 1 = first \/ 1 \notin gone
    <3>1. CASE 1 \in gone
      <4>1. first \in Nat \ {0} /\ first <= 1
        BY <1>1, <3>1
      <4>. QED  BY <4>1
    <3>. QED  BY <3>1
  <2>3. \E k \in 1..Len(c) : TRUE
    BY <1>1, <2>1, <2>2
  <2>. QED  BY <2>3
<1>. QED  BY <1>1, <1>2 DEF IsCondensed, c

\* Condensing research leaves the turns as they were.
LEMMA CondensedFacts ==
  ASSUME NEW s \in Seq(Entry), NEW gone \in SUBSET (Nat \ {0}),
         gone # {}, gone \subseteq Research(s)
  PROVE  /\ Apart(s) => Apart(Condensed(s, gone))
         /\ \A e \in Range(s) : e.kind # "research" => e \in Range(Condensed(s, gone))
         /\ Turns(Condensed(s, gone)) = Turns(s)
<1> DEFINE c == Condensed(s, gone)
<1>1. PICK first, p :
        /\ IsCondensed(c, s, p, first)
        /\ gone # {} => first \in gone /\ \A i \in gone : first <= i
        /\ \A i \in 1..Len(s) : (i = first \/ i \notin gone) => \E k \in 1..Len(c) : p[k] = i
  BY CondensedShape
<1> HIDE DEF c
<1>2. /\ c \in Seq(Entry) /\ Len(c) \in Nat
      /\ \A k \in 1..Len(c) : p[k] \in 1..Len(s)
      /\ \A i, j \in 1..Len(c) : i < j => p[i] < p[j]
      /\ \A k \in 1..Len(c) : c[k] = IF p[k] = first THEN Summary ELSE s[p[k]]
  BY <1>1 DEF IsCondensed
<1>3. first \in 1..Len(s) /\ s[first].kind = "research" /\ Len(s) \in Nat
  <2>1. first \in Research(s)
    BY <1>1
  <2>. QED  BY <2>1 DEF Research
<1>4. ASSUME NEW i \in 1..Len(s), s[i].kind # "research"
      PROVE  \E k \in 1..Len(c) : p[k] = i /\ c[k] = s[i]
  <2>1. i \notin gone /\ i # first
    BY <1>3, <1>4 DEF Research
  <2>2. PICK k \in 1..Len(c) : p[k] = i
    BY <1>1, <2>1
  <2>. QED  BY <1>2, <2>1, <2>2
<1>5. \A k \in 1..Len(c) : c[k].kind # "research" => p[k] # first /\ c[k] = s[p[k]]
  BY <1>2 DEF Summary
<1>6. \A i, j \in 1..Len(c) : p[i] <= p[j] => i <= j
  <2>. TAKE i, j \in 1..Len(c)
  <2>1. p[i] \in Nat /\ p[j] \in Nat /\ (j < i => p[j] < p[i])
    BY <1>2, <1>3
  <2>. QED  BY <1>2, <2>1
<1>7. \A i, j \in 1..Len(c) : i <= j => p[i] <= p[j]
  <2>. TAKE i, j \in 1..Len(c)
  <2>1. p[i] \in Nat /\ p[j] \in Nat /\ (i < j => p[i] < p[j]) /\ (i = j => p[i] = p[j])
    BY <1>2, <1>3
  <2>. QED  BY <1>2, <2>1
<1>8. ASSUME Apart(s) PROVE Apart(c)
  <2> SUFFICES ASSUME NEW i \in 1..Len(c), c[i].kind = "answer" /\ c[i].by # NoOne
               PROVE  \E j \in 1..i : c[j] = Question(c[i].by)
                                     /\ \A k \in j..i : c[k].by \in {c[i].by, NoOne}
    BY DEF Apart
  <2>1. c[i] = s[p[i]] /\ p[i] \in 1..Len(s)
    BY <1>2, <1>5
  <2>2. PICK j \in 1..p[i] : /\ s[j] = Question(s[p[i]].by)
                             /\ \A k \in j..p[i] : s[k].by \in {s[p[i]].by, NoOne}
    BY <1>8, <2>1 DEF Apart
  <2>3. j \in 1..Len(s) /\ s[j].kind # "research"
    <3>1. j \in 1..Len(s)
      BY <1>3, <2>1
    <3>. QED  BY <2>2, <3>1 DEF Question
  <2>4. PICK g \in 1..Len(c) : p[g] = j /\ c[g] = s[j]
    BY <1>4, <2>3
  <2>5. g \in 1..i
    <3>1. p[g] <= p[i]
      BY <1>3, <2>1, <2>4
    <3>2. g <= i
      BY <1>6, <3>1
    <3>. QED  BY <1>2, <3>2
  <2>6. \A k \in g..i : c[k].by \in {c[i].by, NoOne}
    <3>. TAKE k \in g..i
    <3>1. k \in 1..Len(c) /\ g <= k /\ k <= i
      BY <1>2
    <3>2. p[g] <= p[k] /\ p[k] <= p[i]
      BY <1>7, <3>1
    <3>3. p[k] \in j..p[i]
      BY <1>2, <1>3, <2>1, <2>4, <3>1, <3>2
    <3>4. s[p[k]].by \in {c[i].by, NoOne}
      BY <2>1, <2>2, <3>3
    <3>5. c[k] = Summary \/ c[k] = s[p[k]]
      BY <1>2, <3>1
    <3>. QED  BY <3>4, <3>5 DEF Summary
  <2>. QED  BY <2>1, <2>2, <2>4, <2>5, <2>6
<1>9. ASSUME NEW e \in Range(s), e.kind # "research"
      PROVE  e \in Range(c)
  <2>1. PICK i \in 1..Len(s) : e = s[i]
    BY DEF Range
  <2>2. PICK k \in 1..Len(c) : c[k] = e
    BY <1>4, <1>9, <2>1
  <2>3. DOMAIN c = 1..Len(c)
    BY <1>2
  <2>. QED  BY <2>2, <2>3 DEF Range
<1>10. Turns(c) = Turns(s)
  <2> DEFINE K == {i \in 1..Len(s) : s[i].kind # "research"}
             L == {k \in 1..Len(c) : c[k].kind # "research"}
             f == [k \in L |-> p[k]]
  <2>1. K \in SUBSET (1..Len(s)) /\ L \in SUBSET (1..Len(c))
    OBVIOUS
  <2>2. f \in [L -> K]
    BY <1>2, <1>5
  <2>3. \A i, j \in L : i < j => f[i] < f[j]
    BY <1>2
  <2>4. \A k \in K : \E l \in L : f[l] = k
    BY <1>4
  <2>5. \A l \in L : c[l] = s[f[l]]
    BY <1>5
  <2> HIDE DEF K, L, f
  <2>6. Selected(c, L) = Selected(s, K)
    BY <1>2, <2>1, <2>2, <2>3, <2>4, <2>5, SameSelection, SMTT(20)
  <2>. QED  BY <2>6 DEF Turns, K, L
<1>. QED  BY <1>8, <1>9, <1>10 DEF c

\* An entry added to the end leaves the turns before it as they were.
LEMMA AppendTurns ==
  ASSUME NEW s \in Seq(Entry), NEW e \in Entry
  PROVE  IsPrefix(Turns(s), Turns(Append(s, e)))
<1> DEFINE t == Append(s, e)
           K == {i \in 1..Len(s) : s[i].kind # "research"}
           L == {i \in 1..Len(t) : t[i].kind # "research"}
<1>1. Len(t) = Len(s) + 1 /\ Len(s) \in Nat /\ t[Len(s) + 1] = e
      /\ \A i \in 1..Len(s) : t[i] = s[i]
  OBVIOUS
<1>2. K \in SUBSET (1..Len(s))
  OBVIOUS
<1> HIDE DEF t
<1>3. \A i : i \in 1..Len(t) <=> i \in 1..Len(s) \/ i = Len(s) + 1
  BY <1>1
<1>4. L = K \/ L = K \cup {Len(s) + 1}
  <2>1. CASE e.kind = "research"
    BY <1>1, <1>3, <2>1
  <2>2. CASE e.kind # "research"
    BY <1>1, <1>3, <2>2
  <2>. QED  BY <2>1, <2>2
<1> HIDE DEF K, L
<1>5. IsPrefix(Selected(s, K), Selected(Append(s, e), L))
  BY <1>2, <1>4, SelectionGrows
<1>. QED  BY <1>5 DEF Turns, K, L, t

LEMMA SameTurns ==
  ASSUME NEW s, NEW t, Turns(s) = Turns(t), NEW S, Turns(s) \in Seq(S)
  PROVE  IsPrefix(Turns(s), Turns(t))
  BY DEF IsPrefix

-----------------------------------------------------------------------------
(* The files.                                                              *)

Disks ==
  [pending : SUBSET Offers, live : SUBSET Offers, idle : SUBSET Offers,
   registered : SUBSET Offers, transcript : [Offers -> Seq(Entry)]]

\* The files d hold the offers p, the threads l with their transcripts, and the
\* registry's entries r.
IsSaved(d, p, l, r, tr) ==
  /\ d \in Disks /\ d.pending = p /\ d.live = l /\ d.registered = r
  /\ \A o \in Offers : d.transcript[o] = IF o \in p \cup l THEN tr[o] ELSE <<>>

LEMMA SavedFacts ==
  ASSUME disk \in Disks,
         NEW p \in SUBSET Offers, NEW l \in SUBSET Offers,
         NEW tr \in [Offers -> Seq(Entry)], NEW old \in SUBSET Offers, NEW r \in SUBSET Offers
  PROVE  /\ IsSaved(Saved(p, l, tr, old), p, l, disk.registered, tr)
         /\ IsSaved([Saved(p, l, tr, old) EXCEPT !.registered = r], p, l, r, tr)
<1> DEFINE st == Stored(p \cup l, tr)
           d == Saved(p, l, tr, old)
<1>1. st \in [Offers -> Seq(Entry)]
      /\ \A o \in Offers : st[o] = IF o \in p \cup l THEN tr[o] ELSE <<>>
  BY DEF Stored
<1>2. d = [disk EXCEPT !.pending = p, !.live = l, !.idle = old \cap (p \cup l), !.transcript = st]
  BY DEF Saved
<1> HIDE DEF st, d
<1>3. d \in Disks /\ d.pending = p /\ d.live = l /\ d.registered = disk.registered /\ d.transcript = st
  BY <1>1, <1>2 DEF Disks
<1>4. LET e == [d EXCEPT !.registered = r] IN
      e \in Disks /\ e.pending = p /\ e.live = l /\ e.registered = r /\ e.transcript = st
  BY <1>3 DEF Disks
<1>. QED  BY <1>1, <1>3, <1>4 DEF IsSaved, d

LEMMA DiskTyped == TypeOK => disk \in Disks
  BY DEF TypeOK, Disks

LEMMA TypeIsDisk == ASSUME NEW d PROVE d \in Disks <=>
  d \in [pending : SUBSET Offers, live : SUBSET Offers, idle : SUBSET Offers,
               registered : SUBSET Offers, transcript : [Offers -> Seq(Entry)]]
  BY DEF Disks

LEMMA EmptyRange == Range(<<>>) = {}
  BY DEF Range

-----------------------------------------------------------------------------
(* Every step keeps the invariant.                                         *)

LEMMA InitIInv == Init => IInv
<1> SUFFICES ASSUME Init PROVE IInv
  OBVIOUS
<1> USE DEF Init
<1>0. (CHOOSE o \in Offers : TRUE) \in Offers
  BY IdAssumption
<1>1. \A o \in Offers : transcript[o] = <<>> /\ disk.transcript[o] = <<>>
  OBVIOUS
<1>2. TypeOK
  <2>1. <<>> \in Seq(Entry)
    OBVIOUS
  <2>. QED  BY <1>0, <2>1, BoundAssumption DEF TypeOK
<1>3. SyncInv /\ SessionInv
  BY DEF SyncInv, SessionInv
<1>4. \A m \in Messages : at[m] = "unsent"
  OBVIOUS
<1>5. TurnInv /\ LockInv /\ AloneInv /\ SpeakInv /\ CutInv /\ KeptInv
  BY <1>4 DEF TurnInv, LockInv, AloneInv, SpeakInv, CutInv, KeptInv, UnderWay, Holding
<1>6. TranscriptInv
  BY <1>1, EmptyApart DEF TranscriptInv
<1>. QED  BY <1>2, <1>3, <1>5, <1>6 DEF IInv

\* What leaves the stores, the turns and their transcripts alone.
LEMMA QuietStep ==
  ASSUME IInv, NEW o \in Offers,
         React(o) \/ PeekOffer(o) \/ OpenThread(o) \/ SweepThreads \/ SweepThread(o)
           \/ RestoreThread(o) \/ UNCHANGED vars
  PROVE  IInv'
<1>1. /\ UNCHANGED <<pending, live, transcript, idle, registered, disk, locks>>
      /\ UNCHANGED <<at, to, lockOf, cut, crashes, shown, stray>>
  BY DEF React, PeekOffer, OpenThread, SweepThreads, SweepThread, RestoreThread, vars,
     stores, router, turns, world, loops, ghosts
<1>2. TypeOK'
  <2>1. CASE React(o) \/ PeekOffer(o) \/ OpenThread(o)
    BY <1>1, <2>1 DEF IInv, TypeOK, React, PeekOffer, OpenThread, Claims, router, loops
  <2>2. CASE SweepThreads \/ SweepThread(o)
    <3>1. sweep' \in [todo : SUBSET Offers, notifying : SUBSET Offers]
      <4>1. sweep \in [todo : SUBSET Offers, notifying : SUBSET Offers] /\ live \cap idle \subseteq Offers
        BY DEF IInv, TypeOK
      <4>2. CASE SweepThreads
        BY <4>1, <4>2 DEF SweepThreads, Expired
      <4>3. CASE SweepThread(o)
        <5>1. PICK n \in {{}, {o}} : sweep' = [todo |-> sweep.todo \ {o}, notifying |-> n]
          BY <4>3 DEF SweepThread
        <5>. QED  BY <4>1, <5>1
      <4>. QED  BY <2>2, <4>2, <4>3
    <3>2. UNCHANGED <<models, routed, opened, claim, restoring, missed>>
      BY <2>2 DEF SweepThreads, SweepThread, router, world
    <3>. QED  BY <1>1, <3>1, <3>2 DEF IInv, TypeOK
  <2>3. CASE RestoreThread(o)
    BY <1>1, <2>3 DEF IInv, TypeOK, RestoreThread, world
  <2>4. CASE UNCHANGED vars
    BY <2>4 DEF IInv, TypeOK, vars, stores, router, turns, world, loops, ghosts
  <2>. QED  BY <2>1, <2>2, <2>3, <2>4
<1>3. SessionInv'
  <2>1. registered \ missed' \subseteq routed' \cup restoring'
    <3>1. CASE RestoreThread(o)
      BY <3>1 DEF RestoreThread, IInv, SessionInv
    <3>2. CASE ~RestoreThread(o)
      BY <3>2 DEF React, PeekOffer, OpenThread, SweepThreads, SweepThread, vars, router, loops,
         IInv, SessionInv
    <3>. QED  BY <3>1, <3>2
  <2>. QED  BY <1>1, <2>1 DEF IInv, SessionInv
<1>4. SyncInv' /\ TurnInv' /\ LockInv' /\ AloneInv'
  BY <1>1 DEF IInv, SyncInv, TurnInv, LockInv, AloneInv
<1>5. TranscriptInv' /\ SpeakInv' /\ CutInv' /\ KeptInv'
  BY <1>1 DEF IInv, TranscriptInv, SpeakInv, CutInv, KeptInv, ResearchIn
<1>. QED  BY <1>2, <1>3, <1>4, <1>5 DEF IInv

LEMMA OfferStep ==
  ASSUME IInv, NEW o \in Offers, OfferThread(o)
  PROVE  IInv'
<1>1. /\ transcript[o] = <<>> /\ transcript' = [transcript EXCEPT ![o] = Seed]
      /\ pending' = (pending \ idle) \cup {o} /\ idle' = idle \ pending
      /\ disk' = Saved(pending', live, transcript', idle')
      /\ UNCHANGED <<live, registered, models, routed, locks, at, to, lockOf, cut, opened, claim>>
      /\ UNCHANGED <<sweep, restoring, missed, crashes, shown, stray>>
  BY DEF OfferThread, Unexpired, router, turns, world, loops, ghosts
<1>2. /\ transcript' \in [Offers -> Seq(Entry)] /\ transcript'[o] = Seed
      /\ \A t \in Offers : t # o => transcript'[t] = transcript[t]
  BY <1>1, SeedFacts DEF IInv, TypeOK
<1>3. pending' \in SUBSET Offers /\ idle' \in SUBSET Offers /\ live \in SUBSET Offers
  BY <1>1 DEF IInv, TypeOK
<1>4. IsSaved(disk', pending', live, registered, transcript')
  <2>1. disk \in Disks /\ disk.registered = registered
    BY DiskTyped DEF IInv, SyncInv
  <2>. QED  BY <1>1, <1>2, <1>3, <2>1, SavedFacts DEF Disks
<1>5. o \notin pending \cup live
  BY <1>1 DEF IInv, SessionInv
<1>6. TypeOK'
  BY <1>1, <1>2, <1>3, <1>4 DEF IInv, TypeOK, IsSaved, Disks
<1>7. SyncInv'
  BY <1>1, <1>4 DEF SyncInv, IsSaved
<1>8. SessionInv'
  <2>1. \A t \in Offers : t \in pending' \cup live => transcript'[t] # <<>>
    BY <1>1, <1>2, SeedFacts DEF IInv, SessionInv
  <2>2. \A t \in pending' \cup live : transcript'[t] # <<>> /\ disk'.transcript[t] # <<>>
    BY <1>3, <1>4, <2>1 DEF IsSaved
  <2>. QED  BY <1>1, <1>5, <2>2 DEF IInv, SessionInv
<1>9. \A m \in Messages : at[m] \in UnderWay => to[m] \in Offers /\ to[m] # o
  BY <1>1 DEF IInv, TurnInv, TypeOK
<1>10. TurnInv'
  BY <1>1, <1>2, <1>9 DEF IInv, TurnInv
<1>11. LockInv' /\ AloneInv'
  BY <1>1 DEF IInv, LockInv, AloneInv
<1>12. TranscriptInv'
  <2>1. \A t \in Offers \ stray : Apart(transcript'[t])
    BY <1>2, SeedFacts DEF IInv, TranscriptInv
  <2>2. \A t \in Offers \ stray : Apart(disk'.transcript[t])
    BY <1>4, <2>1, EmptyApart DEF IsSaved
  <2>. QED  BY <1>1, <2>1, <2>2 DEF TranscriptInv
<1>13. SpeakInv' /\ CutInv'
  BY <1>1, <1>2, <1>9 DEF IInv, SpeakInv, CutInv, ResearchIn, UnderWay, Holding
<1>14. KeptInv'
  <2>1. ASSUME NEW m \in Messages, m \in shown \/ at[m] = "posting", to[m] \notin stray
        PROVE  /\ AnswerOf(m) \in Range(transcript'[to[m]])
               /\ to[m] \in pending' \cup live => AnswerOf(m) \in Range(disk'.transcript[to[m]])
    <3>1. AnswerOf(m) \in Range(transcript[to[m]]) /\ to[m] \in Offers
      BY <2>1 DEF IInv, KeptInv, TypeOK
    <3>2. to[m] # o
      BY <1>1, <3>1, EmptyRange
    <3>. QED  BY <1>2, <1>4, <3>1, <3>2 DEF IsSaved
  <2>. QED  BY <1>1, <2>1 DEF IInv, KeptInv
<1>. QED  BY <1>6, <1>7, <1>8, <1>10, <1>11, <1>12, <1>13, <1>14 DEF IInv

LEMMA ClaimStepKeeps ==
  ASSUME IInv, NEW o \in Offers, ClaimThread(o)
  PROVE  IInv'
<1>1. /\ UNCHANGED <<transcript, idle, locks, at, to, lockOf, cut, opened>>
      /\ UNCHANGED <<sweep, restoring, missed, crashes, shown, stray>>
      /\ claim' = [claim EXCEPT ![o] = "none"]
  BY DEF ClaimThread, Claims, turns, loops, ghosts
<1>2. CASE o \notin pending
  <2>1. UNCHANGED <<pending, live, models, routed, registered, disk>>
    BY <1>2 DEF ClaimThread
  <2>2. TypeOK'
    BY <1>1, <2>1 DEF IInv, TypeOK
  <2>3. SyncInv' /\ SessionInv' /\ TurnInv' /\ LockInv' /\ AloneInv'
    BY <1>1, <2>1 DEF IInv, SyncInv, SessionInv, TurnInv, LockInv, AloneInv
  <2>4. TranscriptInv' /\ SpeakInv' /\ CutInv' /\ KeptInv'
    BY <1>1, <2>1 DEF IInv, TranscriptInv, SpeakInv, CutInv, KeptInv, ResearchIn
  <2>. QED  BY <2>2, <2>3, <2>4 DEF IInv
<1>3. CASE o \in pending
  <2>1. /\ pending' = pending \ {o} /\ live' = live \cup {o}
        /\ models' = models \cup {o} /\ routed' = routed \cup {o}
        /\ registered' = registered \cup {o}
        /\ disk' = [Saved(pending', live', transcript, idle) EXCEPT !.registered = registered']
    BY <1>3 DEF ClaimThread
  <2>2. pending' \in SUBSET Offers /\ live' \in SUBSET Offers /\ registered' \in SUBSET Offers
        /\ transcript \in [Offers -> Seq(Entry)] /\ idle \in SUBSET Offers
    BY <2>1 DEF IInv, TypeOK
  <2>3. IsSaved(disk', pending', live', registered', transcript)
    <3>1. disk \in Disks
      BY DiskTyped DEF IInv
    <3>. QED  BY <2>1, <2>2, <3>1, SavedFacts
  <2>4. TypeOK'
    BY <1>1, <2>1, <2>2, <2>3 DEF IInv, TypeOK, IsSaved, Disks
  <2>5. SyncInv'
    BY <2>3 DEF SyncInv, IsSaved
  <2>6. SessionInv'
    <3>1. ASSUME NEW t \in pending' \cup live'
          PROVE  transcript[t] # <<>> /\ disk'.transcript[t] # <<>>
      <4>1. t \in pending \cup live /\ t \in Offers
        BY <1>3, <2>1, <2>2
      <4>2. transcript[t] # <<>>
        BY <4>1 DEF IInv, SessionInv
      <4>3. disk'.transcript[t] = transcript[t]
        BY <2>3, <3>1, <4>1 DEF IsSaved
      <4>. QED  BY <4>2, <4>3
    <3>. QED  BY <1>1, <2>1, <3>1 DEF IInv, SessionInv
  <2>7. TurnInv' /\ LockInv' /\ AloneInv'
    BY <1>1, <2>1 DEF IInv, TurnInv, LockInv, AloneInv
  <2>8. TranscriptInv'
    BY <1>1, <2>3, EmptyApart DEF IInv, TranscriptInv, IsSaved
  <2>9. SpeakInv' /\ CutInv'
    BY <1>1 DEF IInv, SpeakInv, CutInv, ResearchIn
  <2>10. KeptInv'
    BY <1>1, <2>3 DEF IInv, KeptInv, IsSaved, TypeOK
  <2>. QED  BY <2>4, <2>5, <2>6, <2>7, <2>8, <2>9, <2>10 DEF IInv
<1>. QED  BY <1>2, <1>3

LEMMA ArriveStep ==
  ASSUME IInv, NEW m \in Messages, NEW t \in Offers, Arrive(m, t)
  PROVE  IInv'
<1>1. /\ UNCHANGED <<pending, live, transcript, idle, registered, disk, models, routed, locks>>
      /\ UNCHANGED <<lockOf, cut, opened, claim, sweep, restoring, missed, crashes, shown, stray>>
      /\ at[m] = "unsent" /\ to' = [to EXCEPT ![m] = t]
  BY DEF Arrive, stores, router, world, loops, ghosts
<1>2. PICK p \in {"arrived", "ended"} :
        at' = [at EXCEPT ![m] = p] /\ (p = "arrived" => t \in live)
  BY DEF Arrive, Moves
<1>3. TypeOK'
  BY <1>1, <1>2 DEF IInv, TypeOK, UnderWay
<1>4. \A n \in Messages :
        /\ at'[n] = IF n = m THEN p ELSE at[n]
        /\ to'[n] = IF n = m THEN t ELSE to[n]
  BY <1>1, <1>2 DEF IInv, TypeOK
<1>5. SyncInv' /\ SessionInv' /\ TranscriptInv'
  BY <1>1 DEF IInv, SyncInv, SessionInv, TranscriptInv
<1>6. TurnInv'
  BY <1>1, <1>2, <1>4 DEF IInv, TurnInv, SessionInv, UnderWay, Holding
<1>7. LockInv' /\ AloneInv'
  BY <1>1, <1>2, <1>4 DEF IInv, LockInv, AloneInv, Holding
<1>8. SpeakInv' /\ CutInv'
  BY <1>1, <1>2, <1>4 DEF IInv, SpeakInv, CutInv, ResearchIn
<1>9. KeptInv'
  BY <1>1, <1>2, <1>4 DEF IInv, KeptInv, TypeOK
<1>. QED  BY <1>3, <1>5, <1>6, <1>7, <1>8, <1>9 DEF IInv

\* What only moves a handler from one place to another, and its lock.
LEMMA QueueStep ==
  ASSUME IInv, NEW m \in Messages, Queue(m) \/ Acquire(m) \/ Fail(m)
  PROVE  IInv'
<1>1. /\ UNCHANGED <<pending, live, transcript, idle, registered, disk, models, routed>>
      /\ UNCHANGED <<to, cut, opened, claim, sweep, restoring, missed, crashes, shown, stray>>
  BY DEF Queue, Acquire, Fail, stores, router, world, loops, ghosts
<1>2. PICK p \in {"queued", "holding", "ended"} :
        /\ at' = [at EXCEPT ![m] = p]
        /\ p # "ended" => at[m] \in {"arrived", "queued"}
  BY DEF Queue, Acquire, Fail, Moves
<1>3. \A n \in Messages : at'[n] = IF n = m THEN p ELSE at[n]
  BY <1>2 DEF IInv, TypeOK
<1>4. locks' \in [Offers -> Messages \cup {NoOne}] /\ lockOf' \in [Messages -> Messages \cup {NoOne}]
      /\ to[m] \in Offers
  <2>1. /\ locks \in [Offers -> Messages \cup {NoOne}] /\ to[m] \in Offers
        /\ lockOf \in [Messages -> Messages \cup {NoOne}]
    BY DEF IInv, TypeOK
  <2>2. CASE UNCHANGED <<locks, lockOf>>
    BY <2>1, <2>2
  <2>3. ASSUME NEW l \in Messages \cup {NoOne}, locks' = [locks EXCEPT ![to[m]] = l],
               lockOf' = [lockOf EXCEPT ![m] = locks'[to[m]]]
        PROVE  /\ locks' \in [Offers -> Messages \cup {NoOne}]
               /\ lockOf' \in [Messages -> Messages \cup {NoOne}]
    BY <2>1, <2>3
  <2>4. (IF locks[to[m]] = NoOne THEN m ELSE locks[to[m]]) \in Messages \cup {NoOne}
    BY <2>1
  <2>. QED  BY <2>1, <2>2, <2>3, <2>4 DEF Queue, Acquire, Fail, router
<1>5. TypeOK'
  BY <1>1, <1>2, <1>4 DEF IInv, TypeOK, UnderWay, Holding
<1>6. SyncInv' /\ SessionInv' /\ TranscriptInv'
  BY <1>1 DEF IInv, SyncInv, SessionInv, TranscriptInv
<1>7. TurnInv'
  BY <1>1, <1>2, <1>3 DEF IInv, TurnInv, UnderWay, Holding
<1>8. SpeakInv' /\ CutInv'
  BY <1>1, <1>2, <1>3 DEF IInv, SpeakInv, CutInv, ResearchIn
<1>9. KeptInv'
  BY <1>1, <1>2, <1>3 DEF IInv, KeptInv, TypeOK
<1>10. CASE Queue(m) /\ p = "queued"
  <2>1. /\ at[m] = "arrived"
        /\ locks' = [locks EXCEPT ![to[m]] = IF locks[to[m]] = NoOne THEN m ELSE locks[to[m]]]
        /\ lockOf' = [lockOf EXCEPT ![m] = locks'[to[m]]]
    <3>1. at[m] = "arrived" /\ at'[m] = "queued"
      BY <1>3, <1>10 DEF Queue
    <3>. QED  BY <1>10, <3>1 DEF Queue, Moves, IInv, TypeOK
  <2>2. /\ \A o \in Offers : o # to[m] => locks'[o] = locks[o]
        /\ locks'[to[m]] = IF locks[to[m]] = NoOne THEN m ELSE locks[to[m]]
        /\ \A n \in Messages : lockOf'[n] = IF n = m THEN locks'[to[m]] ELSE lockOf[n]
    BY <1>4, <2>1 DEF IInv, TypeOK
  <2>3. LockInv'
    <3> SUFFICES ASSUME NEW n \in Messages, at'[n] \in {"queued"} \cup Holding, to[n] \notin stray
                 PROVE  lockOf'[n] = locks'[to[n]] /\ lockOf'[n] # NoOne
      BY <1>1 DEF LockInv
    <3>1. CASE n = m
      BY <2>2, <3>1, IdAssumption
    <3>2. CASE n # m
      <4>1. lockOf[n] = locks[to[n]] /\ lockOf[n] # NoOne /\ to[n] \in Offers
        BY <1>3, <3>2 DEF IInv, LockInv, TypeOK
      <4>. QED  BY <2>2, <3>2, <4>1
    <3>. QED  BY <3>1, <3>2
  <2>4. AloneInv'
    BY <1>1, <1>2, <1>3, <1>10 DEF IInv, AloneInv, Holding
  <2>. QED  BY <1>5, <1>6, <1>7, <1>8, <1>9, <2>3, <2>4 DEF IInv
<1>11. CASE ~(Queue(m) /\ p = "queued")
  <2>1. locks' = locks /\ lockOf' = lockOf
    <3>1. CASE Queue(m)
      <4>1. at'[m] # "queued"
        BY <1>3, <1>11, <3>1
      <4>. QED  BY <3>1, <4>1 DEF Queue, Moves, IInv, TypeOK
    <3>2. CASE Acquire(m) \/ Fail(m)
      BY <3>2 DEF Acquire, Fail, router
    <3>. QED  BY <3>1, <3>2
  <2>2. p = "holding" => Acquire(m)
    <3>1. ASSUME p = "holding" PROVE ~Queue(m) /\ ~Fail(m)
      <4>1. at'[m] = "holding"
        BY <1>3, <3>1
      <4>. QED  BY <4>1 DEF Queue, Fail, Moves, IInv, TypeOK
    <3>. QED  BY <3>1
  <2>3. p # "queued"
    <3>1. ASSUME p = "queued" PROVE FALSE
      <4>1. at'[m] = "queued"
        BY <1>3, <3>1
      <4>2. Acquire(m) \/ Fail(m)
        BY <1>11, <3>1
      <4>. QED  BY <4>1, <4>2 DEF Acquire, Fail, Moves, IInv, TypeOK
    <3>. QED  BY <3>1
  <2>4. LockInv'
    <3>1. p = "holding" => at[m] = "queued"
      BY <2>2 DEF Acquire
    <3>. QED  BY <1>1, <1>2, <1>3, <2>1, <2>3, <3>1 DEF IInv, LockInv, Holding
  <2>5. AloneInv'
    <3>1. ASSUME p = "holding", NEW n \in Messages, at[n] \in Holding, to[n] = to[m], to[m] \notin stray
          PROVE  FALSE
      <4>1. at[m] = "queued" /\ ~Locked(lockOf[m])
        BY <2>2, <3>1 DEF Acquire
      <4>2. lockOf[m] = lockOf[n]
        BY <3>1, <4>1 DEF IInv, LockInv
      <4>. QED  BY <3>1, <4>1, <4>2 DEF Locked
    <3>. QED  BY <1>1, <1>2, <1>3, <2>3, <3>1 DEF IInv, AloneInv, Holding
  <2>. QED  BY <1>5, <1>6, <1>7, <1>8, <1>9, <2>4, <2>5 DEF IInv
<1>. QED  BY <1>10, <1>11

\* What an entry of message m at the end of its transcript changes.
LEMMA AppendsFacts ==
  ASSUME IInv, NEW m \in Messages, at[m] \in Holding,
         NEW k \in {"question", "research", "answer"}, Appends(m, k)
  PROVE  LET e == [kind |-> k, by |-> m] IN
         /\ transcript' \in [Offers -> Seq(Entry)] /\ to[m] \in Offers /\ e \in Entry
         /\ transcript'[to[m]] = Append(transcript[to[m]], e)
         /\ transcript[to[m]] \in Seq(Entry)
         /\ transcript'[to[m]] # <<>> /\ e \in Range(transcript'[to[m]])
         /\ \A o \in Offers : o # to[m] => transcript'[o] = transcript[o]
         /\ \A o \in Offers : transcript[o] # <<>> => transcript'[o] # <<>>
         /\ \A o \in Offers : Range(transcript[o]) \subseteq Range(transcript'[o])
         /\ \A n \in Messages : (n # m /\ at[n] \in Holding /\ to[n] \notin stray) => to[n] # to[m]
<1> DEFINE e == [kind |-> k, by |-> m]
           s == transcript[to[m]]
<1>1. e \in Entry /\ s \in Seq(Entry) /\ to[m] \in Offers
  BY EntryFacts DEF IInv, TypeOK
<1>2. transcript' = [transcript EXCEPT ![to[m]] = Append(s, e)]
  BY DEF Appends
<1> HIDE DEF e, s
<1>3. /\ Append(s, e) \in Seq(Entry) /\ Append(s, e) # <<>>
      /\ Range(s) \subseteq Range(Append(s, e)) /\ e \in Range(Append(s, e))
  BY <1>1, AppendFacts
<1>4. /\ transcript' \in [Offers -> Seq(Entry)] /\ transcript'[to[m]] = Append(s, e)
      /\ \A o \in Offers : o # to[m] => transcript'[o] = transcript[o]
  BY <1>1, <1>2, <1>3 DEF IInv, TypeOK
<1>5. /\ \A o \in Offers : transcript[o] # <<>> => transcript'[o] # <<>>
      /\ \A o \in Offers : Range(transcript[o]) \subseteq Range(transcript'[o])
  BY <1>3, <1>4 DEF s
<1>6. \A n \in Messages : (n # m /\ at[n] \in Holding /\ to[n] \notin stray) => to[n] # to[m]
  BY DEF IInv, AloneInv
<1>. QED  BY <1>1, <1>3, <1>4, <1>5, <1>6 DEF e, s

LEMMA SayStep ==
  ASSUME IInv, NEW m \in Messages, NEW k \in {"question", "research"}, NEW p,
         \/ at[m] = "holding" /\ k = "question" /\ p = "searching"
         \/ at[m] = "searching" /\ k = "research" /\ p = "answering",
         Appends(m, k), at' = [at EXCEPT ![m] = p], idle' \in SUBSET Offers,
         UNCHANGED <<pending, live, registered, disk, models, routed, locks, to, lockOf, cut>>,
         UNCHANGED <<opened, claim, sweep, restoring, missed, crashes, shown, stray>>
  PROVE  IInv'
<1> DEFINE e == [kind |-> k, by |-> m]
<1>1. at[m] \in Holding /\ p \in {"searching", "answering"} /\ p \in Holding
  BY DEF Holding
<1>2. /\ transcript' \in [Offers -> Seq(Entry)] /\ to[m] \in Offers /\ e \in Entry
      /\ transcript'[to[m]] = Append(transcript[to[m]], e)
      /\ transcript[to[m]] \in Seq(Entry)
      /\ transcript'[to[m]] # <<>> /\ e \in Range(transcript'[to[m]])
      /\ \A o \in Offers : o # to[m] => transcript'[o] = transcript[o]
      /\ \A o \in Offers : transcript[o] # <<>> => transcript'[o] # <<>>
      /\ \A o \in Offers : Range(transcript[o]) \subseteq Range(transcript'[o])
      /\ \A n \in Messages : (n # m /\ at[n] \in Holding /\ to[n] \notin stray) => to[n] # to[m]
  BY <1>1, AppendsFacts
<1>3. \A n \in Messages : to[n] \in Offers /\ at'[n] = IF n = m THEN p ELSE at[n]
  BY DEF IInv, TypeOK
<1>4. TypeOK'
  BY <1>1, <1>2 DEF IInv, TypeOK, UnderWay
<1>5. SyncInv'
  BY DEF IInv, SyncInv
<1>6. SessionInv'
  BY <1>2 DEF IInv, SessionInv, TypeOK
<1>7. TurnInv'
  BY <1>1, <1>2, <1>3 DEF IInv, TurnInv, UnderWay
<1>8. LockInv' /\ AloneInv'
  BY <1>1, <1>3 DEF IInv, LockInv, AloneInv
<1>9. TranscriptInv'
  <2>1. ASSUME to[m] \notin stray PROVE Apart(transcript'[to[m]])
    BY <1>2, <2>1, AppendApart DEF IInv, TranscriptInv
  <2>. QED  BY <1>2, <2>1 DEF IInv, TranscriptInv
<1>10. SpeakInv'
  <2>1. ASSUME to[m] \notin stray PROVE Speaks(transcript'[to[m]], m)
    <3>1. e = Question(m) \/ Speaks(transcript[to[m]], m)
      BY <2>1 DEF IInv, SpeakInv, Question
    <3>2. e.by = m
      OBVIOUS
    <3> HIDE DEF e
    <3>. QED  BY <1>2, <3>1, <3>2, AppendSpeaks, SMTT(20)
  <2>2. ASSUME NEW n \in Messages, n # m, at'[n] \in {"searching", "answering"}, to[n] \notin stray
        PROVE  Speaks(transcript'[to[n]], n)
    <3>1. at[n] \in Holding /\ at[n] \in {"searching", "answering"}
      BY <1>3, <2>2 DEF Holding
    <3>. QED  BY <1>2, <1>3, <2>2, <3>1 DEF IInv, SpeakInv
  <2>. QED  BY <2>1, <2>2 DEF SpeakInv
<1>11. CutInv'
  <2> SUFFICES ASSUME NEW n \in Messages, at'[n] = "summarising", to[n] \notin stray
               PROVE  cut[n] # {} /\ cut[n] \subseteq ResearchIn(to[n])'
    BY DEF CutInv
  <2>1. n # m /\ at[n] = "summarising" /\ at[n] \in Holding
    BY <1>1, <1>3 DEF Holding
  <2>2. transcript'[to[n]] = transcript[to[n]]
    BY <1>2, <1>3, <2>1
  <2>. QED  BY <2>1, <2>2 DEF IInv, CutInv, ResearchIn
<1>12. KeptInv'
  <2>1. \A n \in Messages : at'[n] = "posting" => at[n] = "posting"
    BY <1>1, <1>3
  <2>2. \A n \in shown : at'[n] # "unsent"
    BY <1>1, <1>3 DEF IInv, KeptInv, TypeOK
  <2>. QED  BY <1>2, <1>3, <2>1, <2>2 DEF IInv, KeptInv
<1>. QED  BY <1>4, <1>5, <1>6, <1>7, <1>8, <1>9, <1>10, <1>11, <1>12 DEF IInv

LEMMA SearchStep ==
  ASSUME IInv, NEW m \in Messages, Ask(m) \/ Search(m)
  PROVE  IInv'
<1>1. /\ UNCHANGED <<pending, live, registered, disk, models, routed, locks, to, lockOf, cut>>
      /\ UNCHANGED <<opened, claim, sweep, restoring, missed, crashes, shown, stray>>
      /\ idle' \in SUBSET Offers
  BY DEF Ask, Search, router, world, loops, ghosts, IInv, TypeOK
<1>2. CASE Ask(m)
  BY <1>1, <1>2, SayStep DEF Ask, Moves
<1>3. CASE Search(m) /\ Appends(m, "research")
  BY <1>1, <1>3, SayStep DEF Search, Moves
<1>4. CASE Search(m) /\ UNCHANGED transcript
  <2>1. /\ \A n \in Messages : at'[n] = IF n = m THEN "answering" ELSE at[n]
        /\ at[m] = "searching" /\ idle' = idle
    BY <1>4 DEF Search, Moves, IInv, TypeOK
  <2>2. TypeOK'
    BY <1>1, <1>4, <2>1 DEF IInv, TypeOK, UnderWay, Holding, Search, Moves
  <2>3. SyncInv' /\ SessionInv' /\ TranscriptInv'
    BY <1>1, <1>4 DEF IInv, SyncInv, SessionInv, TranscriptInv
  <2>4. TurnInv' /\ LockInv' /\ AloneInv'
    BY <1>1, <1>4, <2>1 DEF IInv, TurnInv, LockInv, AloneInv, UnderWay, Holding
  <2>5. SpeakInv' /\ CutInv'
    BY <1>1, <1>4, <2>1 DEF IInv, SpeakInv, CutInv, ResearchIn
  <2>6. KeptInv'
    BY <1>1, <1>4, <2>1 DEF IInv, KeptInv, TypeOK
  <2>. QED  BY <2>2, <2>3, <2>4, <2>5, <2>6 DEF IInv
<1>. QED  BY <1>2, <1>3, <1>4 DEF Search

\* sessions.put, after m has changed its transcript.
LEMMA PutStep ==
  ASSUME IInv, NEW m \in Messages, NEW p \in {"posting", "ended"}, at[m] \in Holding,
         Puts(m, transcript'), at' = [at EXCEPT ![m] = p],
         transcript' \in [Offers -> Seq(Entry)], transcript'[to[m]] # <<>>,
         \A o \in Offers : o # to[m] => transcript'[o] = transcript[o],
         to[m] \notin stray => Apart(transcript'[to[m]]),
         to[m] \notin stray =>
           \A e \in Range(transcript[to[m]]) : e.kind # "research" => e \in Range(transcript'[to[m]]),
         (p = "posting" /\ to[m] \notin stray) => AnswerOf(m) \in Range(transcript'[to[m]]),
         cut' \in [Messages -> SUBSET (Nat \ {0})],
         \A n \in Messages : n # m => cut'[n] = cut[n],
         idle' \in SUBSET Offers,
         UNCHANGED <<pending, registered, models, routed, locks, to, lockOf>>,
         UNCHANGED <<opened, claim, sweep, restoring, missed, crashes, shown, stray>>
  PROVE  IInv'
<1>1. \A n \in Messages : to[n] \in Offers /\ at'[n] = IF n = m THEN p ELSE at[n]
  BY DEF IInv, TypeOK
<1>2. live' = live \cup {to[m]} /\ live' \in SUBSET Offers /\ pending \in SUBSET Offers
  BY <1>1 DEF Puts, IInv, TypeOK
<1>3. IsSaved(disk', pending, live', registered, transcript')
  <2>1. disk \in Disks /\ disk.registered = registered /\ registered \in SUBSET Offers
        /\ idle \ {to[m]} \in SUBSET Offers
    BY DiskTyped DEF IInv, SyncInv, TypeOK
  <2>2. disk' = Saved(pending, live', transcript', idle \ {to[m]})
    BY DEF Puts
  <2>. QED  BY <1>2, <2>1, <2>2, SavedFacts
<1>4. TypeOK'
  BY <1>1, <1>2, <1>3 DEF IInv, TypeOK, IsSaved, Disks, UnderWay, Holding
<1>5. SyncInv'
  BY <1>3 DEF SyncInv, IsSaved
<1>6. to[m] \notin pending
  BY DEF IInv, TurnInv, UnderWay
<1>7. SessionInv'
  <2>1. \A o \in pending \cup live' : o \in Offers /\ transcript'[o] # <<>>
    BY <1>1, <1>2 DEF IInv, SessionInv
  <2>2. \A o \in pending \cup live' : disk'.transcript[o] # <<>>
    BY <1>3, <2>1 DEF IsSaved
  <2>. QED  BY <1>2, <1>6, <2>1, <2>2 DEF IInv, SessionInv
<1>8. TurnInv'
  BY <1>1 DEF IInv, TurnInv, UnderWay, Holding
<1>9. LockInv' /\ AloneInv'
  BY <1>1 DEF IInv, LockInv, AloneInv, Holding
<1>10. TranscriptInv'
  <2>1. \A o \in Offers \ stray : Apart(transcript'[o])
    BY DEF IInv, TranscriptInv
  <2>2. \A o \in Offers \ stray : Apart(disk'.transcript[o])
    BY <1>3, <2>1, EmptyApart DEF IsSaved
  <2>. QED  BY <2>1, <2>2 DEF TranscriptInv
<1>11. \A n \in Messages : (at'[n] \in Holding \ {"posting"} /\ to[n] \notin stray) =>
         n # m /\ at'[n] = at[n] /\ transcript'[to[n]] = transcript[to[n]]
  <2>. TAKE n \in Messages
  <2>1. HAVE at'[n] \in Holding \ {"posting"} /\ to[n] \notin stray
  <2>2. n # m /\ at'[n] = at[n]
    BY <1>1, <2>1 DEF Holding
  <2>3. to[n] # to[m]
    BY <2>1, <2>2 DEF IInv, AloneInv
  <2>. QED  BY <1>1, <2>2, <2>3
<1>12. SpeakInv' /\ CutInv'
  <2>1. ASSUME NEW n \in Messages, at'[n] \in {"searching", "answering"}, to[n] \notin stray
        PROVE  Speaks(transcript'[to[n]], n)
    BY <1>11, <2>1 DEF IInv, SpeakInv, Holding
  <2>2. ASSUME NEW n \in Messages, at'[n] = "summarising", to[n] \notin stray
        PROVE  cut'[n] # {} /\ cut'[n] \subseteq ResearchIn(to[n])'
    <3>1. n # m /\ at[n] = "summarising" /\ transcript'[to[n]] = transcript[to[n]]
      BY <1>11, <2>2 DEF Holding
    <3>. QED  BY <2>2, <3>1 DEF IInv, CutInv, ResearchIn
  <2>. QED  BY <2>1, <2>2 DEF SpeakInv, CutInv
<1>13. KeptInv'
  <2>1. \A n \in shown : at'[n] # "unsent"
    BY <1>1 DEF IInv, KeptInv, TypeOK
  <2>2. ASSUME NEW n \in Messages, n \in shown \/ at'[n] = "posting", to[n] \notin stray
        PROVE  AnswerOf(n) \in Range(transcript'[to[n]])
    <3>1. CASE n \in shown \/ at[n] = "posting"
      <4>1. AnswerOf(n) \in Range(transcript[to[n]]) /\ AnswerOf(n).kind # "research"
        BY <2>2, <3>1 DEF IInv, KeptInv, AnswerOf
      <4>. QED  BY <1>1, <2>2, <4>1
    <3>2. CASE ~(n \in shown \/ at[n] = "posting")
      <4>1. n = m /\ p = "posting"
        BY <1>1, <2>2, <3>2
      <4>. QED  BY <2>2, <4>1
    <3>. QED  BY <3>1, <3>2
  <2>3. \A n \in Messages : to[n] \in pending \cup live' =>
          disk'.transcript[to[n]] = transcript'[to[n]]
    BY <1>1, <1>3 DEF IsSaved
  <2>. QED  BY <2>1, <2>2, <2>3 DEF KeptInv
<1>. QED  BY <1>4, <1>5, <1>7, <1>8, <1>9, <1>10, <1>12, <1>13 DEF IInv

LEMMA AnswerStep ==
  ASSUME IInv, NEW m \in Messages, Answer(m)
  PROVE  IInv'
<1> DEFINE e == [kind |-> "answer", by |-> m]
           s == transcript[to[m]]
<1>1. at[m] \in Holding /\ Appends(m, "answer")
  BY DEF Answer, Holding
<1>2. /\ transcript' \in [Offers -> Seq(Entry)] /\ to[m] \in Offers /\ e \in Entry
      /\ transcript'[to[m]] = Append(s, e) /\ s \in Seq(Entry)
      /\ transcript'[to[m]] # <<>> /\ e \in Range(transcript'[to[m]])
      /\ \A o \in Offers : o # to[m] => transcript'[o] = transcript[o]
      /\ \A o \in Offers : Range(transcript[o]) \subseteq Range(transcript'[o])
  BY <1>1, AppendsFacts
<1>3. ASSUME to[m] \notin stray PROVE Apart(transcript'[to[m]])
  <2>1. Speaks(s, m) /\ Apart(s)
    BY <1>2, <1>3 DEF Answer, IInv, SpeakInv, TranscriptInv
  <2>2. e.by = m
    OBVIOUS
  <2> HIDE DEF e, s
  <2>. QED  BY <1>2, <2>1, <2>2, AppendApart
<1>4. /\ Puts(m, transcript') /\ at' = [at EXCEPT ![m] = "posting"] /\ idle' \in SUBSET Offers
      /\ UNCHANGED <<pending, registered, models, routed, locks, to, lockOf, cut>>
      /\ UNCHANGED <<opened, claim, sweep, restoring, missed, crashes, shown, stray>>
  BY DEF Answer, Moves, router, world, loops, ghosts, IInv, TypeOK
<1>5. cut \in [Messages -> SUBSET (Nat \ {0})]
  BY DEF IInv, TypeOK
<1>. QED  BY <1>1, <1>2, <1>3, <1>4, <1>5, PutStep DEF AnswerOf

LEMMA CompactStep ==
  ASSUME IInv, NEW m \in Messages, Compact(m)
  PROVE  IInv'
<1>1. /\ at[m] = "summarising" /\ at[m] \in Holding
      /\ at' = [at EXCEPT ![m] = "ended"] /\ cut' = [cut EXCEPT ![m] = {}]
      /\ UNCHANGED <<pending, idle, registered, models, routed, locks, to, lockOf>>
      /\ UNCHANGED <<opened, claim, sweep, restoring, missed, crashes, shown, stray>>
  BY DEF Compact, Moves, Holding, router, world, loops, ghosts
<1>2. /\ cut' \in [Messages -> SUBSET (Nat \ {0})] /\ \A n \in Messages : n # m => cut'[n] = cut[n]
      /\ idle \in SUBSET Offers /\ to[m] \in Offers /\ cut[m] \in SUBSET (Nat \ {0})
      /\ transcript[to[m]] \in Seq(Entry)
      /\ \A n \in Messages : at'[n] = IF n = m THEN "ended" ELSE at[n]
  BY <1>1 DEF IInv, TypeOK
<1>3. CASE UNCHANGED <<transcript, live, disk>>
  <2>1. TypeOK'
    BY <1>1, <1>2, <1>3 DEF IInv, TypeOK
  <2>2. SyncInv' /\ SessionInv' /\ TranscriptInv'
    BY <1>1, <1>3 DEF IInv, SyncInv, SessionInv, TranscriptInv
  <2>3. TurnInv' /\ LockInv' /\ AloneInv'
    BY <1>1, <1>2, <1>3 DEF IInv, TurnInv, LockInv, AloneInv, UnderWay, Holding
  <2>4. SpeakInv' /\ CutInv'
    BY <1>1, <1>2, <1>3 DEF IInv, SpeakInv, CutInv, ResearchIn
  <2>5. KeptInv'
    BY <1>1, <1>2, <1>3 DEF IInv, KeptInv, TypeOK
  <2>. QED  BY <2>1, <2>2, <2>3, <2>4, <2>5 DEF IInv
<1>4. CASE transcript' = [transcript EXCEPT ![to[m]] = Condensed(@, cut[m])] /\ Puts(m, transcript')
  <2> DEFINE s == transcript[to[m]]
             c == Condensed(s, cut[m])
  <2>1. c \in Seq(Entry) /\ c # <<>>
    <3>1. s # <<>>
      BY <1>1 DEF IInv, TurnInv, UnderWay
    <3>. QED  BY <1>2, <3>1, CondensedTyped
  <2>2. /\ transcript' \in [Offers -> Seq(Entry)] /\ transcript'[to[m]] = c
        /\ \A o \in Offers : o # to[m] => transcript'[o] = transcript[o]
    <3>1. transcript' = [transcript EXCEPT ![to[m]] = c] /\ transcript \in [Offers -> Seq(Entry)]
      BY <1>4 DEF IInv, TypeOK
    <3> HIDE DEF c
    <3>. QED  BY <1>2, <2>1, <3>1
  <2>3. ASSUME to[m] \notin stray
        PROVE  /\ Apart(c)
               /\ \A e \in Range(s) : e.kind # "research" => e \in Range(c)
    <3>1. cut[m] # {} /\ cut[m] \subseteq Research(s)
      BY <1>1, <2>3 DEF IInv, CutInv, ResearchIn, Research
    <3>2. Apart(s)
      BY <1>2, <2>3 DEF IInv, TranscriptInv
    <3>. QED  BY <1>2, <3>1, <3>2, CondensedFacts
  <2> HIDE DEF c
  <2>. QED  BY <1>1, <1>2, <1>4, <2>1, <2>2, <2>3, PutStep
<1>. QED  BY <1>3, <1>4 DEF Compact

\* A compaction has something to remove: the oldest research at least.
LEMMA VictimsFacts ==
  ASSUME NEW t \in Offers, transcript[t] \in Seq(Entry), Cardinality(ResearchIn(t)) >= 2
  PROVE  Victims(t) # {} /\ Victims(t) \subseteq ResearchIn(t) /\ Victims(t) \subseteq Nat \ {0}
<1> DEFINE R == ResearchIn(t)
           h == IF Cardinality(R) \div 2 > 1 THEN Cardinality(R) \div 2 ELSE 1
<1>1. R \in SUBSET (1..Len(transcript[t])) /\ Len(transcript[t]) \in Nat
  BY DEF ResearchIn
<1>2. IsFiniteSet(R) /\ Cardinality(R) \in Nat /\ R # {}
  <2> HIDE DEF R
  <2>1. IsFiniteSet(R) /\ Cardinality(R) \in Nat
    BY <1>1, SortedListing, FS_CardinalityType
  <2>. QED  BY <2>1, FS_EmptySet DEF R
<1> HIDE DEF R
<1>3. h \in Nat /\ h > 0
  BY <1>2
<1>4. PICK i \in R : \A j \in R : i <= j
  BY <1>1, <1>2, LeastOfSet
<1>5. {j \in R : j < i} = {}
  <2>1. \A j \in R : j \in Nat
    BY <1>1
  <2>. QED  BY <1>4, <2>1
<1>6. Cardinality({j \in R : j < i}) < h
  BY <1>3, <1>5, FS_EmptySet
<1>7. Victims(t) = {g \in R : Cardinality({j \in R : j < g}) < h}
  BY DEF Victims, R
<1>8. i \in Victims(t)
  BY <1>6, <1>7
<1>. QED  BY <1>1, <1>7, <1>8 DEF R

LEMMA PostStep ==
  ASSUME IInv, NEW m \in Messages, PostAnswer(m)
  PROVE  IInv'
<1>1. /\ UNCHANGED <<pending, live, transcript, idle, registered, disk, models, routed, locks>>
      /\ UNCHANGED <<to, lockOf, opened, claim, sweep, restoring, missed, crashes, stray>>
      /\ at[m] = "posting" /\ shown' = shown \cup {m}
  BY DEF PostAnswer, stores, router, world, loops
<1>2. PICK p \in {"ended", "summarising"} :
        /\ at' = [at EXCEPT ![m] = p]
        /\ (p = "ended" /\ cut' = cut) \/ (p = "summarising" /\ cut' = [cut EXCEPT ![m] = Victims(to[m])])
        /\ p = "summarising" => Cardinality(ResearchIn(to[m])) >= 2
  <2>1. CASE Moves(m, "ended") /\ UNCHANGED cut
    BY <2>1 DEF Moves
  <2>2. CASE /\ Cardinality(ResearchIn(to[m])) >= 2
             /\ cut' = [cut EXCEPT ![m] = Victims(to[m])]
             /\ Moves(m, "summarising")
    BY <2>2 DEF Moves
  <2>. QED  BY <2>1, <2>2 DEF PostAnswer
<1>3. \A n \in Messages : to[n] \in Offers /\ at'[n] = IF n = m THEN p ELSE at[n]
  BY <1>2 DEF IInv, TypeOK
<1>4. /\ cut' \in [Messages -> SUBSET (Nat \ {0})]
      /\ \A n \in Messages : n # m => cut'[n] = cut[n]
      /\ p = "summarising" => cut'[m] # {} /\ cut'[m] \subseteq ResearchIn(to[m])
  <2>1. cut \in [Messages -> SUBSET (Nat \ {0})] /\ to[m] \in Offers /\ transcript[to[m]] \in Seq(Entry)
    BY DEF IInv, TypeOK
  <2>2. CASE p = "ended"
    BY <1>2, <2>1, <2>2
  <2>3. CASE p = "summarising"
    <3>1. /\ Victims(to[m]) # {} /\ Victims(to[m]) \subseteq ResearchIn(to[m])
          /\ Victims(to[m]) \subseteq Nat \ {0}
      BY <1>2, <2>1, <2>3, VictimsFacts
    <3>2. cut' = [cut EXCEPT ![m] = Victims(to[m])]
      BY <1>2, <2>3
    <3>. QED  BY <2>1, <3>1, <3>2
  <2>. QED  BY <2>2, <2>3
<1>5. TypeOK'
  BY <1>1, <1>2, <1>4 DEF IInv, TypeOK, UnderWay, Holding
<1>6. SyncInv' /\ SessionInv' /\ TranscriptInv'
  BY <1>1 DEF IInv, SyncInv, SessionInv, TranscriptInv
<1>7. TurnInv' /\ LockInv' /\ AloneInv'
  BY <1>1, <1>2, <1>3 DEF IInv, TurnInv, LockInv, AloneInv, UnderWay, Holding
<1>8. SpeakInv'
  BY <1>1, <1>2, <1>3 DEF IInv, SpeakInv
<1>9. CutInv'
  BY <1>1, <1>3, <1>4 DEF IInv, CutInv, ResearchIn
<1>10. KeptInv'
  BY <1>1, <1>2, <1>3 DEF IInv, KeptInv, TypeOK
<1>. QED  BY <1>5, <1>6, <1>7, <1>8, <1>9, <1>10 DEF IInv

LEMMA AgeStep ==
  ASSUME IInv, NEW t \in Offers, Age(t)
  PROVE  IInv'
<1>1. /\ UNCHANGED <<pending, live, transcript, registered, models, routed, locks>>
      /\ UNCHANGED <<at, to, lockOf, cut, opened, claim, sweep, restoring, missed>>
      /\ UNCHANGED <<crashes, shown, stray>> /\ idle' = idle \cup {t}
  BY DEF Age, router, turns, world, loops, ghosts
<1>2. /\ disk' \in Disks /\ disk'.pending = disk.pending /\ disk'.live = disk.live
      /\ disk'.registered = disk.registered /\ disk'.transcript = disk.transcript
  <2>1. PICK S \in SUBSET Offers : disk' = [disk EXCEPT !.idle = S]
    <3>1. disk.idle \cup ({t} \cap (disk.pending \cup disk.live)) \in SUBSET Offers
      BY DEF IInv, TypeOK
    <3>. QED  BY <3>1 DEF Age
  <2>2. disk \in Disks
    BY DiskTyped DEF IInv
  <2>. QED  BY <2>1, <2>2 DEF Disks
<1>3. TypeOK'
  BY <1>1, <1>2 DEF IInv, TypeOK, Disks
<1>4. SyncInv' /\ SessionInv' /\ TranscriptInv'
  BY <1>1, <1>2 DEF IInv, SyncInv, SessionInv, TranscriptInv
<1>5. TurnInv' /\ LockInv' /\ AloneInv'
  BY <1>1 DEF IInv, TurnInv, LockInv, AloneInv
<1>6. SpeakInv' /\ CutInv'
  BY <1>1 DEF IInv, SpeakInv, CutInv, ResearchIn
<1>7. KeptInv'
  BY <1>1, <1>2 DEF IInv, KeptInv
<1>. QED  BY <1>3, <1>4, <1>5, <1>6, <1>7 DEF IInv

LEMMA RetireStep ==
  ASSUME IInv, NEW t \in Offers, RetireThread(t)
  PROVE  IInv'
<1>1. /\ UNCHANGED <<pending, transcript, at, to, lockOf, cut, opened, claim>>
      /\ UNCHANGED <<restoring, missed, crashes, shown>>
      /\ sweep' = [sweep EXCEPT !.notifying = {}]
      /\ routed' = routed \ {t} /\ models' = models \ {t}
      /\ locks' = [locks EXCEPT ![t] = NoOne]
      /\ registered' = registered \ {t} /\ live' = live \ {t} /\ idle' = idle \ {t}
      /\ disk' = [Saved(pending, live', transcript, idle') EXCEPT !.registered = registered']
      /\ stray' = stray \cup {o \in {t} : \E m \in Messages : to[m] = o /\ at[m] \in UnderWay}
  BY DEF RetireThread, turns, world
<1>2. pending \in SUBSET Offers /\ live' \in SUBSET Offers /\ registered' \in SUBSET Offers
      /\ transcript \in [Offers -> Seq(Entry)] /\ idle' \in SUBSET Offers
  BY <1>1 DEF IInv, TypeOK
<1>3. IsSaved(disk', pending, live', registered', transcript)
  <2>1. disk \in Disks
    BY DiskTyped DEF IInv
  <2>. QED  BY <1>1, <1>2, <2>1, SavedFacts
<1>4. stray \subseteq stray' /\ stray' \subseteq Offers
      /\ \A m \in Messages : (at[m] \in UnderWay /\ to[m] \notin stray') => to[m] # t
  BY <1>1 DEF IInv, TypeOK
<1>5. TypeOK'
  <2>1. disk' \in Disks
    BY <1>3 DEF IsSaved
  <2>2. sweep' \in [todo : SUBSET Offers, notifying : SUBSET Offers]
    BY <1>1 DEF IInv, TypeOK
  <2>3. locks' \in [Offers -> Messages \cup {NoOne}]
    BY <1>1 DEF IInv, TypeOK
  <2>. QED  BY <1>1, <1>2, <1>4, <2>1, <2>2, <2>3 DEF IInv, TypeOK, Disks
<1>6. SyncInv'
  BY <1>1, <1>3 DEF SyncInv, IsSaved
<1>7. SessionInv'
  <2>1. \A o \in pending \cup live' : transcript[o] # <<>> /\ disk'.transcript[o] # <<>>
    BY <1>1, <1>2, <1>3 DEF IInv, SessionInv, IsSaved
  <2>. QED  BY <1>1, <2>1 DEF IInv, SessionInv
<1>8. TurnInv'
  BY <1>1 DEF IInv, TurnInv
<1>9. LockInv'
  <2> SUFFICES ASSUME NEW m \in Messages, at[m] \in {"queued"} \cup Holding, to[m] \notin stray'
               PROVE  lockOf[m] = locks'[to[m]] /\ lockOf[m] # NoOne
    BY <1>1 DEF LockInv
  <2>1. at[m] \in UnderWay /\ to[m] \notin stray /\ to[m] \in Offers
    BY <1>4 DEF UnderWay, IInv, TypeOK
  <2>2. to[m] # t /\ locks'[to[m]] = locks[to[m]]
    BY <1>1, <1>4, <2>1 DEF IInv, TypeOK
  <2>. QED  BY <2>1, <2>2 DEF IInv, LockInv
<1>10. AloneInv'
  BY <1>1, <1>4 DEF IInv, AloneInv
<1>11. TranscriptInv'
  <2>1. \A o \in Offers \ stray' : Apart(transcript[o])
    BY <1>4 DEF IInv, TranscriptInv
  <2>2. \A o \in Offers \ stray' : Apart(disk'.transcript[o])
    BY <1>3, <2>1, EmptyApart DEF IsSaved
  <2>. QED  BY <1>1, <2>1, <2>2 DEF TranscriptInv
<1>12. SpeakInv' /\ CutInv'
  BY <1>1, <1>4 DEF IInv, SpeakInv, CutInv, ResearchIn
<1>13. KeptInv'
  <2>1. \A m \in Messages : to[m] \in pending \cup live' => disk'.transcript[to[m]] = transcript[to[m]]
    BY <1>2, <1>3 DEF IsSaved
  <2>. QED  BY <1>1, <1>4, <2>1 DEF IInv, KeptInv
<1>. QED  BY <1>5, <1>6, <1>7, <1>8, <1>9, <1>10, <1>11, <1>12, <1>13 DEF IInv

\* Whatever the process leaves behind when it dies is consistent.
SoundDisk(d) ==
  /\ d \in Disks /\ d.pending \cap d.live = {} /\ d.registered \subseteq d.live
  /\ \A o \in d.pending \cup d.live : d.transcript[o] # <<>>
  /\ \A o \in Offers \ stray : Apart(d.transcript[o])
  /\ \A m \in shown : to[m] \in (d.pending \cup d.live) \ stray =>
       AnswerOf(m) \in Range(d.transcript[to[m]])

LEMMA DeathFacts ==
  ASSUME IInv, NEW d \in DiskAtDeath
  PROVE  SoundDisk(d)
<1>1. disk \in Disks /\ shown \subseteq Messages /\ \A m \in Messages : to[m] \in Offers
  BY DiskTyped DEF IInv, TypeOK
<1>2. SoundDisk(disk)
  BY <1>1 DEF IInv, SoundDisk, SyncInv, SessionInv, TranscriptInv, KeptInv
<1>3. ASSUME NEW o \in pending, d = Saved(pending \ {o}, live \cup {o}, transcript, idle)
      PROVE  SoundDisk(d)
  <2>1. /\ pending \ {o} \in SUBSET Offers /\ live \cup {o} \in SUBSET Offers
        /\ transcript \in [Offers -> Seq(Entry)] /\ idle \in SUBSET Offers
        /\ registered \in SUBSET Offers /\ disk.registered = registered
    BY DEF IInv, TypeOK, SyncInv
  <2>2. IsSaved(d, pending \ {o}, live \cup {o}, registered, transcript)
    BY <1>1, <1>3, <2>1, SavedFacts
  <2>3. /\ d \in Disks /\ d.pending = pending \ {o} /\ d.live = live \cup {o}
        /\ d.registered = registered /\ d.pending \cup d.live = pending \cup live
    BY <2>2 DEF IsSaved
  <2>4. \A p \in Offers : d.transcript[p] = IF p \in pending \cup live THEN transcript[p] ELSE <<>>
    BY <2>2, <2>3 DEF IsSaved
  <2>5. d.pending \cap d.live = {} /\ d.registered \subseteq d.live
    BY <2>3 DEF IInv, SessionInv
  <2>6. \A p \in d.pending \cup d.live : d.transcript[p] # <<>>
    BY <2>1, <2>3, <2>4 DEF IInv, SessionInv, TypeOK
  <2>7. \A p \in Offers \ stray : Apart(d.transcript[p])
    BY <2>4, EmptyApart DEF IInv, TranscriptInv
  <2>8. \A m \in shown : to[m] \in (d.pending \cup d.live) \ stray =>
          AnswerOf(m) \in Range(d.transcript[to[m]])
    BY <1>1, <2>3, <2>4 DEF IInv, KeptInv
  <2>. QED  BY <2>3, <2>5, <2>6, <2>7, <2>8 DEF SoundDisk
<1>4. ASSUME NEW t \in sweep.notifying, d = [disk EXCEPT !.registered = @ \ {t}]
      PROVE  SoundDisk(d)
  <2>1. /\ d \in Disks /\ d.pending = disk.pending /\ d.live = disk.live
        /\ d.registered = disk.registered \ {t} /\ d.transcript = disk.transcript
    BY <1>1, <1>4 DEF Disks
  <2>. QED  BY <1>2, <2>1 DEF SoundDisk
<1>. QED  BY <1>2, <1>3, <1>4 DEF DiskAtDeath

LEMMA RestartStep ==
  ASSUME IInv, Restart
  PROVE  IInv'
<1>1. PICK d \in DiskAtDeath :
        /\ disk' = d /\ pending' = d.pending /\ live' = d.live /\ registered' = d.registered
        /\ transcript' = Loaded(d) /\ idle' = d.idle /\ restoring' = d.registered
  BY DEF Restart
<1>2. SoundDisk(d)
  BY DeathFacts
<1>3. /\ UNCHANGED <<opened, to, lockOf, shown, stray>>
      /\ models' = {} /\ routed' = {} /\ missed' = {}
      /\ locks' = [o \in Offers |-> NoOne] /\ claim' = [o \in Offers |-> "none"]
      /\ cut' = [m \in Messages |-> {}] /\ sweep' = [todo |-> {}, notifying |-> {}]
      /\ at' = [m \in Messages |-> IF at[m] \in UnderWay THEN "ended" ELSE at[m]]
      /\ crashes < MaxCrashes /\ crashes' = crashes + 1
  BY DEF Restart
<1>4. /\ d \in Disks /\ transcript \in [Offers -> Seq(Entry)]
      /\ d.pending \in SUBSET Offers /\ d.live \in SUBSET Offers /\ d.idle \in SUBSET Offers
      /\ d.registered \in SUBSET Offers /\ d.transcript \in [Offers -> Seq(Entry)]
  BY <1>2 DEF SoundDisk, Disks, IInv, TypeOK
<1>5. /\ transcript' \in [Offers -> Seq(Entry)]
      /\ \A o \in Offers :
           transcript'[o] = IF o \in d.pending \cup d.live THEN d.transcript[o] ELSE transcript[o]
  BY <1>1, <1>4 DEF Loaded
<1>6. \A m \in Messages : at'[m] \in {"unsent", "ended"} /\ (at'[m] = "unsent" => at[m] = "unsent")
  BY <1>3 DEF IInv, TypeOK
<1>7. TypeOK'
  <2>1. at' \in [Messages -> UnderWay \cup {"unsent", "ended"}]
    BY <1>3, <1>6
  <2>2. crashes' \in 0..MaxCrashes
    BY <1>3, BoundAssumption DEF IInv, TypeOK
  <2>. QED  BY <1>1, <1>3, <1>4, <1>5, <2>1, <2>2 DEF IInv, TypeOK, Disks
<1>8. SyncInv'
  BY <1>1 DEF SyncInv
<1>9. SessionInv'
  BY <1>1, <1>2, <1>3, <1>4, <1>5 DEF SoundDisk, SessionInv
<1>10. TurnInv' /\ LockInv' /\ AloneInv' /\ SpeakInv' /\ CutInv'
  BY <1>6 DEF TurnInv, LockInv, AloneInv, SpeakInv, CutInv, UnderWay, Holding
<1>11. TranscriptInv'
  BY <1>1, <1>2, <1>3, <1>5 DEF IInv, SoundDisk, TranscriptInv
<1>12. KeptInv'
  <2>1. \A m \in shown : m \in Messages /\ at'[m] # "unsent" /\ to[m] \in Offers
    BY <1>6 DEF IInv, KeptInv, TypeOK
  <2>2. ASSUME NEW m \in Messages, m \in shown \/ at'[m] = "posting", to[m] \notin stray
        PROVE  /\ AnswerOf(m) \in Range(transcript'[to[m]])
               /\ to[m] \in d.pending \cup d.live => AnswerOf(m) \in Range(d.transcript[to[m]])
    <3>1. m \in shown /\ to[m] \in Offers
      BY <1>6, <2>1, <2>2
    <3>2. AnswerOf(m) \in Range(transcript[to[m]])
      BY <2>2, <3>1 DEF IInv, KeptInv
    <3>3. to[m] \in d.pending \cup d.live => AnswerOf(m) \in Range(d.transcript[to[m]])
      BY <1>2, <2>2, <3>1 DEF SoundDisk
    <3>. QED  BY <1>5, <3>1, <3>2, <3>3
  <2>. QED  BY <1>1, <1>3, <2>1, <2>2 DEF KeptInv
<1>. QED  BY <1>7, <1>8, <1>9, <1>10, <1>11, <1>12 DEF IInv

LEMMA NextIInv == IInv /\ [Next]_vars => IInv'
<1> SUFFICES ASSUME IInv, [Next]_vars PROVE IInv'
  OBVIOUS
<1>1. PICK any \in Offers : TRUE
  BY IdAssumption
<1>2. CASE UNCHANGED vars
  BY <1>1, <1>2, QuietStep
<1>3. ASSUME NEW o \in Offers,
             OfferThread(o) \/ React(o) \/ ClaimStep(o) \/ Age(o) \/ RestoreThread(o)
      PROVE  IInv'
  BY <1>3, OfferStep, QuietStep, ClaimStepKeeps, AgeStep DEF ClaimStep
<1>4. ASSUME NEW m \in Messages, TurnStep(m)
      PROVE  IInv'
  BY <1>4, QueueStep, SearchStep, AnswerStep, PostStep, CompactStep DEF TurnStep
<1>5. ASSUME NEW m \in Messages, NEW t \in Offers, Arrive(m, t)
      PROVE  IInv'
  BY <1>5, ArriveStep
<1>6. CASE SweepStep
  BY <1>1, <1>6, QuietStep, RetireStep DEF SweepStep
<1>7. CASE Restart
  BY <1>7, RestartStep
<1>. QED  BY <1>2, <1>3, <1>4, <1>5, <1>6, <1>7 DEF Next

LEMMA IInvHolds == Spec => []IInv
  BY InitIInv, NextIInv, PTL DEF Spec

-----------------------------------------------------------------------------
\* In every reachable state the session store, the registry, the router and the
\* two files agree on which threads there are, wherever the process died
\* (claim_thread, retire_thread, restore_threads).
THEOREM StoresDoAgree == Spec => []StoresAgree
<1>1. IInv => StoresAgree
  BY DEF IInv, StoresAgree, SyncInv, SessionInv, RegisteredHasSession, ClaimedOnce, RestoredIsRouted
<1>. QED  BY <1>1, IInvHolds, PTL

\* Follow-ups posted at the same time are answered one after the other: what
\* stands between an answer and its question belongs to the same turn
\* (services.py, ThreadRouter).
THEOREM OneTurnAtATime == Spec => []TurnsDoNotInterleave
<1>1. IInv => TurnsDoNotInterleave
  <2> SUFFICES ASSUME IInv, NEW t \in Offers \ stray, NEW i \in 1..Len(transcript[t]),
                      transcript[t][i].kind = "answer" /\ transcript[t][i].by # NoOne
               PROVE  \E j \in 1..i :
                        /\ transcript[t][j] = [kind |-> "question", by |-> transcript[t][i].by]
                        /\ \A k \in j..i : transcript[t][k].by \in {transcript[t][i].by, NoOne}
    BY DEF TurnsDoNotInterleave
  <2>1. Apart(transcript[t])
    BY DEF IInv, TranscriptInv
  <2>. QED  BY <2>1 DEF Apart, Question
<1>. QED  BY <1>1, IInvHolds, PTL

\* An answer that was shown is in the saved transcript as long as its session
\* lasts, whatever was compacted since and wherever the process died
\* (on_message, _compact_session).
THEOREM ShownAnswersAreSaved == Spec => []ShownIsSaved
<1>1. IInv => ShownIsSaved
  BY DEF IInv, ShownIsSaved, KeptInv, SyncInv, TypeOK, AnswerOf
<1>. QED  BY <1>1, IInvHolds, PTL

\* No question and no answer leaves a transcript or changes place while the
\* process lives: compaction rewrites research only, and the positions it noted
\* before the summary was asked for are still right when it comes
\* (_compact_session).
THEOREM QuestionsAndAnswersStay == Spec => TurnsAreKept
<1>1. ASSUME IInv, [Next]_vars, NEW t \in Offers \ stray', crashes' = crashes
      PROVE  IsPrefix(Turns(transcript[t]), Turns(transcript'[t]))
  <2>1. transcript \in [Offers -> Seq(Entry)] /\ crashes \in Nat /\ stray \subseteq stray'
    <3>1. stray \subseteq stray'
      BY <1>1 DEF Next, vars, OfferThread, React, ClaimStep, PeekOffer, OpenThread, ClaimThread, Age,
         RestoreThread, TurnStep, Queue, Acquire, Ask, Search, Answer, Fail, PostAnswer, Compact,
         Arrive, SweepStep, SweepThreads, SweepThread, RetireThread, Restart, ghosts
    <3>. QED  BY <1>1, <3>1, BoundAssumption DEF IInv, TypeOK
  <2>2. ASSUME transcript'[t] = transcript[t]
        PROVE  IsPrefix(Turns(transcript[t]), Turns(transcript'[t]))
    <3>1. Turns(transcript[t]) \in Seq(Entry)
      BY <2>1, SelectedProperties DEF Turns
    <3>. QED  BY <2>2, <3>1, SameTurns
  <2>3. ASSUME NEW m \in Messages, NEW k \in {"question", "research", "answer"}, Appends(m, k)
        PROVE  IsPrefix(Turns(transcript[t]), Turns(transcript'[t]))
    <3>1. CASE t # to[m]
      BY <2>1, <2>2, <2>3, <3>1 DEF Appends
    <3>2. CASE t = to[m]
      <4>1. transcript'[t] = Append(transcript[t], [kind |-> k, by |-> m])
        BY <2>1, <2>3, <3>2 DEF Appends
      <4>2. [kind |-> k, by |-> m] \in Entry
        BY EntryFacts
      <4>. QED  BY <2>1, <4>1, <4>2, AppendTurns
    <3>. QED  BY <3>1, <3>2
  <2>4. ASSUME NEW m \in Messages, Compact(m)
        PROVE  IsPrefix(Turns(transcript[t]), Turns(transcript'[t]))
    <3>1. CASE transcript'[t] = transcript[t]
      BY <2>2, <3>1
    <3>2. CASE transcript'[t] # transcript[t]
      <4>1. t = to[m] /\ transcript'[t] = Condensed(transcript[t], cut[m])
        BY <2>1, <2>4, <3>2 DEF Compact
      <4>2. cut[m] # {} /\ cut[m] \subseteq Research(transcript[t])
        BY <1>1, <2>1, <2>4, <4>1 DEF Compact, IInv, CutInv, ResearchIn, Research
      <4>3. cut[m] \in SUBSET (Nat \ {0}) /\ transcript[t] \in Seq(Entry)
        BY <1>1, <2>1 DEF IInv, TypeOK
      <4>4. Turns(transcript'[t]) = Turns(transcript[t])
        BY <4>1, <4>2, <4>3, CondensedFacts
      <4>5. Turns(transcript[t]) \in Seq(Entry)
        BY <2>1, SelectedProperties DEF Turns
      <4>. QED  BY <4>4, <4>5, SameTurns
    <3>. QED  BY <3>1, <3>2
  <2>5. ASSUME NEW o \in Offers, OfferThread(o)
        PROVE  IsPrefix(Turns(transcript[t]), Turns(transcript'[t]))
    <3>1. CASE t # o
      BY <2>1, <2>2, <2>5, <3>1 DEF OfferThread
    <3>2. CASE t = o
      <4>1. transcript[t] = <<>> /\ transcript'[t] = Seed
        BY <2>1, <2>5, <3>2 DEF OfferThread
      <4>2. Len(Turns(transcript[t])) = 0 /\ Turns(transcript[t]) \in Seq(Entry)
        <5> DEFINE s == transcript[t]
                   K == {i \in 1..Len(s) : s[i].kind # "research"}
        <5>1. K = {} /\ s \in Seq(Entry) /\ K \in SUBSET (1..Len(s))
          BY <2>1, <4>1
        <5>2. Turns(s) = Selected(s, K)
          BY DEF Turns
        <5> HIDE DEF K, s
        <5>3. Selected(s, K) \in Seq(Entry) /\ Len(Selected(s, K)) = Cardinality(K)
          BY <5>1, SelectedProperties
        <5>4. Cardinality(K) = 0
          BY <5>1, FS_EmptySet
        <5>. QED  BY <5>2, <5>3, <5>4 DEF s
      <4>3. Turns(Seed) \in Seq(Entry)
        BY SeedFacts, SelectedProperties DEF Turns
      <4> DEFINE p == Turns(transcript[t])
                 q == Turns(Seed)
      <4> HIDE DEF p, q
      <4>4. p \in Seq(Entry) /\ q \in Seq(Entry) /\ Len(p) = 0
        BY <4>2, <4>3 DEF p, q
      <4>5. Len(p) <= Len(q) /\ SubSeq(p, 1, Len(p)) = SubSeq(q, 1, Len(p))
        BY <4>4
      <4>. QED  BY <4>1, <4>5 DEF IsPrefix, p, q
    <3>. QED  BY <3>1, <3>2
  <2>6. ~Restart
    BY <1>1, <2>1 DEF Restart
  <2>7. CASE UNCHANGED transcript
    BY <2>2, <2>7
  <2>8. \/ UNCHANGED transcript
        \/ \E o \in Offers : OfferThread(o)
        \/ \E m \in Messages : Ask(m) \/ Search(m) \/ Answer(m) \/ Compact(m)
    BY <1>1, <2>6 DEF Next, vars, stores, React, ClaimStep, PeekOffer, OpenThread, ClaimThread, Age,
       RestoreThread, TurnStep, Queue, Acquire, Fail, PostAnswer, Arrive,
       SweepStep, SweepThreads, SweepThread, RetireThread
  <2>. QED  BY <2>3, <2>4, <2>5, <2>7, <2>8 DEF Ask, Search, Answer
<1>2. IInv /\ [Next]_vars =>
        [\A t \in Offers \ stray' :
           crashes' = crashes => IsPrefix(Turns(transcript[t]), Turns(transcript'[t]))]_vars
  BY <1>1
<1>. QED  BY <1>2, IInvHolds, PTL DEF Spec, TurnsAreKept
=============================================================================
