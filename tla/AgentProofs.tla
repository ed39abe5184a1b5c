----------------------------- MODULE AgentProofs -----------------------------
(***************************************************************************)
(* Proofs about Agent, for every archive and every budget: nothing that was *)
(* found gets lost, nothing is shown twice or withheld that is not there,   *)
(* calls keep their results, and no round goes beyond the hard limit by     *)
(* more than a fixed slack.                                                 *)
(***************************************************************************)
EXTENDS Agent, SequenceLemmas

Running == at \notin {"idle", "posted"}

\* While the session is as it was when the run began.
Open == InLoop \/ at = "answering"

Kept(s) == Verbatim(s) \cup Summed(s)

\* What the loop puts into its lists.
IsNudge(m) == m.kind = "nudge" /\ m.id = 0 /\ m.texts = {} /\ m.summed = {}

IsTool(m) ==
  \/ m.kind = "call" /\ m.id # 0 /\ m.texts = {} /\ m.summed = {}
  \/ m.kind = "result" /\ m.id # 0 /\ m.summed = {}
  \/ m.kind = "condensed" /\ m.id = 0 /\ m.texts = {}

\* What the session has: blocks that say something.
IsBlock(m) == m.kind = "research" /\ m.id = 0 /\ (m.texts # {} \/ m.summed # {})

Blocks(s) == \A i \in 1..Len(s) : IsBlock(s[i])

\* Results are told apart by the number of their call, of which there were n.
Tools(s, n) ==
  /\ \A i \in 1..Len(s) : IsTool(s[i]) /\ s[i].id <= n
  /\ \A i, j \in 1..Len(s) :
       s[i].kind = "result" /\ s[j].kind = "result" /\ s[i].id = s[j].id => s[i] = s[j]

\* Each message of t stands in m at a place of its own after the first n.
Placed(t, m, n, h) ==
  /\ h \in [1..Len(t) -> (n + 1)..Len(m)]
  /\ \A i, j \in 1..Len(t) : h[i] = h[j] => i = j
  /\ \A j \in 1..Len(t) : m[h[j]] = t[j]

\* The conversation m is the session's research r, and after it what the run
\* hands over, t, with nudges in between.
Mirrors(m, t, r) ==
  /\ Len(r) <= Len(m)
  /\ \A i \in 1..Len(r) : m[i] = r[i]
  /\ \A i \in (Len(r) + 1)..Len(m) : IsNudge(m[i]) \/ \E j \in 1..Len(t) : m[i] = t[j]
  /\ \E h : Placed(t, m, Len(r), h)

Once(s) == \A i, j \in 1..Len(s) : i # j => s[i].texts \cap s[j].texts = {}

Answered(s) ==
  \A i \in 1..Len(s) :
    /\ s[i].kind = "call" =>
         i < Len(s) /\ s[i + 1].kind = "result" /\ s[i + 1].id = s[i].id
    /\ s[i].kind = "result" =>
         i > 1 /\ s[i - 1].kind = "call" /\ s[i - 1].id = s[i].id

\* A run that has not begun has no lists, and one under way a turn to count; the
\* opening run has no session.
RunInv ==
  /\ ~Running => /\ messages = <<>> /\ toolMessages = <<>>
  /\ Running => turn <= MaxTurns /\ round >= 1
  /\ turn = 0 => research = <<>>
  /\ IsFiniteSet(ran)
  /\ at # "summarising" => victims = {}

ToolInv ==
  /\ Tools(toolMessages, Cardinality(ran) + repeats)
  /\ Answered(messages) /\ Answered(toolMessages)
  /\ \A v \in victims : v.kind = "result" /\ \E j \in 1..Len(toolMessages) : v = toolMessages[j]

MirrorInv == Open => Mirrors(messages, toolMessages, research)

\* The keys of the session are those of its texts, and of none that it lost.
SeenInv ==
  /\ Blocks(research)
  /\ Verbatim(research) \subseteq seen /\ seen \subseteq Kept(research)
  /\ learned \subseteq Kept(research)

FoundInv == Running => found \subseteq Kept(toolMessages) \cup seen

\* The results of the loop show what the session has not.
ShownInv ==
  InLoop =>
    /\ \A x \in Texts :
         x \in shown <=> \/ x \in seen
                         \/ \E i \in 1..Len(messages) :
                              messages[i].kind = "result" /\ x \in messages[i].texts
    /\ \A i \in 1..Len(messages) : messages[i].kind = "result" => messages[i].texts \cap seen = {}

OnceInv == Once(messages) /\ Once(research)

\* What the accounts say of the next request, and of the session: between two
\* turns an estimate may be short, or a summary longer than what it condenses.
SizeInv ==
  /\ at \in {"calling", "summarising"} => Context + Len(todo) * Wording = used + fresh
  /\ at = "summarising" => todo = <<>> /\ projected \in Projected
  /\ at = "posted" => talk + Size(research) <= lastContext
  /\ at = "idle" /\ ~unrecorded => talk + Size(research) <= lastContext + Larger(Error, Longest)

IInv ==
  /\ TypeOK /\ RunInv /\ ToolInv /\ MirrorInv /\ SeenInv /\ FoundInv /\ ShownInv
  /\ OnceInv /\ SizeInv /\ WithinWindow


-----------------------------------------------------------------------------
(* Lists of messages.                                                      *)

\* What a list shows is in one of its messages.
Holds(s) ==
  /\ Len(s) \in Nat
  /\ \A i \in 1..Len(s) : s[i] \in MessageSet
  /\ Verbatim(s) \subseteq Texts /\ Summed(s) \subseteq Texts
  /\ IsFiniteSet(Verbatim(s))
  /\ \A x : x \in Verbatim(s) <=> \E i \in 1..Len(s) : x \in s[i].texts
  /\ \A x : x \in Summed(s) <=> \E i \in 1..Len(s) : x \in s[i].summed

LEMMA ListHolds ==
  ASSUME NEW s \in Seq(MessageSet)
  PROVE  Holds(s)
<1>1. Len(s) \in Nat /\ \A i \in 1..Len(s) : s[i] \in MessageSet
  OBVIOUS
<1>2. \A x : x \in Verbatim(s) <=> \E i \in 1..Len(s) : x \in s[i].texts
  BY DEF Verbatim
<1>3. \A x : x \in Summed(s) <=> \E i \in 1..Len(s) : x \in s[i].summed
  BY DEF Summed
<1>4. \A m \in MessageSet : m.texts \subseteq Texts /\ m.summed \subseteq Texts
  BY DEF MessageSet
<1>5. Verbatim(s) \subseteq Texts /\ Summed(s) \subseteq Texts
  BY <1>1, <1>2, <1>3, <1>4
<1>6. IsFiniteSet(Verbatim(s))
  BY <1>5, FS_Subset, TextAssumption
<1> QED
  BY <1>1, <1>2, <1>3, <1>5, <1>6 DEF Holds

\* t is s with one message after it, or two.
Extends1(s, t, x) ==
  /\ t \in Seq(MessageSet) /\ Len(t) = Len(s) + 1
  /\ \A i \in 1..Len(s) : t[i] = s[i]
  /\ t[Len(s) + 1] = x

Extends2(s, t, x, y) ==
  /\ t \in Seq(MessageSet) /\ Len(t) = Len(s) + 2
  /\ \A i \in 1..Len(s) : t[i] = s[i]
  /\ t[Len(s) + 1] = x /\ t[Len(s) + 2] = y

LEMMA AppendExtends ==
  ASSUME NEW s \in Seq(MessageSet), NEW x \in MessageSet
  PROVE  Extends1(s, Append(s, x), x)
BY DEF Extends1

LEMMA PairExtends ==
  ASSUME NEW s \in Seq(MessageSet), NEW x \in MessageSet, NEW y \in MessageSet
  PROVE  Extends2(s, s \o <<x, y>>, x, y)
<1>1. Len(s) \in Nat /\ <<x, y>> \in Seq(MessageSet) /\ Len(<<x, y>>) = 2
  OBVIOUS
<1>2. /\ s \o <<x, y>> \in Seq(MessageSet) /\ Len(s \o <<x, y>>) = Len(s) + 2
      /\ \A i \in 1..(Len(s) + 2) :
           (s \o <<x, y>>)[i] = IF i <= Len(s) THEN s[i] ELSE <<x, y>>[i - Len(s)]
  BY <1>1, ConcatProperties
<1>3. Len(s) + 1 \in 1..(Len(s) + 2) /\ Len(s) + 2 \in 1..(Len(s) + 2)
  BY <1>1
<1>4. (Len(s) + 1) - Len(s) = 1 /\ (Len(s) + 2) - Len(s) = 2
  BY <1>1
<1>5. (s \o <<x, y>>)[Len(s) + 1] = x /\ (s \o <<x, y>>)[Len(s) + 2] = y
  BY <1>1, <1>2, <1>3, <1>4
<1>6. \A i \in 1..Len(s) : (s \o <<x, y>>)[i] = s[i]
  BY <1>1, <1>2
<1> QED
  BY <1>2, <1>5, <1>6 DEF Extends2

LEMMA Extends1Holds ==
  ASSUME NEW s \in Seq(MessageSet), NEW t, NEW x \in MessageSet, Extends1(s, t, x)
  PROVE  /\ Verbatim(t) = Verbatim(s) \cup x.texts
         /\ Summed(t) = Summed(s) \cup x.summed
<1>1. Holds(s) /\ Holds(t)
  BY ListHolds DEF Extends1
<1>2. \A i \in 1..Len(t) : i \in 1..Len(s) \/ i = Len(s) + 1
  BY <1>1 DEF Holds, Extends1
<1>3. Len(s) + 1 \in 1..Len(t) /\ \A i \in 1..Len(s) : i \in 1..Len(t)
  BY <1>1 DEF Holds, Extends1
<1> QED
  BY <1>1, <1>2, <1>3 DEF Holds, Extends1

Gains(s, t, x, y) ==
  /\ Verbatim(t) = Verbatim(s) \cup x.texts \cup y.texts
  /\ Summed(t) = Summed(s) \cup x.summed \cup y.summed

LEMMA Extends2Holds ==
  ASSUME NEW s \in Seq(MessageSet), NEW t, NEW x \in MessageSet, NEW y \in MessageSet,
         Extends2(s, t, x, y)
  PROVE  Gains(s, t, x, y)
<1>1. Holds(s) /\ Holds(t)
  BY ListHolds DEF Extends2
<1>2. \A i \in 1..Len(t) : i \in 1..Len(s) \/ i = Len(s) + 1 \/ i = Len(s) + 2
  BY <1>1 DEF Holds, Extends2
<1>3. /\ Len(s) + 1 \in 1..Len(t) /\ Len(s) + 2 \in 1..Len(t)
      /\ \A i \in 1..Len(s) : i \in 1..Len(t)
  BY <1>1 DEF Holds, Extends2
<1> QED
  BY <1>1, <1>2, <1>3 DEF Holds, Extends2, Gains

-----------------------------------------------------------------------------
(* The size of a list.                                                     *)

LEMMA SizeOfMessage ==
  ASSUME NEW m \in MessageSet
  PROVE  /\ IsFiniteSet(m.texts) /\ Cardinality(m.texts) \in Nat /\ m.length \in Nat
         /\ SizeOf(m) = Cardinality(m.texts) + m.length /\ SizeOf(m) \in Nat
<1>1. m.texts \subseteq Texts /\ m.length \in Nat
  BY DEF MessageSet
<1>2. IsFiniteSet(m.texts) /\ Cardinality(m.texts) \in Nat
  BY <1>1, FS_Subset, FS_CardinalityType, TextAssumption
<1> QED
  BY <1>1, <1>2 DEF SizeOf

LEMMA PlacesAreFinite ==
  ASSUME NEW s \in Seq(MessageSet), NEW K \in SUBSET (1..Len(s))
  PROVE  IsFiniteSet(K) /\ \A i \in K : SizeOf(s[i]) \in Nat
<1>1. \A i \in K : s[i] \in MessageSet
  OBVIOUS
<1>2. IsFiniteSet(1..Len(s))
  BY FS_Interval
<1> QED
  BY <1>1, <1>2, FS_Subset, SizeOfMessage

\* Messages that have each a place of its own in t take no more than t does.
LEMMA SizeFits ==
  ASSUME NEW s \in Seq(MessageSet), NEW K \in SUBSET (1..Len(s)),
         NEW t \in Seq(MessageSet), NEW J \in SUBSET (1..Len(t)),
         NEW f \in [K -> J], \A i, j \in K : f[i] = f[j] => i = j,
         \A i \in K : SizeOf(s[i]) <= SizeOf(t[f[i]])
  PROVE  SizeAt(s, K) \in Nat /\ SizeAt(t, J) \in Nat /\ SizeAt(s, K) <= SizeAt(t, J)
<1> DEFINE u == [i \in K |-> SizeOf(s[i])]
           v == [i \in J |-> SizeOf(t[i])]
<1>1. \A i \in K : u[i] \in Nat /\ u[i] <= v[f[i]]
  BY PlacesAreFinite
<1>2. IsFiniteSet(J) /\ \A i \in J : v[i] \in Nat
  BY PlacesAreFinite
<1>3. SizeAt(s, K) = Total(K, u) /\ SizeAt(t, J) = Total(J, v)
  BY DEF SizeAt
<1> HIDE DEF u, v
<1>4. Total(K, u) \in Nat /\ Total(J, v) \in Nat /\ Total(K, u) <= Total(J, v)
  BY <1>1, <1>2, TotalMoved
<1> QED
  BY <1>3, <1>4

LEMMA SizeOfBoth ==
  ASSUME NEW s, NEW K, NEW J, IsFiniteSet(K), IsFiniteSet(J), \A i \in K : i \notin J,
         NEW B, \A i : i \in B <=> i \in K \/ i \in J,
         \A i \in B : SizeOf(s[i]) \in Nat
  PROVE  /\ SizeAt(s, K) \in Nat /\ SizeAt(s, J) \in Nat
         /\ SizeAt(s, B) = SizeAt(s, K) + SizeAt(s, J)
<1> DEFINE u == [i \in K |-> SizeOf(s[i])]
           v == [i \in J |-> SizeOf(s[i])]
           w == [i \in B |-> SizeOf(s[i])]
<1>1. \A i \in B : w[i] \in Nat
  OBVIOUS
<1>2. (\A i \in K : u[i] = w[i]) /\ (\A i \in J : v[i] = w[i])
  OBVIOUS
<1>3. SizeAt(s, K) = Total(K, u) /\ SizeAt(s, J) = Total(J, v) /\ SizeAt(s, B) = Total(B, w)
  BY DEF SizeAt
<1> HIDE DEF u, v, w
<1>4. /\ Total(K, u) \in Nat /\ Total(J, v) \in Nat
      /\ Total(B, w) = Total(K, u) + Total(J, v)
  BY <1>1, <1>2, TotalOfBoth
<1> QED
  BY <1>3, <1>4

\* K and J have nothing in common, and together are B.
Parted(K, J, B) ==
  /\ IsFiniteSet(K) /\ IsFiniteSet(J) /\ \A i \in K : i \notin J
  /\ \A i : i \in B <=> i \in K \/ i \in J

LEMMA SizeParted ==
  \A s, K, J, B : Parted(K, J, B) /\ (\A i \in B : SizeOf(s[i]) \in Nat) =>
    /\ SizeAt(s, K) \in Nat /\ SizeAt(s, J) \in Nat
    /\ SizeAt(s, B) = SizeAt(s, K) + SizeAt(s, J)
BY SizeOfBoth DEF Parted

LEMMA SizeApart ==
  ASSUME NEW s \in Seq(MessageSet), NEW K \in SUBSET (1..Len(s)), NEW J \in SUBSET (1..Len(s)),
         K \cap J = {}
  PROVE  /\ SizeAt(s, K) \in Nat /\ SizeAt(s, J) \in Nat
         /\ SizeAt(s, K \cup J) = SizeAt(s, K) + SizeAt(s, J)
<1> DEFINE B == K \cup J
<1>1. Parted(K, J, B)
  BY PlacesAreFinite DEF Parted
<1>2. \A i \in B : SizeOf(s[i]) \in Nat
  BY PlacesAreFinite
<1> HIDE DEF B
<1>3. /\ SizeAt(s, K) \in Nat /\ SizeAt(s, J) \in Nat
      /\ SizeAt(s, B) = SizeAt(s, K) + SizeAt(s, J)
  BY <1>1, <1>2, SizeParted
<1> QED
  BY <1>3 DEF B

LEMMA SizeAtOne ==
  ASSUME NEW s \in Seq(MessageSet), NEW i \in 1..Len(s)
  PROVE  SizeAt(s, {i}) = SizeOf(s[i])
<1> DEFINE u == [j \in {i} |-> SizeOf(s[j])]
<1>1. u[i] = SizeOf(s[i]) /\ SizeOf(s[i]) \in Nat
  BY SizeOfMessage
<1>2. SizeAt(s, {i}) = Total({i}, u)
  BY DEF SizeAt
<1> HIDE DEF u
<1> QED
  BY <1>1, <1>2, TotalOfOne

\* The size of a list is a number, and at least that of a part.
LEMMA SizeOfPart ==
  ASSUME NEW s \in Seq(MessageSet), NEW K \in SUBSET (1..Len(s))
  PROVE  /\ Size(s) \in Nat /\ SizeAt(s, K) \in Nat /\ SizeAt(s, K) <= Size(s)
         /\ \A J \in SUBSET K : SizeAt(s, J) <= SizeAt(s, K)
<1>1. ASSUME NEW L \in SUBSET (1..Len(s)), NEW J \in SUBSET L
      PROVE  SizeAt(s, J) \in Nat /\ SizeAt(s, L) \in Nat /\ SizeAt(s, J) <= SizeAt(s, L)
  <2> DEFINE f == [i \in J |-> i]
  <2>1. f \in [J -> L] /\ (\A i, j \in J : f[i] = f[j] => i = j)
        /\ \A i \in J : f[i] = i
    OBVIOUS
  <2>2. J \in SUBSET (1..Len(s)) /\ \A i \in J : SizeOf(s[i]) \in Nat
    BY PlacesAreFinite
  <2>3. \A i \in J : SizeOf(s[i]) <= SizeOf(s[f[i]])
    BY <2>1, <2>2
  <2> HIDE DEF f
  <2> QED
    BY <2>1, <2>2, <2>3, SizeFits
<1> QED
  BY <1>1 DEF Size

\* Lists that agree on some places agree on what those take.
LEMMA SizeOfSame ==
  ASSUME NEW s, NEW t, NEW K, \A i \in K : s[i] = t[i]
  PROVE  SizeAt(s, K) = SizeAt(t, K)
<1>1. [i \in K |-> SizeOf(s[i])] = [i \in K |-> SizeOf(t[i])]
  OBVIOUS
<1> QED
  BY <1>1 DEF SizeAt

LEMMA OnceExtends1 ==
  ASSUME NEW s \in Seq(MessageSet), NEW t, NEW x \in MessageSet, Extends1(s, t, x),
         Once(s), x.texts \cap Verbatim(s) = {}
  PROVE  Once(t)
<1>1. Holds(s) /\ Holds(t) /\ t \in Seq(MessageSet)
  BY ListHolds DEF Extends1
<1>2. \A i \in 1..Len(t) : i \in 1..Len(s) \/ i = Len(s) + 1
  BY <1>1 DEF Holds, Extends1
<1>3. \A i \in 1..Len(s) : s[i].texts \cap x.texts = {}
  BY <1>1 DEF Holds
<1> QED
  BY <1>2, <1>3 DEF Once, Extends1

LEMMA SizeExtends1 ==
  ASSUME NEW s \in Seq(MessageSet), NEW t, NEW x \in MessageSet, Extends1(s, t, x)
  PROVE  /\ Size(s) \in Nat /\ Size(t) \in Nat /\ SizeOf(x) \in Nat
         /\ Size(t) = Size(s) + SizeOf(x)
<1>1. /\ t \in Seq(MessageSet) /\ Len(t) = Len(s) + 1 /\ Len(s) \in Nat
      /\ \A i \in 1..Len(s) : t[i] = s[i]
      /\ t[Len(s) + 1] = x
  BY DEF Extends1
<1>2. /\ 1..Len(t) = (1..Len(s)) \cup {Len(s) + 1} /\ (1..Len(s)) \cap {Len(s) + 1} = {}
      /\ Len(s) + 1 \in 1..Len(t) /\ 1..Len(s) \in SUBSET (1..Len(t))
      /\ {Len(s) + 1} \in SUBSET (1..Len(t))
  BY <1>1
<1>3. Size(t) = SizeAt(t, (1..Len(s)) \cup {Len(s) + 1})
  BY <1>2 DEF Size
<1>4. Size(t) = SizeAt(t, 1..Len(s)) + SizeAt(t, {Len(s) + 1})
  BY <1>1, <1>2, <1>3, SizeApart
<1>5. SizeAt(t, {Len(s) + 1}) = SizeOf(x)
  BY <1>1, <1>2, SizeAtOne
<1>6. SizeAt(t, 1..Len(s)) = Size(s)
  BY <1>1, SizeOfSame DEF Size
<1>7. Size(s) \in Nat /\ Size(t) \in Nat /\ SizeOf(x) \in Nat
  <2>1. 1..Len(s) \in SUBSET (1..Len(s)) /\ 1..Len(t) \in SUBSET (1..Len(t))
    OBVIOUS
  <2> QED
    BY <1>1, <2>1, SizeOfPart, SizeOfMessage
<1> QED
  BY <1>4, <1>5, <1>6, <1>7

\* Two messages go to the end of a list, and only the second shows anything.
Grows(s, t, x, y) ==
  /\ Size(s) \in Nat /\ Size(t) \in Nat /\ SizeOf(x) \in Nat /\ SizeOf(y) \in Nat
  /\ Size(t) = Size(s) + SizeOf(x) + SizeOf(y)
  /\ Once(s) /\ x.texts = {} /\ y.texts \cap Verbatim(s) = {} => Once(t)

LEMMA ListExtends2 ==
  ASSUME NEW s \in Seq(MessageSet), NEW t, NEW x \in MessageSet, NEW y \in MessageSet,
         Extends2(s, t, x, y)
  PROVE  Grows(s, t, x, y)
<1> DEFINE r == Append(s, x)
<1>1. Extends1(s, r, x) /\ r \in Seq(MessageSet)
  BY AppendExtends DEF Extends1
<1>2. Extends1(r, t, y)
  <2>1. Len(s) \in Nat
    OBVIOUS
  <2>2. Len(r) = Len(s) + 1 /\ r[Len(s) + 1] = x /\ \A i \in 1..Len(s) : r[i] = s[i]
    BY <1>1 DEF Extends1
  <2>3. Len(r) + 1 = Len(s) + 2
    BY <2>1, <2>2
  <2>4. \A i \in 1..Len(r) : i \in 1..Len(s) \/ i = Len(s) + 1
    BY <2>1, <2>2
  <2>5. \A i \in 1..Len(r) : t[i] = r[i]
    BY <2>2, <2>4 DEF Extends2
  <2> QED
    BY <2>3, <2>5 DEF Extends1, Extends2
<1> HIDE DEF r
<1>3. /\ Size(s) \in Nat /\ Size(r) \in Nat /\ Size(t) \in Nat
      /\ SizeOf(x) \in Nat /\ SizeOf(y) \in Nat
      /\ Size(r) = Size(s) + SizeOf(x) /\ Size(t) = Size(r) + SizeOf(y)
  BY <1>1, <1>2, SizeExtends1
<1>4. ASSUME Once(s), x.texts = {}, y.texts \cap Verbatim(s) = {}
      PROVE  Once(t)
  <2>1. Once(r)
    BY <1>1, <1>4, OnceExtends1
  <2>2. Verbatim(r) = Verbatim(s)
    <3>1. Verbatim(r) = Verbatim(s) \cup x.texts
      BY <1>1, Extends1Holds
    <3> QED
      BY <1>4, <3>1
  <2> QED
    BY <1>1, <1>2, <1>4, <2>1, <2>2, OnceExtends1
<1> QED
  BY <1>3, <1>4 DEF Grows

-----------------------------------------------------------------------------
(* What condensing a list leaves of it.                                    *)

Summary(w) == Message("condensed", 0, {}, VictimTexts, w)

\* t is what s is condensed to with a summary of size w, and f says where its
\* messages come from.
Condensed(s, t, f, w) ==
  /\ t \in Seq(MessageSet) /\ f \in [1..Len(t) -> 1..Len(s)]
  /\ \A k, l \in 1..Len(t) : k < l => f[k] < f[l]
  /\ \A k \in 1..Len(t) : ~Victim(s[f[k]]) => t[k] = s[f[k]]
  /\ \A k \in 1..Len(t) : Victim(s[f[k]]) =>
       t[k] = Summary(w) /\ VictimTexts # {} /\ \A j \in 1..(f[k] - 1) : ~Victim(s[j])
  /\ \A i \in 1..Len(s) : ~Victim(s[i]) => \E k \in 1..Len(t) : f[k] = i
  /\ VictimTexts # {} /\ (\E i \in 1..Len(s) : Victim(s[i])) =>
       \E k \in 1..Len(t) : Victim(s[f[k]])

LEMMA SummaryIsMessage ==
  ASSUME victims \subseteq MessageSet, NEW w \in Nat
  PROVE  /\ VictimTexts \subseteq Texts /\ Summary(w) \in MessageSet
         /\ Summary(w).kind = "condensed" /\ Summary(w).id = 0 /\ Summary(w).length = w
         /\ Summary(w).texts = {} /\ Summary(w).summed = VictimTexts
         /\ SizeOf(Summary(w)) = w
<1>1. \A m \in MessageSet : m.texts \subseteq Texts
  BY DEF MessageSet
<1>2. VictimTexts \subseteq Texts
  BY <1>1 DEF VictimTexts
<1>3. /\ Summary(w) \in MessageSet
      /\ Summary(w).kind = "condensed" /\ Summary(w).id = 0 /\ Summary(w).length = w
      /\ Summary(w).texts = {} /\ Summary(w).summed = VictimTexts
  BY <1>2 DEF Summary, Message, MessageSet
<1> QED
  BY <1>2, <1>3, FS_EmptySet DEF SizeOf

LEMMA CondenseShape ==
  ASSUME NEW s \in Seq(MessageSet), victims \subseteq MessageSet, NEW w \in Nat
  PROVE  \E f : Condensed(s, Condense(s, w), f, w)
<1> DEFINE N == Len(s)
           u == [i \in 1..N |-> IF Victim(s[i]) THEN Summary(w) ELSE s[i]]
           K == {i \in 1..N : Victim(s[i]) =>
                    ((\A j \in 1..(i - 1) : ~Victim(s[j])) /\ VictimTexts # {})}
           t == Condense(s, w)
           f == [k \in 1..Cardinality(K) |-> Nth(K, k)]
<1>1. N \in Nat /\ K \in SUBSET (1..N)
  OBVIOUS
<1>2. t = Selected(u, K)
  BY DEF Condense, Summary
<1>3. u \in Seq(MessageSet) /\ Len(u) = N
  <2>1. \A i \in 1..N : s[i] \in MessageSet
    OBVIOUS
  <2>2. Summary(w) \in MessageSet
    BY SummaryIsMessage
  <2>3. u \in [1..N -> MessageSet]
    BY <2>1, <2>2
  <2> QED
    BY <1>1, <2>3
<1>4. \A i \in 1..N : u[i] = IF Victim(s[i]) THEN Summary(w) ELSE s[i]
  OBVIOUS
<1>5. \A i \in 1..N : i \in K <=>
        (Victim(s[i]) => ((\A j \in 1..(i - 1) : ~Victim(s[j])) /\ VictimTexts # {}))
  OBVIOUS
<1>6. \A k \in 1..Cardinality(K) : f[k] = Nth(K, k)
  OBVIOUS
<1>7. f \in [1..Cardinality(K) -> {f[k] : k \in 1..Cardinality(K)}]
  OBVIOUS
<1> HIDE DEF N, u, K, t, f
<1>8. ListsAll(K)
  BY <1>1, NthProperties
<1>9. /\ t \in Seq(MessageSet) /\ Len(t) = Cardinality(K)
      /\ \A k \in 1..Cardinality(K) : t[k] = u[Nth(K, k)]
  BY <1>1, <1>2, <1>3, SelectedProperties
<1>10. \A k \in 1..Len(t) : f[k] \in K /\ f[k] \in 1..N /\ t[k] = u[f[k]]
  BY <1>1, <1>6, <1>8, <1>9 DEF ListsAll
<1>11. f \in [1..Len(t) -> 1..N]
  BY <1>7, <1>9, <1>10
<1>12. \A k, l \in 1..Len(t) : k < l => f[k] < f[l]
  BY <1>6, <1>8, <1>9 DEF ListsAll
<1>13. \A i \in K : \E k \in 1..Len(t) : f[k] = i
  BY <1>6, <1>8, <1>9 DEF ListsAll
<1>14. \A k \in 1..Len(t) : ~Victim(s[f[k]]) => t[k] = s[f[k]]
  BY <1>4, <1>10
<1>15. \A k \in 1..Len(t) : Victim(s[f[k]]) =>
         t[k] = Summary(w) /\ VictimTexts # {} /\ \A j \in 1..(f[k] - 1) : ~Victim(s[j])
  BY <1>4, <1>5, <1>10
<1>16. \A i \in 1..N : ~Victim(s[i]) => \E k \in 1..Len(t) : f[k] = i
  BY <1>5, <1>13
<1>17. ASSUME VictimTexts # {}, NEW i \in 1..N, Victim(s[i])
       PROVE  \E k \in 1..Len(t) : Victim(s[f[k]])
  <2> DEFINE G == {j \in 1..N : Victim(s[j])}
  <2>1. G \in SUBSET Nat /\ G # {}
    BY <1>1, <1>17
  <2>2. PICK n \in G : \A m \in G : n <= m
    BY <2>1, LeastOfSet
  <2>3. n \in 1..N /\ Victim(s[n])
    BY <2>2
  <2>4. \A j \in 1..(n - 1) : ~Victim(s[j])
    <3>1. \A j \in 1..(n - 1) : j \in 1..N /\ ~(n <= j)
      BY <1>1, <2>3
    <3> QED
      BY <2>2, <3>1
  <2>5. n \in K
    BY <1>5, <1>17, <2>3, <2>4
  <2> QED
    BY <1>13, <2>3, <2>5
<1> QED
  BY <1>9, <1>11, <1>12, <1>14, <1>15, <1>16, <1>17 DEF Condensed, N, t

LEMMA CondensedAnswered ==
  ASSUME NEW s \in Seq(MessageSet), victims \subseteq MessageSet, NEW t, NEW f, NEW w \in Nat,
         Condensed(s, t, f, w), Answered(s)
  PROVE  Answered(t)
<1>1. Len(s) \in Nat /\ Len(t) \in Nat /\ Summary(w).kind = "condensed"
  BY SummaryIsMessage DEF Condensed
<1>2. SUFFICES ASSUME NEW k \in 1..Len(t)
               PROVE  /\ t[k].kind = "call" =>
                           k < Len(t) /\ t[k + 1].kind = "result" /\ t[k + 1].id = t[k].id
                      /\ t[k].kind = "result" =>
                           k > 1 /\ t[k - 1].kind = "call" /\ t[k - 1].id = t[k].id
  BY DEF Answered
<1>3. f[k] \in 1..Len(s)
  BY DEF Condensed
<1>4. (t[k].kind = "call" \/ t[k].kind = "result") => ~Victim(s[f[k]]) /\ t[k] = s[f[k]]
  BY <1>1 DEF Condensed
<1>5. ASSUME t[k].kind = "call"
      PROVE  k < Len(t) /\ t[k + 1].kind = "result" /\ t[k + 1].id = t[k].id
  <2>1. f[k] < Len(s) /\ s[f[k] + 1].kind = "result" /\ s[f[k] + 1].id = s[f[k]].id
    BY <1>3, <1>4, <1>5 DEF Answered
  <2>2. ~Victim(s[f[k] + 1]) /\ f[k] + 1 \in 1..Len(s)
    BY <1>1, <1>3, <1>4, <1>5, <2>1 DEF Victim
  <2>3. PICK l \in 1..Len(t) : f[l] = f[k] + 1
    BY <2>2 DEF Condensed
  <2>4. k < l
    BY <1>1, <1>3, <2>3 DEF Condensed
  <2>5. l = k + 1
    <3>1. SUFFICES ASSUME k + 1 < l PROVE FALSE
      BY <1>1, <2>4
    <3>2. k + 1 \in 1..Len(t)
      BY <1>1, <3>1
    <3>3. f[k] < f[k + 1] /\ f[k + 1] < f[l] /\ f[k + 1] \in 1..Len(s)
      <4>1. k < k + 1
        BY <1>1
      <4>2. f \in [1..Len(t) -> 1..Len(s)] /\ \A i, j \in 1..Len(t) : i < j => f[i] < f[j]
        BY DEF Condensed
      <4> QED
        BY <3>1, <3>2, <4>1, <4>2
    <3> QED
      BY <1>3, <2>3, <3>3
  <2>6. t[l] = s[f[l]]
    BY <2>2, <2>3 DEF Condensed
  <2> QED
    BY <1>1, <1>4, <1>5, <2>1, <2>3, <2>5, <2>6
<1>6. ASSUME t[k].kind = "result"
      PROVE  k > 1 /\ t[k - 1].kind = "call" /\ t[k - 1].id = t[k].id
  <2>1. f[k] > 1 /\ s[f[k] - 1].kind = "call" /\ s[f[k] - 1].id = s[f[k]].id
    BY <1>3, <1>4, <1>6 DEF Answered
  <2>2. ~Victim(s[f[k] - 1]) /\ f[k] - 1 \in 1..Len(s)
    BY <1>1, <1>3, <1>4, <1>6, <2>1 DEF Victim
  <2>3. PICK l \in 1..Len(t) : f[l] = f[k] - 1
    BY <2>2 DEF Condensed
  <2>4. l < k
    BY <1>1, <1>3, <2>3 DEF Condensed
  <2>5. l = k - 1
    <3>1. SUFFICES ASSUME l + 1 < k PROVE FALSE
      BY <1>1, <2>4
    <3>2. l + 1 \in 1..Len(t)
      BY <1>1, <3>1
    <3>3. f[l] < f[l + 1] /\ f[l + 1] < f[k] /\ f[l + 1] \in 1..Len(s)
      <4>1. l < l + 1
        BY <1>1
      <4>2. f \in [1..Len(t) -> 1..Len(s)] /\ \A i, j \in 1..Len(t) : i < j => f[i] < f[j]
        BY DEF Condensed
      <4> QED
        BY <3>1, <3>2, <4>1, <4>2
    <3> QED
      BY <1>3, <2>3, <3>3
  <2>6. t[l] = s[f[l]]
    BY <2>2, <2>3 DEF Condensed
  <2> QED
    BY <1>1, <1>4, <1>6, <2>1, <2>3, <2>4, <2>5, <2>6
<1> QED
  BY <1>5, <1>6

LEMMA CondensedOnce ==
  ASSUME NEW s \in Seq(MessageSet), victims \subseteq MessageSet, NEW t, NEW f, NEW w \in Nat,
         Condensed(s, t, f, w), Once(s)
  PROVE  Once(t)
<1>1. SUFFICES ASSUME NEW k \in 1..Len(t), NEW l \in 1..Len(t), k # l
               PROVE  t[k].texts \cap t[l].texts = {}
  BY DEF Once
<1>2. f[k] \in 1..Len(s) /\ f[l] \in 1..Len(s) /\ Len(t) \in Nat
  <2>1. t \in Seq(MessageSet) /\ f \in [1..Len(t) -> 1..Len(s)]
    BY DEF Condensed
  <2> QED
    BY <2>1
<1>3. f[k] # f[l]
  BY <1>1, <1>2 DEF Condensed
<1>4. \A j \in 1..Len(t) : t[j] = s[f[j]] \/ t[j].texts = {}
  BY SummaryIsMessage DEF Condensed
<1> QED
  BY <1>2, <1>3, <1>4 DEF Once

\* What stands before the victims stays where it is.
LEMMA CondensedPrefix ==
  ASSUME NEW s \in Seq(MessageSet), NEW t, NEW f, NEW w \in Nat,
         Condensed(s, t, f, w),
         NEW n \in 0..Len(s), \A i \in 1..n : ~Victim(s[i])
  PROVE  /\ n <= Len(t) /\ \A k \in 1..n : f[k] = k /\ t[k] = s[k]
         /\ \A k \in (n + 1)..Len(t) : f[k] \in (n + 1)..Len(s)
<1>1. Len(s) \in Nat /\ Len(t) \in Nat /\ n \in Nat
  BY DEF Condensed
<1>2. \A k \in 1..Len(t) : f[k] \in 1..Len(s)
  BY DEF Condensed
<1>3. \A k, l \in 1..Len(t) : k < l => f[k] < f[l]
  BY DEF Condensed
<1>4. \A i \in 1..n : \E k \in 1..Len(t) : f[k] = i
  <2>1. \A i \in 1..n : i \in 1..Len(s) /\ ~Victim(s[i])
    BY <1>1
  <2>2. \A i \in 1..Len(s) : ~Victim(s[i]) => \E k \in 1..Len(t) : f[k] = i
    BY DEF Condensed
  <2> QED
    BY <2>1, <2>2
<1>5. \A k \in 1..n : k <= Len(t) /\ f[k] = k
  <2> DEFINE G == {k \in 1..n : ~(k <= Len(t) /\ f[k] = k)}
  <2>1. SUFFICES ASSUME G # {} PROVE FALSE
    OBVIOUS
  <2>2. G \in SUBSET Nat
    BY <1>1
  <2>3. PICK k \in G : \A m \in G : k <= m
    BY <2>1, <2>2, LeastOfSet
  <2>4. k \in 1..n /\ \A j \in 1..(k - 1) : j <= Len(t) /\ f[j] = j
    <3>1. \A j \in 1..(k - 1) : j \in 1..n /\ ~(k <= j)
      BY <1>1, <2>3
    <3> QED
      BY <2>3, <3>1
  <2>5. PICK l \in 1..Len(t) : f[l] = k
    BY <1>4, <2>4
  <2>6. l >= k
    BY <1>1, <2>4, <2>5
  <2>7. k \in 1..Len(t)
    BY <1>1, <2>4, <2>5, <2>6
  <2>8. f[k] >= k
    <3>1. CASE k = 1
      BY <1>2, <2>7, <3>1
    <3>2. CASE k > 1
      <4>1. k - 1 \in 1..(k - 1) /\ k - 1 \in 1..Len(t) /\ k - 1 < k
        BY <1>1, <2>7, <3>2
      <4>2. f[k - 1] = k - 1 /\ f[k - 1] < f[k]
        BY <1>3, <2>4, <2>7, <4>1
      <4> QED
        BY <1>1, <1>2, <2>4, <2>7, <4>2
    <3> QED
      BY <2>4, <3>1, <3>2
  <2>9. k = l
    <3>1. ~(k < l)
      BY <1>1, <1>2, <1>3, <2>4, <2>5, <2>7, <2>8
    <3> QED
      BY <1>1, <2>4, <2>5, <2>6, <3>1
  <2> QED
    BY <2>3, <2>5, <2>7, <2>9
<1>6. n <= Len(t)
  <2>1. CASE n = 0
    BY <1>1, <2>1
  <2>2. CASE n > 0
    BY <1>1, <1>5, <2>2
  <2> QED
    BY <1>1, <2>1, <2>2
<1>7. \A k \in 1..n : f[k] = k /\ t[k] = s[k]
  <2>1. \A k \in 1..n : k \in 1..Len(t) /\ f[k] = k /\ ~Victim(s[f[k]])
    BY <1>1, <1>5, <1>6
  <2>2. \A k \in 1..Len(t) : ~Victim(s[f[k]]) => t[k] = s[f[k]]
    BY DEF Condensed
  <2> QED
    BY <2>1, <2>2
<1>8. ASSUME NEW k \in (n + 1)..Len(t)
      PROVE  f[k] \in (n + 1)..Len(s)
  <2>1. k \in 1..Len(t) /\ k \in Nat
    BY <1>1
  <2>2. CASE n = 0
    BY <1>1, <1>2, <2>1, <2>2
  <2>3. CASE n > 0
    <3>1. n \in 1..n /\ n \in 1..Len(t) /\ n < k
      BY <1>1, <1>6, <2>3
    <3>2. f[n] = n /\ f[n] < f[k]
      BY <1>3, <1>5, <2>1, <3>1
    <3> QED
      BY <1>1, <1>2, <2>1, <3>2
  <2> QED
    BY <1>1, <2>2, <2>3
<1> QED
  BY <1>6, <1>7, <1>8

LEMMA CondensedHolds ==
  ASSUME NEW s \in Seq(MessageSet), victims \subseteq MessageSet, NEW t, NEW f, NEW w \in Nat,
         Condensed(s, t, f, w)
  PROVE  /\ \A x : x \in Verbatim(t) <=>
              \E i \in 1..Len(s) : ~Victim(s[i]) /\ x \in s[i].texts
         /\ \A x : x \in Summed(t) <=>
              \/ \E i \in 1..Len(s) : ~Victim(s[i]) /\ x \in s[i].summed
              \/ x \in VictimTexts /\ \E i \in 1..Len(s) : Victim(s[i])
<1>1. Holds(t)
  BY ListHolds DEF Condensed
<1>2. Summary(w).texts = {} /\ Summary(w).summed = VictimTexts
  BY SummaryIsMessage
<1>3. \A k \in 1..Len(t) : f[k] \in 1..Len(s)
  BY DEF Condensed
<1>4. \A k \in 1..Len(t) :
        (~Victim(s[f[k]]) /\ t[k] = s[f[k]]) \/ (Victim(s[f[k]]) /\ t[k] = Summary(w))
  BY DEF Condensed
<1>5. \A i \in 1..Len(s) : ~Victim(s[i]) => \E k \in 1..Len(t) : f[k] = i
  BY DEF Condensed
<1>6. VictimTexts # {} /\ (\E i \in 1..Len(s) : Victim(s[i])) =>
        \E k \in 1..Len(t) : Victim(s[f[k]])
  BY DEF Condensed
<1>7. ASSUME NEW x
      PROVE  x \in Verbatim(t) <=> \E i \in 1..Len(s) : ~Victim(s[i]) /\ x \in s[i].texts
  <2>1. x \in Verbatim(t) <=> \E k \in 1..Len(t) : x \in t[k].texts
    BY <1>1 DEF Holds
  <2>2. ASSUME NEW k \in 1..Len(t), x \in t[k].texts
        PROVE  \E i \in 1..Len(s) : ~Victim(s[i]) /\ x \in s[i].texts
    BY <2>2, <1>2, <1>3, <1>4
  <2>3. ASSUME NEW i \in 1..Len(s), ~Victim(s[i]), x \in s[i].texts
        PROVE  \E k \in 1..Len(t) : x \in t[k].texts
    <3>1. PICK k \in 1..Len(t) : f[k] = i
      BY <2>3, <1>5
    <3>2. t[k] = s[i]
      BY <2>3, <3>1, <1>4
    <3> QED
      BY <2>3, <3>2
  <2> QED
    BY <2>1, <2>2, <2>3
<1>8. ASSUME NEW x
      PROVE  x \in Summed(t) <=>
              \/ \E i \in 1..Len(s) : ~Victim(s[i]) /\ x \in s[i].summed
              \/ x \in VictimTexts /\ \E i \in 1..Len(s) : Victim(s[i])
  <2>1. x \in Summed(t) <=> \E k \in 1..Len(t) : x \in t[k].summed
    BY <1>1 DEF Holds
  <2>2. x \in VictimTexts => VictimTexts # {}
    OBVIOUS
  <2> QED
    BY <2>1, <2>2, <1>2, <1>3, <1>4, <1>5, <1>6
<1> QED
  BY <1>7, <1>8

\* The victims are in the list, and nothing else in it shows what they show.
Separate(s) ==
  /\ VictimTexts \subseteq Verbatim(s)
  /\ \A i \in 1..Len(s) : Victim(s[i]) => s[i].texts \subseteq VictimTexts /\ s[i].summed = {}
  /\ \A i \in 1..Len(s) : ~Victim(s[i]) => s[i].texts \cap VictimTexts = {}

VictimsAt(s) == {i \in 1..Len(s) : Victim(s[i])}

\* Condensing takes away the victims, and brings at most a summary.
LEMMA CondensedSize ==
  ASSUME NEW s \in Seq(MessageSet), victims \subseteq MessageSet, NEW t, NEW f, NEW w \in Nat,
         Condensed(s, t, f, w)
  PROVE  /\ Size(t) \in Nat /\ Size(s) \in Nat /\ SizeAt(s, VictimsAt(s)) \in Nat
         /\ Size(t) + SizeAt(s, VictimsAt(s)) <= Size(s) + w
<1> DEFINE V == VictimsAt(s)
           N == {i \in 1..Len(s) : ~Victim(s[i])}
           A == {k \in 1..Len(t) : ~Victim(s[f[k]])}
           B == {k \in 1..Len(t) : Victim(s[f[k]])}
           g == [k \in A |-> f[k]]
<1>1. /\ t \in Seq(MessageSet) /\ Len(t) \in Nat /\ Len(s) \in Nat
      /\ \A k \in 1..Len(t) : f[k] \in 1..Len(s)
      /\ \A k, l \in 1..Len(t) : k < l => f[k] < f[l]
      /\ \A k \in 1..Len(t) : ~Victim(s[f[k]]) => t[k] = s[f[k]]
      /\ \A k \in 1..Len(t) : Victim(s[f[k]]) => t[k] = Summary(w)
      /\ \A k \in 1..Len(t) : Victim(s[f[k]]) => \A j \in 1..(f[k] - 1) : ~Victim(s[j])
  <2>1. t \in Seq(MessageSet) /\ f \in [1..Len(t) -> 1..Len(s)]
    BY DEF Condensed
  <2>2. Len(t) \in Nat /\ Len(s) \in Nat /\ \A k \in 1..Len(t) : f[k] \in 1..Len(s)
    BY <2>1
  <2> QED
    BY <2>1, <2>2 DEF Condensed
<1>2. /\ V \in SUBSET (1..Len(s)) /\ N \in SUBSET (1..Len(s)) /\ V \cap N = {} /\ V \cup N = 1..Len(s)
      /\ A \in SUBSET (1..Len(t)) /\ B \in SUBSET (1..Len(t)) /\ A \cap B = {} /\ A \cup B = 1..Len(t)
  BY DEF VictimsAt
<1>3. /\ Size(s) = SizeAt(s, V) + SizeAt(s, N) /\ SizeAt(s, V) \in Nat /\ SizeAt(s, N) \in Nat
      /\ Size(t) = SizeAt(t, A) + SizeAt(t, B) /\ SizeAt(t, A) \in Nat /\ SizeAt(t, B) \in Nat
  <2> HIDE DEF V, N, A, B
  <2>1. /\ SizeAt(s, V \cup N) = SizeAt(s, V) + SizeAt(s, N)
        /\ SizeAt(s, V) \in Nat /\ SizeAt(s, N) \in Nat
    BY <1>2, SizeApart
  <2>2. /\ SizeAt(t, A \cup B) = SizeAt(t, A) + SizeAt(t, B)
        /\ SizeAt(t, A) \in Nat /\ SizeAt(t, B) \in Nat
    BY <1>1, <1>2, SizeApart
  <2> QED
    BY <1>2, <2>1, <2>2 DEF Size
<1>4. \A k, l \in 1..Len(t) : f[k] = f[l] => k = l
  <2>1. SUFFICES ASSUME NEW k \in 1..Len(t), NEW l \in 1..Len(t), f[k] = f[l] PROVE k = l
    OBVIOUS
  <2>2. ~(k < l) /\ ~(l < k)
    BY <1>1, <2>1
  <2> QED
    BY <1>1, <2>2
<1>5. SizeAt(t, A) <= SizeAt(s, N)
  <2>1. /\ g \in [A -> N] /\ \A k, l \in A : g[k] = g[l] => k = l
        /\ \A k \in A : t[k] = s[g[k]] /\ t[k] \in MessageSet
    BY <1>1, <1>4
  <2>2. \A k \in A : SizeOf(t[k]) <= SizeOf(s[g[k]])
    <3>1. \A k \in A : SizeOf(t[k]) \in Nat
      BY <2>1, SizeOfMessage
    <3> QED
      BY <2>1, <3>1
  <2> HIDE DEF g, A, N
  <2> QED
    BY <1>1, <1>2, <2>1, <2>2, SizeFits
<1>6. SizeAt(t, B) <= w
  <2>1. CASE B = {}
    <3>1. /\ A = 1..Len(t) /\ SizeAt(t, A) = Size(t)
      BY <1>2, <2>1 DEF Size
    <3> QED
      BY <1>3, <3>1
  <2>2. CASE B # {}
    <3>1. PICK n \in B : TRUE
      BY <2>2
    <3>2. \A k \in B : k = n
      <4>1. SUFFICES ASSUME NEW k \in B PROVE k = n
        OBVIOUS
      <4>2. f[k] \notin 1..(f[n] - 1) /\ f[n] \notin 1..(f[k] - 1)
        BY <1>1
      <4>3. f[k] = f[n]
        BY <1>1, <4>2
      <4> QED
        BY <1>4, <4>3
    <3>3. B = {n} /\ n \in 1..Len(t) /\ t[n] = Summary(w)
      BY <1>1, <3>2
    <3> HIDE DEF B
    <3>4. SizeAt(t, B) = SizeOf(Summary(w))
      BY <1>1, <3>3, SizeAtOne
    <3> QED
      BY <3>4, SummaryIsMessage
  <2> QED
    BY <2>1, <2>2
<1> HIDE DEF V, N, A, B, g
<1>7. Size(t) + SizeAt(s, V) <= Size(s) + w
  BY <1>3, <1>5, <1>6
<1> QED
  BY <1>3, <1>7 DEF V

-----------------------------------------------------------------------------
(* The invariant: initially, and in the steps that leave the lists alone.  *)

LEMMA Budgets ==
  /\ MaxRounds \in Nat \ {0} /\ MaxCalls \in Nat \ {0} /\ MaxRepeats \in Nat \ {0}
  /\ Longest \in Nat \ {0} /\ Wording \in Nat /\ Error \in Nat /\ SoftAt \in Nat
  /\ CompactAt \in Nat /\ HardAt \in Nat /\ Window \in Nat /\ MaxTurns \in Nat
  /\ CompactAt <= HardAt /\ HardAt <= Window
BY BudgetAssumption

LEMMA SlackIs ==
  /\ Larger(Error, Wording) \in Nat /\ Larger(Error, Longest) \in Nat /\ Slack \in Nat
  /\ Slack = Larger(Error, Wording) + Larger(Error, Longest)
  /\ Wording <= Larger(Error, Wording) /\ Longest <= Larger(Error, Longest)
  /\ Error <= Larger(Error, Wording) /\ Error <= Larger(Error, Longest)
BY Budgets DEF Slack, Larger

LEMMA Wordings ==
  ASSUME NEW n \in Nat
  PROVE  n * Wording \in Nat /\ 0 * Wording = 0 /\ (n + 1) * Wording = n * Wording + Wording
BY Budgets

LEMMA CountedIsPart ==
  ASSUME NEW s \in Seq(MessageSet)
  PROVE  Size(s) \in Nat /\ Counted(s) \in Nat /\ Counted(s) <= Size(s)
<1>1. (1..Len(s)) \ Places(s, "nudge") \in SUBSET (1..Len(s))
  OBVIOUS
<1> QED
  BY <1>1, SizeOfPart DEF Counted

LEMMA EmptyList ==
  /\ <<>> \in Seq(MessageSet) /\ Len(<<>>) = 0
  /\ Verbatim(<<>>) = {} /\ Summed(<<>>) = {}
  /\ Once(<<>>) /\ Answered(<<>>) /\ Blocks(<<>>) /\ \A n : Tools(<<>>, n)
  /\ Size(<<>>) = 0
<1>1. <<>> \in Seq(MessageSet) /\ Len(<<>>) = 0 /\ \A i \in 1..Len(<<>>) : FALSE
  OBVIOUS
<1>2. Verbatim(<<>>) = {} /\ Summed(<<>>) = {}
  BY <1>1 DEF Verbatim, Summed
<1>3. Once(<<>>) /\ Answered(<<>>) /\ Blocks(<<>>) /\ \A n : Tools(<<>>, n)
  BY <1>1 DEF Once, Answered, Blocks, Tools
<1>4. Size(<<>>) = 0
  <2> DEFINE u == [i \in 1..Len(<<>>) |-> SizeOf(<<>>[i])]
  <2>1. Size(<<>>) = Cardinality(UNION {{m} \X (1..u[m]) : m \in 1..Len(<<>>)})
    BY DEF Size, SizeAt, Total
  <2>2. UNION {{m} \X (1..u[m]) : m \in 1..Len(<<>>)} = {}
    BY <1>1
  <2> QED
    BY <2>1, <2>2, FS_EmptySet
<1> QED
  BY <1>1, <1>2, <1>3, <1>4

LEMMA InitInv == Init => IInv
<1> SUFFICES ASSUME Init PROVE IInv
  OBVIOUS
<1> USE DEF Init
<1>1. TypeOK
  <2>1. todo \in Seq(Searches) /\ {messages, toolMessages, research} \subseteq Seq(MessageSet)
    OBVIOUS
  <2>2. turn \in 0..(MaxTurns + 1) /\ round \in 0..MaxRounds
    BY Budgets
  <2>3. /\ at \in {"idle", "thinking", "calling", "summarising", "answering", "writing", "posted"}
        /\ {repeats, fresh, used, projected, talk, lastContext} \subseteq Nat
    OBVIOUS
  <2>4. /\ shown \subseteq Texts /\ seen \subseteq Texts /\ ran \subseteq Searches
        /\ victims \subseteq MessageSet /\ found \subseteq Texts /\ learned \subseteq Texts
    OBVIOUS
  <2>5. unrecorded \in BOOLEAN
    OBVIOUS
  <2> QED
    BY <2>1, <2>2, <2>3, <2>4, <2>5 DEF TypeOK
<1>2. RunInv
  BY FS_EmptySet DEF RunInv, Running
<1>3. ToolInv
  <2>1. Tools(toolMessages, Cardinality(ran) + repeats)
    BY EmptyList
  <2> QED
    BY <2>1, EmptyList DEF ToolInv
<1>4. MirrorInv /\ FoundInv /\ ShownInv /\ WithinWindow
  BY DEF MirrorInv, FoundInv, ShownInv, WithinWindow, Open, InLoop, Running
<1>5. SeenInv /\ OnceInv
  BY EmptyList DEF SeenInv, OnceInv, Kept
<1>6. SizeInv
  <2>1. talk + Size(research) <= lastContext + Larger(Error, Longest)
    BY EmptyList, SlackIs
  <2> QED
    BY <2>1 DEF SizeInv
<1> QED
  BY <1>1, <1>2, <1>3, <1>4, <1>5, <1>6 DEF IInv

LEMMA Typed ==
  ASSUME TypeOK
  PROVE  /\ messages \in Seq(MessageSet) /\ toolMessages \in Seq(MessageSet)
         /\ research \in Seq(MessageSet) /\ victims \subseteq MessageSet
         /\ repeats \in Nat /\ fresh \in Nat /\ used \in Nat /\ projected \in Nat
         /\ talk \in Nat /\ lastContext \in Nat
BY DEF TypeOK

\* A step of the loop that changes none of its lists.
LEMMA ListsStay ==
  ASSUME IInv, InLoop, at' \in {"thinking", "calling", "summarising", "answering"},
         UNCHANGED <<turn, messages, toolMessages, shown, ran, repeats, found, session>>,
         round' \in 1..MaxRounds, todo' \in Seq(Searches),
         used' \in Nat, fresh' \in Nat, projected' \in Nat,
         victims' \subseteq MessageSet, at' # "summarising" => victims' = {},
         \A v \in victims' : v.kind = "result" /\ \E j \in 1..Len(toolMessages) : v = toolMessages[j],
         at' \in {"calling", "summarising"} => Context + Len(todo') * Wording = used' + fresh',
         at' = "summarising" => todo' = <<>> /\ projected' \in Estimates(used' + fresh'),
         at' = "thinking" => talk + Counted(messages) < HardAt + Slack
  PROVE  IInv'
<1> USE DEF IInv, session
<1>1. TypeOK'
  BY Budgets DEF TypeOK
<1>2. RunInv'
  BY Budgets DEF RunInv, Running, InLoop
<1>3. ToolInv'
  BY DEF ToolInv
<1>4. MirrorInv'
  BY DEF MirrorInv, Open
<1>5. SeenInv' /\ OnceInv'
  BY DEF SeenInv, OnceInv
<1>6. FoundInv'
  BY DEF FoundInv, Running, InLoop
<1>7. ShownInv'
  BY DEF ShownInv
<1>8. SizeInv'
  <2>1. at' # "posted" /\ at' # "idle"
    OBVIOUS
  <2> QED
    BY <2>1 DEF SizeInv, Context, Projected
<1>9. WithinWindow'
  BY DEF WithinWindow
<1> QED
  BY <1>1, <1>2, <1>3, <1>4, <1>5, <1>6, <1>7, <1>8, <1>9

LEMMA ReplyCallsInv ==
  ASSUME IInv, ReplyCalls
  PROVE  IInv'
<1>1. /\ at = "thinking" /\ at' = "calling" /\ used' = Context + Len(todo') * Wording /\ fresh' = 0
      /\ UNCHANGED <<turn, round, messages, toolMessages, shown, ran, repeats, victims, projected,
                     found, session>>
  BY DEF ReplyCalls, Replies
<1>2. todo' \in Seq(Searches) /\ Len(todo') \in Nat
  <2>1. PICK n \in 1..MaxCalls : todo' \in [1..n -> Searches]
    BY DEF ReplyCalls
  <2>2. n \in Nat
    BY Budgets
  <2> QED
    BY <2>1, <2>2
<1>3. used' \in Nat /\ Context + Len(todo') * Wording = used' + fresh'
  <2>1. Context \in Nat
    BY Typed, CountedIsPart DEF IInv, Context
  <2>2. Len(todo') * Wording \in Nat
    BY <1>2, Wordings
  <2> QED
    BY <1>1, <2>1, <2>2
<1>4. victims' = {} /\ round' \in 1..MaxRounds /\ InLoop
  BY <1>1, Budgets DEF IInv, RunInv, TypeOK, Running, InLoop
<1>5. projected' \in Nat
  BY <1>1, Typed DEF IInv
<1> QED
  BY <1>1, <1>2, <1>3, <1>4, <1>5, ListsStay

\* A round that goes on was projected to do so below the hard limit.
LEMMA GoesOn ==
  ASSUME IInv, at \in {"calling", "summarising"}, NEW p \in Nat, NEW r \in Nat, GoOn(p, r)
  PROVE  /\ at' \in {"thinking", "answering"} /\ round' \in 1..MaxRounds
         /\ at' = "thinking" => p < HardAt + r
<1>1. round \in 1..MaxRounds
  BY Budgets DEF IInv, TypeOK, RunInv, Running
<1> QED
  BY <1>1, Budgets DEF GoOn, NextRound

\* What the loop knows of the next request once the calls of a round are made.
LEMMA Accounts ==
  ASSUME IInv, at \in {"calling", "summarising"}, todo = <<>>
  PROVE  /\ used \in Nat /\ fresh \in Nat /\ talk \in Nat /\ Size(messages) \in Nat
         /\ Context = used + fresh /\ Context + Len(todo) * Wording = used + fresh
         /\ Counted(messages) \in Nat /\ Counted(messages) <= Size(messages)
         /\ \A p \in Projected : p \in Nat /\ talk + Size(messages) <= p + Error
<1>1. /\ used \in Nat /\ fresh \in Nat /\ talk \in Nat /\ Size(messages) \in Nat
      /\ Counted(messages) \in Nat /\ Counted(messages) <= Size(messages)
  BY Typed, CountedIsPart DEF IInv
<1>2. Len(todo) * Wording = 0
  BY Wordings
<1>3. Context + Len(todo) * Wording = used + fresh
  BY DEF IInv, SizeInv
<1>4. Context = talk + Size(messages)
  BY DEF Context
<1>5. Context = used + fresh
  BY <1>1, <1>2, <1>3, <1>4
<1>6. \A p \in Projected : p \in Nat /\ used + fresh <= p + Error
  BY <1>1, Budgets DEF Projected, Estimates
<1> QED
  BY <1>1, <1>3, <1>4, <1>5, <1>6

LEMMA SummaryFailsInv ==
  ASSUME IInv, SummaryFails
  PROVE  IInv'
<1>1. /\ at = "summarising" /\ GoOn(projected, 0) /\ victims' = {} /\ projected' = 0
      /\ UNCHANGED <<turn, todo, used, messages, toolMessages, shown, ran, repeats, fresh, found, session>>
  BY DEF SummaryFails, AsksForSummary
<1>2. todo = <<>> /\ projected \in Projected
  BY <1>1 DEF IInv, SizeInv
<1>3. /\ used \in Nat /\ fresh \in Nat /\ talk \in Nat /\ Counted(messages) \in Nat
      /\ projected \in Nat /\ talk + Counted(messages) <= projected + Error
  BY <1>1, <1>2, Accounts, Budgets
<1>4. /\ at' \in {"thinking", "answering"} /\ round' \in 1..MaxRounds
      /\ at' = "thinking" => projected < HardAt + 0
  BY <1>1, <1>3, GoesOn
<1>5. at' = "thinking" => talk + Counted(messages) < HardAt + Slack
  BY <1>3, <1>4, SlackIs, Budgets
<1>6. todo' \in Seq(Searches) /\ used' \in Nat /\ fresh' \in Nat
  BY <1>1, <1>3 DEF IInv, TypeOK
<1> QED
  BY <1>1, <1>4, <1>5, <1>6, ListsStay DEF InLoop

LEMMA OldestAreResults ==
  ASSUME toolMessages \in Seq(MessageSet)
  PROVE  \A v \in Oldest : v \in MessageSet /\ v.kind = "result"
                           /\ \E j \in 1..Len(toolMessages) : v = toolMessages[j]
<1> DEFINE K == {i \in 1..Len(toolMessages) : toolMessages[i].kind = "result"}
<1>1. K \in SUBSET (1..Len(toolMessages)) /\ Len(toolMessages) \in Nat
  OBVIOUS
<1>2. Results = Selected(toolMessages, K)
  BY DEF Results, OfKind, Places
<1>3. \A k \in K : toolMessages[k] \in MessageSet /\ toolMessages[k].kind = "result"
                   /\ k \in 1..Len(toolMessages)
  OBVIOUS
<1> HIDE DEF K
<1>4. ListsAll(K)
  BY <1>1, NthProperties
<1>5. /\ Len(Results) = Cardinality(K) /\ Cardinality(K) \in Nat
      /\ \A k \in 1..Cardinality(K) : Results[k] = toolMessages[Nth(K, k)] /\ Nth(K, k) \in K
  BY <1>1, <1>2, <1>4, SelectedProperties DEF ListsAll
<1>6. SUFFICES ASSUME NEW v \in Oldest
               PROVE  v \in MessageSet /\ v.kind = "result"
                      /\ \E j \in 1..Len(toolMessages) : v = toolMessages[j]
  OBVIOUS
<1>7. PICK k \in 1..(Len(Results) \div 2) : v = Results[k]
  BY DEF Oldest
<1>8. k \in 1..Cardinality(K)
  BY <1>5, <1>7
<1> QED
  BY <1>3, <1>5, <1>7, <1>8

LEMMA CheckContextInv ==
  ASSUME IInv, CheckContext
  PROVE  IInv'
<1>1. /\ at = "calling" /\ todo = <<>>
      /\ UNCHANGED <<turn, todo, used, messages, toolMessages, shown, ran, repeats, fresh, found, session>>
  BY DEF CheckContext
<1>2. /\ victims = {} /\ round \in 1..MaxRounds /\ todo' \in Seq(Searches) /\ projected \in Nat
  BY <1>1, Budgets, Typed DEF IInv, TypeOK, RunInv, Running
<1>3. /\ used' \in Nat /\ fresh' \in Nat /\ talk \in Nat /\ Counted(messages) \in Nat
      /\ Context + Len(todo') * Wording = used' + fresh'
      /\ \A p \in Projected : p \in Nat /\ talk + Counted(messages) <= p + Error
  BY <1>1, Accounts, Budgets
<1>4. CASE repeats >= MaxRepeats /\ at' = "answering" /\ UNCHANGED <<round, victims, projected>>
  BY <1>1, <1>2, <1>3, <1>4, ListsStay DEF InLoop
<1>5. ASSUME NEW p \in Projected, p < CompactAt, NextRound, UNCHANGED <<victims, projected>>
      PROVE  IInv'
  <2>1. at' \in {"thinking", "answering"} /\ round' \in 1..MaxRounds
    BY <1>2, <1>5, Budgets DEF NextRound
  <2>2. /\ p \in Nat /\ talk \in Nat /\ Counted(messages) \in Nat
        /\ talk + Counted(messages) <= p + Error
    BY <1>3
  <2>3. talk + Counted(messages) < HardAt + Slack
    BY <1>5, <2>2, Budgets, SlackIs
  <2> QED
    BY <1>1, <1>2, <1>3, <1>5, <2>1, <2>3, ListsStay DEF InLoop
<1>6. ASSUME NEW p \in Projected, GoOn(p, 0), UNCHANGED <<victims, projected>>
      PROVE  IInv'
  <2>1. /\ at' \in {"thinking", "answering"} /\ round' \in 1..MaxRounds
        /\ at' = "thinking" => p < HardAt + 0
    BY <1>1, <1>3, <1>6, GoesOn
  <2>2. /\ p \in Nat /\ talk \in Nat /\ Counted(messages) \in Nat
        /\ talk + Counted(messages) <= p + Error
    BY <1>3
  <2>3. at' = "thinking" => talk + Counted(messages) < HardAt + Slack
    BY <2>1, <2>2, Budgets, SlackIs
  <2> QED
    BY <1>1, <1>2, <1>3, <1>6, <2>1, <2>3, ListsStay DEF InLoop
<1>7. ASSUME NEW p \in Projected, at' = "summarising", victims' = Oldest, projected' = p, UNCHANGED round
      PROVE  IInv'
  <2>1. \A v \in victims' : v \in MessageSet /\ v.kind = "result"
                            /\ \E j \in 1..Len(toolMessages) : v = toolMessages[j]
    BY <1>7, OldestAreResults, Typed DEF IInv
  <2>2. todo' = <<>> /\ projected' \in Nat /\ projected' \in Estimates(used' + fresh')
    BY <1>1, <1>3, <1>7 DEF Projected
  <2> QED
    BY <1>1, <1>2, <1>3, <1>7, <2>1, <2>2, ListsStay DEF InLoop
<1>8. \/ repeats >= MaxRepeats /\ at' = "answering" /\ UNCHANGED <<round, victims, projected>>
      \/ \E p \in Projected :
           \/ p < CompactAt /\ NextRound /\ UNCHANGED <<victims, projected>>
           \/ GoOn(p, 0) /\ UNCHANGED <<victims, projected>>
           \/ at' = "summarising" /\ victims' = Oldest /\ projected' = p /\ UNCHANGED round
  BY DEF CheckContext
<1> QED
  BY <1>4, <1>5, <1>6, <1>7, <1>8

-----------------------------------------------------------------------------
(* The steps that add to the conversation.                                 *)

LEMMA ExtendedAnswered1 ==
  ASSUME NEW s \in Seq(MessageSet), NEW t, NEW x, Extends1(s, t, x), Answered(s),
         x.kind \notin {"call", "result"}
  PROVE  Answered(t)
<1>1. Len(s) \in Nat /\ Len(t) = Len(s) + 1 /\ t[Len(s) + 1] = x
      /\ \A i \in 1..Len(s) : t[i] = s[i]
  BY DEF Extends1
<1>2. SUFFICES ASSUME NEW i \in 1..Len(t)
               PROVE  /\ t[i].kind = "call" =>
                           i < Len(t) /\ t[i + 1].kind = "result" /\ t[i + 1].id = t[i].id
                      /\ t[i].kind = "result" =>
                           i > 1 /\ t[i - 1].kind = "call" /\ t[i - 1].id = t[i].id
  BY DEF Answered
<1>3. CASE i = Len(s) + 1
  BY <1>1, <1>3
<1>4. CASE i \in 1..Len(s)
  <2>1. /\ s[i].kind = "call" =>
             i < Len(s) /\ s[i + 1].kind = "result" /\ s[i + 1].id = s[i].id
        /\ s[i].kind = "result" =>
             i > 1 /\ s[i - 1].kind = "call" /\ s[i - 1].id = s[i].id
    BY <1>4 DEF Answered
  <2>2. i < Len(s) => i + 1 \in 1..Len(s)
    BY <1>1, <1>4
  <2>3. i > 1 => i - 1 \in 1..Len(s)
    BY <1>1, <1>4
  <2> QED
    BY <1>1, <1>4, <2>1, <2>2, <2>3
<1> QED
  BY <1>1, <1>3, <1>4

LEMMA ExtendedAnswered2 ==
  ASSUME NEW s \in Seq(MessageSet), NEW t, NEW x, NEW y, Extends2(s, t, x, y), Answered(s),
         x.kind = "call", y.kind = "result", x.id = y.id
  PROVE  Answered(t)
<1>1. Len(s) \in Nat /\ Len(t) = Len(s) + 2 /\ t[Len(s) + 1] = x /\ t[Len(s) + 2] = y
      /\ \A i \in 1..Len(s) : t[i] = s[i]
  BY DEF Extends2
<1>2. SUFFICES ASSUME NEW i \in 1..Len(t)
               PROVE  /\ t[i].kind = "call" =>
                           i < Len(t) /\ t[i + 1].kind = "result" /\ t[i + 1].id = t[i].id
                      /\ t[i].kind = "result" =>
                           i > 1 /\ t[i - 1].kind = "call" /\ t[i - 1].id = t[i].id
  BY DEF Answered
<1>3. CASE i = Len(s) + 1
  <2>1. i + 1 = Len(s) + 2 /\ i < Len(t)
    BY <1>1, <1>3
  <2> QED
    BY <1>1, <1>3, <2>1
<1>4. CASE i = Len(s) + 2
  <2>1. i - 1 = Len(s) + 1 /\ i > 1
    BY <1>1, <1>4
  <2> QED
    BY <1>1, <1>4, <2>1
<1>5. CASE i \in 1..Len(s)
  <2>1. /\ s[i].kind = "call" =>
             i < Len(s) /\ s[i + 1].kind = "result" /\ s[i + 1].id = s[i].id
        /\ s[i].kind = "result" =>
             i > 1 /\ s[i - 1].kind = "call" /\ s[i - 1].id = s[i].id
    BY <1>5 DEF Answered
  <2>2. i < Len(s) => i + 1 \in 1..Len(s)
    BY <1>1, <1>5
  <2>3. i > 1 => i - 1 \in 1..Len(s)
    BY <1>1, <1>5
  <2> QED
    BY <1>1, <1>5, <2>1, <2>2, <2>3
<1> QED
  BY <1>1, <1>3, <1>4, <1>5

LEMMA NudgeIsMessage ==
  /\ Nudge \in MessageSet /\ IsNudge(Nudge)
  /\ Nudge.kind = "nudge" /\ Nudge.texts = {} /\ Nudge.summed = {}
BY Budgets DEF MessageSet, Message, Nudge, IsNudge

LEMMA NudgeIsNotCounted ==
  ASSUME NEW s \in Seq(MessageSet), NEW t, Extends1(s, t, Nudge)
  PROVE  Counted(t) = Counted(s)
<1> DEFINE K == (1..Len(s)) \ Places(s, "nudge")
           J == (1..Len(t)) \ Places(t, "nudge")
<1>1. /\ Len(s) \in Nat /\ Len(t) = Len(s) + 1 /\ t[Len(s) + 1].kind = "nudge"
      /\ \A i \in 1..Len(s) : t[i] = s[i]
  BY NudgeIsMessage DEF Extends1
<1>2. \A i \in 1..Len(t) : i \in 1..Len(s) \/ i = Len(s) + 1
  BY <1>1
<1>3. \A i \in 1..Len(s) : i \in 1..Len(t) /\ i # Len(s) + 1
  BY <1>1
<1>4. J = K
  BY <1>1, <1>2, <1>3 DEF Places
<1>5. \A i \in K : t[i] = s[i]
  BY <1>1
<1> HIDE DEF K, J
<1>6. SizeAt(t, K) = SizeAt(s, K)
  BY <1>5, SizeOfSame
<1> QED
  BY <1>4, <1>6 DEF Counted, K, J

\* What a conversation mirrors stands in it.
LEMMA MirrorShows ==
  ASSUME NEW m, NEW t, NEW r, Len(m) \in Nat, Len(r) \in Nat, Mirrors(m, t, r)
  PROVE  /\ \A i \in 1..Len(r) : i \in 1..Len(m) /\ m[i] = r[i]
         /\ \A j \in 1..Len(t) : \E i \in (Len(r) + 1)..Len(m) :
              i \in 1..Len(m) /\ m[i] = t[j]
<1>1. PICK h : Placed(t, m, Len(r), h)
  BY DEF Mirrors
<1>2. \A j \in 1..Len(t) : h[j] \in (Len(r) + 1)..Len(m) /\ m[h[j]] = t[j]
  BY <1>1 DEF Placed
<1>3. \A i \in (Len(r) + 1)..Len(m) : i \in 1..Len(m)
  OBVIOUS
<1>4. Len(r) <= Len(m) /\ \A i \in 1..Len(r) : m[i] = r[i]
  BY DEF Mirrors
<1>5. \A i \in 1..Len(r) : i \in 1..Len(m)
  BY <1>4
<1> QED
  BY <1>2, <1>3, <1>4, <1>5

\* It does when a notice goes to its end,
LEMMA MirrorsNudged ==
  ASSUME NEW m \in Seq(MessageSet), NEW t, NEW r \in Seq(MessageSet), Mirrors(m, t, r),
         NEW u, Extends1(m, u, Nudge)
  PROVE  Mirrors(u, t, r)
<1>1. /\ Len(m) \in Nat /\ Len(r) \in Nat /\ Len(r) <= Len(m) /\ Len(u) = Len(m) + 1
      /\ \A i \in 1..Len(m) : u[i] = m[i]
      /\ u[Len(m) + 1] = Nudge
  BY DEF Mirrors, Extends1
<1>2. PICK h : Placed(t, m, Len(r), h)
  BY DEF Mirrors
<1>3. /\ \A i \in (Len(r) + 1)..Len(m) : i \in 1..Len(m) /\ i \in (Len(r) + 1)..Len(u)
      /\ \A i \in (Len(r) + 1)..Len(u) : i \in (Len(r) + 1)..Len(m) \/ i = Len(m) + 1
      /\ \A i \in 1..Len(r) : i \in 1..Len(m)
      /\ Len(r) <= Len(u)
  BY <1>1
<1>4. Placed(t, u, Len(r), h)
  <2>1. /\ h \in [1..Len(t) -> (Len(r) + 1)..Len(m)]
        /\ \A i, j \in 1..Len(t) : h[i] = h[j] => i = j
        /\ \A j \in 1..Len(t) : m[h[j]] = t[j]
    BY <1>2 DEF Placed
  <2>2. h \in [1..Len(t) -> (Len(r) + 1)..Len(u)]
    BY <1>3, <2>1
  <2>3. \A j \in 1..Len(t) : u[h[j]] = t[j]
    BY <1>1, <1>3, <2>1
  <2> QED
    BY <2>1, <2>2, <2>3 DEF Placed
<1>5. \A i \in 1..Len(r) : u[i] = r[i]
  BY <1>1, <1>3 DEF Mirrors
<1>6. \A i \in (Len(r) + 1)..Len(u) : IsNudge(u[i]) \/ \E j \in 1..Len(t) : u[i] = t[j]
  <2>1. \A i \in (Len(r) + 1)..Len(m) : IsNudge(m[i]) \/ \E j \in 1..Len(t) : m[i] = t[j]
    BY DEF Mirrors
  <2> QED
    BY <1>1, <1>3, <2>1, NudgeIsMessage
<1> QED
  BY <1>3, <1>4, <1>5, <1>6 DEF Mirrors

\* and when a call and its result go to the end of both lists.
LEMMA MirrorsPaired ==
  ASSUME NEW m \in Seq(MessageSet), NEW t \in Seq(MessageSet), NEW r \in Seq(MessageSet),
         Mirrors(m, t, r),
         NEW c, NEW d, NEW u, NEW v, Extends2(m, u, c, d), Extends2(t, v, c, d)
  PROVE  Mirrors(u, v, r)
<1> DEFINE M == Len(m)
           T == Len(t)
           R == Len(r)
<1>1. /\ M \in Nat /\ T \in Nat /\ R \in Nat /\ R <= M
      /\ Len(u) = M + 2 /\ Len(v) = T + 2
      /\ \A i \in 1..M : u[i] = m[i]
      /\ u[M + 1] = c /\ u[M + 2] = d
      /\ \A i \in 1..T : v[i] = t[i]
      /\ v[T + 1] = c /\ v[T + 2] = d
  <2>1. M \in Nat /\ T \in Nat /\ R \in Nat
    OBVIOUS
  <2>2. R <= M
    BY DEF Mirrors
  <2>3. /\ Len(u) = M + 2 /\ \A i \in 1..M : u[i] = m[i]
        /\ u[M + 1] = c /\ u[M + 2] = d
    BY DEF Extends2
  <2>4. /\ Len(v) = T + 2 /\ \A i \in 1..T : v[i] = t[i]
        /\ v[T + 1] = c /\ v[T + 2] = d
    BY DEF Extends2
  <2> QED
    BY <2>1, <2>2, <2>3, <2>4
<1>2. PICK h : Placed(t, m, R, h)
  BY DEF Mirrors
<1>3. /\ \A i \in 1..R : m[i] = r[i]
      /\ \A i \in (R + 1)..M : IsNudge(m[i]) \/ \E j \in 1..T : m[i] = t[j]
  BY DEF Mirrors
<1>4. /\ h \in [1..T -> (R + 1)..M]
      /\ \A i, j \in 1..T : h[i] = h[j] => i = j
      /\ \A j \in 1..T : m[h[j]] = t[j]
  BY <1>2 DEF Placed
<1> HIDE DEF M, T, R
<1>5. /\ \A i \in (R + 1)..M : i \in 1..M /\ i \in (R + 1)..(M + 2) /\ i # M + 1 /\ i # M + 2
      /\ M + 1 \in (R + 1)..(M + 2) /\ M + 2 \in (R + 1)..(M + 2) /\ M + 1 # M + 2
      /\ \A i \in (R + 1)..(M + 2) : i \in (R + 1)..M \/ i = M + 1 \/ i = M + 2
      /\ \A i \in 1..R : i \in 1..M
      /\ R <= M + 2
  BY <1>1
<1>6. /\ \A j \in 1..(T + 2) : j \in 1..T \/ j = T + 1 \/ j = T + 2
      /\ \A j \in 1..T : j \in 1..(T + 2) /\ j # T + 1 /\ j # T + 2
      /\ T + 1 \in 1..(T + 2) /\ T + 2 \in 1..(T + 2) /\ T + 1 # T + 2
  BY <1>1
<1> DEFINE g == [j \in 1..(T + 2) |-> IF j = T + 1 THEN M + 1 ELSE IF j = T + 2 THEN M + 2 ELSE h[j]]
<1>7. /\ \A j \in 1..T : g[j] = h[j] /\ g[j] \in (R + 1)..M
      /\ g[T + 1] = M + 1 /\ g[T + 2] = M + 2
  BY <1>4, <1>6
<1>8. g \in [1..(T + 2) -> (R + 1)..(M + 2)]
  BY <1>4, <1>5, <1>6
<1> HIDE DEF g
<1>9. \A i, j \in 1..(T + 2) : g[i] = g[j] => i = j
  BY <1>4, <1>5, <1>6, <1>7
<1>10. ASSUME NEW j \in 1..(T + 2)
       PROVE  u[g[j]] = v[j]
  <2>1. CASE j \in 1..T
    <3>1. g[j] = h[j] /\ h[j] \in 1..M /\ m[h[j]] = t[j]
      BY <1>4, <1>5, <1>7, <2>1
    <3> QED
      BY <1>1, <2>1, <3>1
  <2>2. CASE j = T + 1 \/ j = T + 2
    BY <1>1, <1>7, <2>2
  <2> QED
    BY <1>6, <2>1, <2>2
<1>11. Placed(v, u, R, g)
  BY <1>1, <1>8, <1>9, <1>10 DEF Placed
<1>12. \A i \in 1..R : u[i] = r[i]
  BY <1>1, <1>3, <1>5
<1>13. ASSUME NEW i \in (R + 1)..(M + 2)
       PROVE  IsNudge(u[i]) \/ \E j \in 1..(T + 2) : u[i] = v[j]
  <2>1. CASE i \in (R + 1)..M
    <3>1. u[i] = m[i] /\ (IsNudge(m[i]) \/ \E j \in 1..T : m[i] = t[j])
      BY <1>1, <1>3, <1>5, <2>1
    <3> QED
      BY <1>1, <1>6, <3>1
  <2>2. CASE i = M + 1 \/ i = M + 2
    BY <1>1, <1>6, <2>2
  <2> QED
    BY <1>5, <2>1, <2>2
<1> QED
  BY <1>1, <1>5, <1>11, <1>12, <1>13 DEF Mirrors, R

\* A result of the conversation is one the run will hand over.
LEMMA ResultsAreHandedOver ==
  ASSUME TypeOK, MirrorInv, SeenInv, Open,
         NEW i \in 1..Len(messages), messages[i].kind = "result"
  PROVE  i > Len(research) /\ \E j \in 1..Len(toolMessages) : messages[i] = toolMessages[j]
<1>1. Len(messages) \in Nat /\ Len(research) \in Nat
  BY Typed
<1>2. \A k \in 1..Len(research) : messages[k].kind = "research"
  BY DEF MirrorInv, Mirrors, SeenInv, Blocks, IsBlock
<1>3. i \in (Len(research) + 1)..Len(messages)
  BY <1>1, <1>2
<1>4. ~IsNudge(messages[i])
  BY DEF IsNudge
<1>5. i > Len(research)
  BY <1>1, <1>3
<1>6. \A k \in (Len(research) + 1)..Len(messages) :
        IsNudge(messages[k]) \/ \E j \in 1..Len(toolMessages) : messages[k] = toolMessages[j]
  BY DEF MirrorInv, Mirrors
<1> QED
  BY <1>3, <1>4, <1>5, <1>6

LEMMA VisibleIsShown ==
  ASSUME IInv, InLoop
  PROVE  Verbatim(messages) \subseteq shown
<1>1. TypeOK /\ MirrorInv /\ SeenInv /\ ToolInv /\ ShownInv /\ Open
  BY DEF IInv, Open
<1>2. Holds(messages) /\ Holds(research)
  BY <1>1, Typed, ListHolds
<1>3. SUFFICES ASSUME NEW x \in Verbatim(messages) PROVE x \in shown
  OBVIOUS
<1>4. PICK i \in 1..Len(messages) : x \in messages[i].texts
  BY <1>2 DEF Holds
<1>5. x \in Texts
  BY <1>2 DEF Holds
<1>6. CASE i \in 1..Len(research)
  <2>1. messages[i] = research[i]
    BY <1>1, <1>6 DEF MirrorInv, Mirrors
  <2>2. x \in seen
    BY <1>1, <1>2, <1>4, <1>6, <2>1 DEF Holds, SeenInv
  <2> QED
    BY <1>1, <1>5, <2>2 DEF ShownInv
<1>7. CASE i \in (Len(research) + 1)..Len(messages)
  <2>1. \E j \in 1..Len(toolMessages) : messages[i] = toolMessages[j]
    BY <1>1, <1>4, <1>7 DEF MirrorInv, Mirrors, IsNudge
  <2>2. IsTool(messages[i])
    BY <1>1, <2>1 DEF ToolInv, Tools
  <2>3. messages[i].kind = "result"
    BY <1>4, <2>2 DEF IsTool
  <2> QED
    BY <1>1, <1>4, <1>5, <2>3 DEF ShownInv
<1> QED
  BY <1>2, <1>6, <1>7 DEF Holds

LEMMA ReplyEmptyInv ==
  ASSUME IInv, ReplyEmpty
  PROVE  IInv'
<1>1. /\ at = "thinking" /\ messages' = Append(messages, Nudge) /\ used' = Context /\ NextRound
      /\ UNCHANGED <<turn, todo, toolMessages, shown, ran, repeats, fresh, victims, projected, found,
                     session>>
  BY DEF ReplyEmpty, Replies
<1>2. Nudge \in MessageSet /\ IsNudge(Nudge)
  BY NudgeIsMessage
<1>3. /\ TypeOK /\ RunInv /\ ToolInv /\ MirrorInv /\ SeenInv /\ FoundInv /\ ShownInv
      /\ OnceInv /\ SizeInv /\ WithinWindow /\ InLoop /\ Open
  BY <1>1 DEF IInv, InLoop, Open
<1>4. /\ messages \in Seq(MessageSet) /\ research \in Seq(MessageSet)
      /\ Len(messages) \in Nat /\ Len(research) \in Nat
  BY <1>3, Typed
<1>5. Extends1(messages, messages', Nudge)
  BY <1>1, <1>2, <1>4, AppendExtends
<1>6. /\ messages' \in Seq(MessageSet) /\ Len(messages') = Len(messages) + 1
      /\ \A i \in 1..Len(messages) : messages'[i] = messages[i]
      /\ messages'[Len(messages) + 1] = Nudge
  BY <1>5 DEF Extends1
<1>7. \A i \in 1..Len(messages') : i \in 1..Len(messages) \/ i = Len(messages) + 1
  BY <1>4, <1>6
<1>8. Once(messages') /\ Context \in Nat
  <2>1. Nudge.texts = {} /\ Once(messages)
    BY <1>2, <1>3 DEF IsNudge, OnceInv
  <2>2. Once(messages')
    BY <1>2, <1>4, <1>5, <2>1, OnceExtends1
  <2> QED
    BY <1>3, <1>4, <2>2, Typed, CountedIsPart DEF Context
<1>9. /\ at' \in {"thinking", "answering"} /\ round' \in 1..MaxRounds
  <2>1. round \in 1..MaxRounds
    BY <1>1, <1>3, Budgets DEF RunInv, Running, TypeOK
  <2> QED
    BY <1>1, <2>1, Budgets DEF NextRound
<1> USE DEF session
<1>10. TypeOK'
  <2>1. round' \in 0..MaxRounds
    BY <1>9, Budgets
  <2>2. /\ at' \in {"idle", "thinking", "calling", "summarising", "answering", "writing", "posted"}
        /\ used' \in Nat
    BY <1>1, <1>8, <1>9
  <2> QED
    BY <1>1, <1>3, <1>6, <2>1, <2>2 DEF TypeOK
<1>11. RunInv'
  BY <1>1, <1>3, <1>9, Budgets DEF RunInv, Running
<1>12. ToolInv'
  <2>1. Answered(messages')
    BY <1>2, <1>3, <1>4, <1>5, ExtendedAnswered1 DEF IsNudge, ToolInv
  <2> QED
    BY <1>1, <1>3, <2>1 DEF ToolInv
<1>13. MirrorInv'
  <2>1. Mirrors(messages', toolMessages, research)
    BY <1>3, <1>4, <1>5, MirrorsNudged DEF MirrorInv
  <2> QED
    BY <1>1, <2>1 DEF MirrorInv
<1>14. SeenInv' /\ FoundInv' /\ OnceInv'
  BY <1>1, <1>3, <1>8, <1>9 DEF SeenInv, FoundInv, OnceInv, Running
<1>15. ShownInv'
  <2>1. \A i \in 1..Len(messages') : messages'[i].kind = "result" =>
          i \in 1..Len(messages) /\ messages'[i] = messages[i]
    BY <1>2, <1>6, <1>7 DEF IsNudge
  <2>2. \A i \in 1..Len(messages) : i \in 1..Len(messages') /\ messages'[i] = messages[i]
    BY <1>4, <1>6
  <2> QED
    BY <1>1, <1>3, <2>1, <2>2 DEF ShownInv
<1>16. SizeInv'
  BY <1>1, <1>3, <1>8, <1>9 DEF SizeInv
<1>17. WithinWindow'
  <2>1. toolMessages' = toolMessages /\ unrecorded' = unrecorded /\ talk' = talk
    BY <1>1
  <2>2. (toolMessages # <<>> \/ ~unrecorded) => talk + Counted(messages) < HardAt + Slack
    BY <1>1, <1>3 DEF WithinWindow
  <2>3. Counted(messages') = Counted(messages)
    BY <1>4, <1>5, NudgeIsNotCounted
  <2> QED
    BY <2>1, <2>2, <2>3 DEF WithinWindow
<1> QED
  BY <1>10, <1>11, <1>12, <1>13, <1>14, <1>15, <1>16, <1>17 DEF IInv

\* A call and its result take what the accounts had down for the call, and what
\* they gain.
Balanced(t, s, n, u, f) == (t + s) + n * Wording = u + f

LEMMA PairCounted ==
  ASSUME NEW t \in Nat, NEW s \in Nat, NEW k \in Nat, NEW u \in Nat, NEW f \in Nat, NEW n \in Nat,
         Balanced(t, s, n + 1, u, f)
  PROVE  Balanced(t, s + k + Wording + Wording, n, u, f + k + Wording)
<1>1. n * Wording \in Nat /\ (n + 1) * Wording = n * Wording + Wording /\ Wording \in Nat
  BY Wordings, Budgets
<1> DEFINE a == n * Wording
<1>2. a \in Nat /\ (t + s) + (a + Wording) = u + f
  BY <1>1 DEF Balanced
<1> HIDE DEF a
<1>3. (t + (s + k + Wording + Wording)) + a = u + (f + k + Wording)
  BY <1>1, <1>2
<1> QED
  BY <1>3 DEF a, Balanced

\* A call and its result go to the end of both lists.
LEMMA CalledInv ==
  ASSUME IInv, at = "calling", NEW raw \in SUBSET Texts, Pair(raw \ shown),
         shown' = shown \cup raw,
         found' = found \cup raw, todo' \in Seq(Searches), Len(todo) = Len(todo') + 1,
         ran' \subseteq Searches, IsFiniteSet(ran'), repeats' \in Nat,
         Cardinality(ran') + repeats' = Cardinality(ran) + repeats + 1,
         UNCHANGED <<at, turn, round, used, victims, projected, session>>
  PROVE  IInv'
<1> DEFINE n == Cardinality(ran) + repeats
           c == Message("call", n + 1, {}, {}, Wording)
           d == Message("result", n + 1, raw \ shown, {}, Wording)
           k == Cardinality(raw \ shown)
<1>1. /\ TypeOK /\ RunInv /\ ToolInv /\ MirrorInv /\ SeenInv /\ FoundInv /\ ShownInv
      /\ OnceInv /\ SizeInv /\ WithinWindow /\ InLoop /\ Open
  BY DEF IInv, InLoop, Open
<1>2. n \in Nat /\ 1 + Cardinality(ran) + repeats = n + 1
  <2>1. Cardinality(ran) \in Nat /\ repeats \in Nat
    BY <1>1, FS_CardinalityType, Typed DEF RunInv
  <2> QED
    BY <2>1
<1>3. /\ c \in MessageSet /\ c.kind = "call" /\ c.id = n + 1 /\ c.texts = {} /\ c.summed = {}
      /\ d \in MessageSet /\ d.kind = "result" /\ d.id = n + 1 /\ d.texts = raw \ shown
      /\ d.summed = {} /\ c.length = Wording /\ d.length = Wording
  BY <1>2, Budgets DEF MessageSet, Message
<1>4. /\ messages' = messages \o <<c, d>> /\ toolMessages' = toolMessages \o <<c, d>>
      /\ fresh' = fresh + k + Wording
  BY <1>2 DEF Pair
<1>5. Cardinality(ran') + repeats' = n + 1
  BY <1>2
<1>6. Tools(toolMessages, n)
  BY <1>1 DEF ToolInv
<1> HIDE DEF n, c, d
<1>7. IsTool(c) /\ IsTool(d)
  <2>1. n + 1 # 0
    BY <1>2
  <2> QED
    BY <1>3, <2>1 DEF IsTool
<1>8. /\ messages \in Seq(MessageSet) /\ research \in Seq(MessageSet) /\ toolMessages \in Seq(MessageSet)
      /\ Len(messages) \in Nat /\ Len(research) \in Nat /\ Len(toolMessages) \in Nat
  BY <1>1, Typed
<1>9. Extends2(messages, messages', c, d) /\ Extends2(toolMessages, toolMessages', c, d)
  BY <1>3, <1>4, <1>8, PairExtends
<1>10. /\ messages' \in Seq(MessageSet) /\ Len(messages') = Len(messages) + 2
       /\ \A i \in 1..Len(messages) : messages'[i] = messages[i]
       /\ messages'[Len(messages) + 1] = c /\ messages'[Len(messages) + 2] = d
  BY <1>9 DEF Extends2
<1>11. /\ toolMessages' \in Seq(MessageSet) /\ Len(toolMessages') = Len(toolMessages) + 2
       /\ \A i \in 1..Len(toolMessages) : toolMessages'[i] = toolMessages[i]
       /\ toolMessages'[Len(toolMessages) + 1] = c /\ toolMessages'[Len(toolMessages) + 2] = d
  BY <1>9 DEF Extends2
<1>12. /\ \A i \in 1..Len(messages') :
            i \in 1..Len(messages) \/ i = Len(messages) + 1 \/ i = Len(messages) + 2
       /\ \A i \in 1..Len(messages) : i \in 1..Len(messages')
       /\ Len(messages) + 1 \in 1..Len(messages') /\ Len(messages) + 2 \in 1..Len(messages')
  BY <1>8, <1>10
<1>13. /\ \A i \in 1..Len(toolMessages') :
            \/ i \in 1..Len(toolMessages)
            \/ i = Len(toolMessages) + 1 \/ i = Len(toolMessages) + 2
       /\ \A i \in 1..Len(toolMessages) : i \in 1..Len(toolMessages')
       /\ Len(toolMessages) + 1 \in 1..Len(toolMessages')
       /\ Len(toolMessages) + 2 \in 1..Len(toolMessages')
  <2>1. Len(toolMessages) \in Nat /\ Len(toolMessages') = Len(toolMessages) + 2
    BY <1>8, <1>11
  <2> QED
    BY <2>1
<1>14. IsFiniteSet(raw \ shown) /\ k \in Nat
  BY FS_Subset, FS_CardinalityType, TextAssumption
<1>15. /\ Once(messages') /\ Size(messages) \in Nat
       /\ Size(messages') = Size(messages) + k + Wording + Wording
  <2>1. Verbatim(messages) \subseteq shown
    BY <1>1, VisibleIsShown
  <2>2. d.texts \cap Verbatim(messages) = {}
    BY <1>3, <2>1
  <2>3. Once(messages)
    BY <1>1 DEF OnceInv
  <2>4. /\ Size(messages) \in Nat /\ Size(messages') = Size(messages) + SizeOf(c) + SizeOf(d)
        /\ Once(messages) /\ c.texts = {} /\ d.texts \cap Verbatim(messages) = {} => Once(messages')
    <3>1. c \in MessageSet /\ d \in MessageSet
      BY <1>3
    <3>2. Grows(messages, messages', c, d)
      BY <1>8, <1>9, <3>1, ListExtends2
    <3> QED
      BY <3>2 DEF Grows
  <2>5. SizeOf(c) = Wording /\ SizeOf(d) = k + Wording
    BY <1>3, FS_EmptySet, Budgets DEF SizeOf
  <2>6. Once(messages')
    BY <1>3, <2>2, <2>3, <2>4
  <2> HIDE DEF k
  <2> QED
    BY <1>14, <2>4, <2>5, <2>6, Budgets
<1> HIDE DEF k
<1> USE DEF session
<1>16. TypeOK'
  <2>1. fresh' \in Nat
    <3>1. fresh \in Nat /\ fresh' = fresh + k + Wording
      BY <1>1, <1>4, Typed
    <3> QED
      BY <1>14, <3>1, Budgets
  <2>2. shown' \subseteq Texts /\ found' \subseteq Texts
    BY <1>1 DEF TypeOK
  <2> QED
    BY <1>1, <1>10, <1>11, <2>1, <2>2 DEF TypeOK
<1>17. RunInv'
  BY <1>1 DEF RunInv, Running
<1>18. Tools(toolMessages', Cardinality(ran') + repeats')
  <2>1. \A i \in 1..Len(toolMessages') : IsTool(toolMessages'[i]) /\ toolMessages'[i].id <= n + 1
    <3>1. \A i \in 1..Len(toolMessages) : toolMessages[i].id \in Nat
      <4>1. \A m \in MessageSet : m.id \in Nat
        BY DEF MessageSet
      <4>2. \A i \in 1..Len(toolMessages) : toolMessages[i] \in MessageSet
        BY <1>8
      <4> QED
        BY <4>1, <4>2
    <3>2. \A i \in 1..Len(toolMessages) :
            IsTool(toolMessages[i]) /\ toolMessages[i].id <= n + 1
      BY <1>2, <1>6, <3>1 DEF Tools
    <3>3. c.id <= n + 1 /\ d.id <= n + 1
      BY <1>2, <1>3
    <3> QED
      BY <1>7, <1>11, <1>13, <3>2, <3>3
  <2>2. \A i \in 1..Len(toolMessages) : toolMessages[i].id # n + 1
    <3>1. \A i \in 1..Len(toolMessages) : toolMessages[i].id \in Nat
      <4>1. \A m \in MessageSet : m.id \in Nat
        BY DEF MessageSet
      <4>2. \A i \in 1..Len(toolMessages) : toolMessages[i] \in MessageSet
        BY <1>8
      <4> QED
        BY <4>1, <4>2
    <3> QED
      BY <1>2, <1>6, <3>1 DEF Tools
  <2>3. ASSUME NEW i \in 1..Len(toolMessages'), NEW j \in 1..Len(toolMessages'),
               toolMessages'[i].kind = "result", toolMessages'[j].kind = "result",
               toolMessages'[i].id = toolMessages'[j].id
        PROVE  toolMessages'[i] = toolMessages'[j]
    <3>1. \A h \in 1..Len(toolMessages') : toolMessages'[h].kind = "result" =>
            h \in 1..Len(toolMessages) \/ toolMessages'[h] = d
      BY <1>3, <1>11, <1>13
    <3>2. CASE i \in 1..Len(toolMessages) /\ j \in 1..Len(toolMessages)
      BY <1>6, <1>11, <2>3, <3>2 DEF Tools
    <3>3. CASE toolMessages'[i] = d /\ toolMessages'[j] = d
      BY <3>3
    <3>4. CASE i \in 1..Len(toolMessages) /\ toolMessages'[j] = d
      BY <1>3, <1>11, <2>2, <2>3, <3>4
    <3>5. CASE j \in 1..Len(toolMessages) /\ toolMessages'[i] = d
      BY <1>3, <1>11, <2>2, <2>3, <3>5
    <3> QED
      BY <2>3, <3>1, <3>2, <3>3, <3>4, <3>5
  <2> QED
    BY <1>5, <2>1, <2>3 DEF Tools
<1>19. ToolInv'
  <2>1. Answered(messages') /\ Answered(toolMessages')
    BY <1>1, <1>3, <1>8, <1>9, ExtendedAnswered2 DEF ToolInv
  <2>2. victims' = {}
    BY <1>1 DEF RunInv
  <2> QED
    BY <1>18, <2>1, <2>2 DEF ToolInv
<1>20. MirrorInv'
  <2>1. Mirrors(messages', toolMessages', research)
    BY <1>1, <1>8, <1>9, MirrorsPaired DEF MirrorInv
  <2> QED
    BY <2>1 DEF MirrorInv
<1>21. SeenInv' /\ OnceInv'
  BY <1>1, <1>15 DEF SeenInv, OnceInv
<1>22. FoundInv'
  <2>1. Gains(toolMessages, toolMessages', c, d)
    <3>1. Extends2(toolMessages, toolMessages', c, d) /\ c \in MessageSet /\ d \in MessageSet
      BY <1>3, <1>9
    <3> QED
      BY <1>8, <3>1, Extends2Holds
  <2>2. shown \subseteq Verbatim(toolMessages) \cup seen
    <3>1. SUFFICES ASSUME NEW x \in shown, x \notin seen PROVE x \in Verbatim(toolMessages)
      OBVIOUS
    <3>2. x \in Texts
      BY <1>1 DEF TypeOK
    <3>3. PICK i \in 1..Len(messages) : messages[i].kind = "result" /\ x \in messages[i].texts
      BY <1>1, <3>1, <3>2 DEF ShownInv
    <3>4. \E j \in 1..Len(toolMessages) : messages[i] = toolMessages[j]
      BY <1>1, <3>3, ResultsAreHandedOver
    <3> QED
      BY <3>3, <3>4 DEF Verbatim
  <2>3. found \subseteq Kept(toolMessages) \cup seen
    BY <1>1 DEF FoundInv, Running
  <2>4. found' \subseteq Kept(toolMessages') \cup seen
    BY <1>3, <2>1, <2>2, <2>3 DEF Kept, Gains
  <2> QED
    BY <2>4 DEF FoundInv
<1>23. ShownInv'
  <2>1. \A x \in Texts : x \in shown <=>
          x \in seen \/ \E i \in 1..Len(messages) : messages[i].kind = "result" /\ x \in messages[i].texts
    BY <1>1 DEF ShownInv
  <2>2. \A x \in Texts : x \in shown' <=>
          \/ x \in seen
          \/ \E i \in 1..Len(messages') : messages'[i].kind = "result" /\ x \in messages'[i].texts
    <3>1. SUFFICES ASSUME NEW x \in Texts
                   PROVE  x \in shown' <=>
                            \/ x \in seen
                            \/ \E i \in 1..Len(messages') :
                                 messages'[i].kind = "result" /\ x \in messages'[i].texts
      OBVIOUS
    <3>2. x \in shown' <=> x \in shown \/ x \in d.texts
      BY <1>3
    <3>3. x \in shown => \/ x \in seen
                         \/ \E i \in 1..Len(messages') :
                              messages'[i].kind = "result" /\ x \in messages'[i].texts
      BY <1>10, <1>12, <2>1
    <3>4. ASSUME NEW i \in 1..Len(messages'), messages'[i].kind = "result", x \in messages'[i].texts
          PROVE  x \in shown \/ x \in d.texts
      BY <1>3, <1>10, <1>12, <2>1, <3>4
    <3>5. x \in d.texts => \E i \in 1..Len(messages') :
                              messages'[i].kind = "result" /\ x \in messages'[i].texts
      BY <1>3, <1>10, <1>12
    <3>6. x \in seen => x \in shown
      BY <2>1
    <3> QED
      BY <3>2, <3>3, <3>4, <3>5, <3>6
  <2>3. \A i \in 1..Len(messages') : messages'[i].kind = "result" => messages'[i].texts \cap seen = {}
    <3>1. d.texts \cap seen = {}
      <4>1. \A x \in raw : x \in seen => x \in shown
        BY <2>1
      <4> QED
        BY <1>3, <4>1
    <3>2. \A i \in 1..Len(messages) : messages[i].kind = "result" => messages[i].texts \cap seen = {}
      BY <1>1 DEF ShownInv
    <3> QED
      BY <1>3, <1>10, <1>12, <3>1, <3>2
  <2> QED
    BY <2>2, <2>3 DEF ShownInv
<1>24. SizeInv'
  <2>1. Context + Len(todo) * Wording = used + fresh
    BY <1>1 DEF SizeInv
  <2>2. Context = talk + Size(messages) /\ Context' = talk + Size(messages')
    BY DEF Context
  <2>3. talk \in Nat /\ used \in Nat /\ fresh \in Nat /\ k \in Nat /\ Size(messages) \in Nat
    BY <1>1, <1>14, <1>15, Typed
  <2>4. Len(todo') \in Nat
    OBVIOUS
  <2>5. Balanced(talk, Size(messages), Len(todo') + 1, used, fresh)
    BY <2>1, <2>2 DEF Balanced
  <2>6. Balanced(talk, Size(messages) + k + Wording + Wording, Len(todo'), used,
                 fresh + k + Wording)
    BY <2>3, <2>4, <2>5, PairCounted
  <2>7. Context' + Len(todo') * Wording = used' + fresh'
    BY <1>4, <1>15, <2>2, <2>6 DEF Balanced
  <2> QED
    BY <2>7 DEF SizeInv
<1>25. WithinWindow'
  BY DEF WithinWindow
<1> QED
  BY <1>16, <1>17, <1>19, <1>20, <1>21, <1>22, <1>23, <1>24, <1>25 DEF IInv

LEMMA CallToolInv ==
  ASSUME IInv, CallTool
  PROVE  IInv'
<1>1. /\ at = "calling" /\ todo # <<>> /\ todo' = Tail(todo)
      /\ UNCHANGED <<at, turn, round, used, victims, projected, session>>
  BY DEF CallTool
<1>2. /\ todo \in Seq(Searches) /\ ran \subseteq Searches /\ IsFiniteSet(ran)
      /\ Cardinality(ran) \in Nat /\ repeats \in Nat /\ fresh \in Nat
  BY FS_CardinalityType, Typed DEF IInv, TypeOK, RunInv
<1>3. todo' \in Seq(Searches) /\ Len(todo) = Len(todo') + 1 /\ Head(todo) \in Searches
  BY <1>1, <1>2
<1> DEFINE s == Head(todo)
<1>4. CASE /\ s \in ran /\ repeats' = repeats + 1 /\ Pair({})
           /\ UNCHANGED <<shown, ran, found>>
  <2>1. {} \ shown = {} /\ shown' = shown \cup {} /\ found' = found \cup {}
    BY <1>4
  <2>2. Pair({} \ shown)
    BY <1>4, <2>1
  <2>3. Cardinality(ran') + repeats' = Cardinality(ran) + repeats + 1 /\ repeats' \in Nat
    BY <1>2, <1>4
  <2>4. ran' \subseteq Searches /\ IsFiniteSet(ran')
    BY <1>2, <1>4
  <2> QED
    BY <1>1, <1>3, <2>1, <2>2, <2>3, <2>4, CalledInv
<1>5. CASE /\ s \notin ran /\ ran' = ran \cup {s} /\ UNCHANGED repeats
           /\ \E raw \in Outcomes(s) : DropSeen(raw) /\ found' = found \cup raw
  <2>1. PICK raw \in Outcomes(s) : DropSeen(raw) /\ found' = found \cup raw
    BY <1>5
  <2>2. raw \in SUBSET Texts
    BY <1>3, TextAssumption DEF Outcomes, Worded, Retrieved
  <2>3. IsFiniteSet(ran') /\ Cardinality(ran') = Cardinality(ran) + 1
    BY <1>2, <1>5, FS_AddElement
  <2>4. Cardinality(ran') + repeats' = Cardinality(ran) + repeats + 1 /\ repeats' \in Nat
    BY <1>2, <1>5, <2>3
  <2>5. ran' \subseteq Searches
    BY <1>2, <1>3, <1>5
  <2>6. Pair(raw \ shown) /\ shown' = shown \cup raw
    BY <2>1 DEF DropSeen
  <2> QED
    BY <1>1, <1>3, <2>1, <2>2, <2>3, <2>4, <2>5, <2>6, CalledInv
<1> QED
  BY <1>4, <1>5 DEF CallTool

-----------------------------------------------------------------------------
(* Condensing.                                                             *)

\* What goes is a victim or its call.
LEMMA VictimsGo ==
  ASSUME IInv, NEW j \in 1..Len(toolMessages), Victim(toolMessages[j])
  PROVE  /\ toolMessages[j].texts \subseteq VictimTexts /\ toolMessages[j].summed = {}
         /\ toolMessages[j].id # 0
<1> DEFINE m == toolMessages[j]
<1>1. PICK v \in victims : v.id = m.id
  BY DEF Victim
<1>2. PICK k \in 1..Len(toolMessages) : v = toolMessages[k] /\ v.kind = "result"
  BY DEF IInv, ToolInv
<1>3. IsTool(v) /\ IsTool(m)
  BY <1>2 DEF IInv, ToolInv, Tools
<1>4. m.id # 0
  BY <1>1, <1>2, <1>3 DEF IsTool
<1>5. m.kind = "result" => m = v
  BY <1>1, <1>2 DEF IInv, ToolInv, Tools
<1>6. v.texts \subseteq VictimTexts
  BY <1>1 DEF VictimTexts
<1> QED
  BY <1>3, <1>4, <1>5, <1>6 DEF IsTool

LEMMA VictimIdsAreCalls ==
  ASSUME IInv, NEW m, m.id = 0
  PROVE  ~Victim(m)
<1>1. \A v \in victims : v.kind = "result" /\ IsTool(v)
  BY DEF IInv, ToolInv, Tools
<1> QED
  BY <1>1 DEF Victim, IsTool

\* In the conversation they are after the session's research.
LEMMA VictimsAreHandedOver ==
  ASSUME IInv, Open, NEW i \in 1..Len(messages), Victim(messages[i])
  PROVE  /\ i \in (Len(research) + 1)..Len(messages)
         /\ \E j \in 1..Len(toolMessages) : messages[i] = toolMessages[j]
<1>1. Len(messages) \in Nat /\ Len(research) \in Nat
  BY Typed DEF IInv
<1>2. messages[i].id # 0
  BY VictimIdsAreCalls
<1>3. ~IsNudge(messages[i])
  BY <1>2 DEF IsNudge
<1>4. \A k \in 1..Len(research) : messages[k].id = 0
  BY DEF IInv, MirrorInv, Mirrors, SeenInv, Blocks, IsBlock
<1>5. i \in (Len(research) + 1)..Len(messages)
  BY <1>1, <1>2, <1>4
<1>6. \A k \in (Len(research) + 1)..Len(messages) :
        IsNudge(messages[k]) \/ \E j \in 1..Len(toolMessages) : messages[k] = toolMessages[j]
  BY DEF IInv, MirrorInv, Mirrors
<1> QED
  BY <1>3, <1>5, <1>6

LEMMA VictimsAreSeparate ==
  ASSUME IInv, at = "summarising"
  PROVE  Separate(messages)
<1>1. Open /\ InLoop /\ Holds(messages)
  BY Typed, ListHolds DEF Open, InLoop, IInv
<1>2. \A y \in VictimTexts : \E i \in 1..Len(messages) : Victim(messages[i]) /\ y \in messages[i].texts
  <2>1. SUFFICES ASSUME NEW y \in VictimTexts
                 PROVE  \E i \in 1..Len(messages) : Victim(messages[i]) /\ y \in messages[i].texts
    OBVIOUS
  <2>2. PICK v \in victims : y \in v.texts
    BY DEF VictimTexts
  <2>3. PICK j \in 1..Len(toolMessages) : v = toolMessages[j]
    BY DEF IInv, ToolInv
  <2>4. PICK i \in 1..Len(messages) : messages[i] = toolMessages[j]
    <3>1. Len(messages) \in Nat /\ Len(research) \in Nat
      BY Typed DEF IInv
    <3> QED
      BY <1>1, <3>1, MirrorShows DEF IInv, MirrorInv
  <2>5. Victim(messages[i])
    BY <2>3, <2>4 DEF Victim
  <2> QED
    BY <2>2, <2>3, <2>4, <2>5
<1>3. VictimTexts \subseteq Verbatim(messages)
  BY <1>1, <1>2 DEF Holds
<1>4. ASSUME NEW i \in 1..Len(messages), Victim(messages[i])
      PROVE  messages[i].texts \subseteq VictimTexts /\ messages[i].summed = {}
  <2>1. PICK j \in 1..Len(toolMessages) : messages[i] = toolMessages[j]
    BY <1>1, <1>4, VictimsAreHandedOver
  <2> QED
    BY <1>4, <2>1, VictimsGo
<1>5. ASSUME NEW i \in 1..Len(messages), ~Victim(messages[i])
      PROVE  messages[i].texts \cap VictimTexts = {}
  <2>1. SUFFICES ASSUME NEW y \in messages[i].texts, y \in VictimTexts PROVE FALSE
    OBVIOUS
  <2>2. PICK k \in 1..Len(messages) : Victim(messages[k]) /\ y \in messages[k].texts
    BY <1>2, <2>1
  <2>3. i # k
    BY <1>5, <2>2
  <2> QED
    BY <2>1, <2>2, <2>3 DEF IInv, OnceInv, Once
<1> QED
  BY <1>3, <1>4, <1>5 DEF Separate

\* The two lists are condensed alike.
LEMMA CondensedMirrors ==
  ASSUME IInv, Open, NEW w \in Nat, NEW m, NEW f, Condensed(messages, m, f, w),
         NEW t, NEW g, Condensed(toolMessages, t, g, w)
  PROVE  Mirrors(m, t, research)
<1>1. /\ messages \in Seq(MessageSet) /\ toolMessages \in Seq(MessageSet)
      /\ Len(messages) \in Nat /\ Len(research) \in Nat
      /\ Mirrors(messages, toolMessages, research)
  BY Typed DEF IInv, MirrorInv
<1> DEFINE R == Len(research)
<1>2. R \in 0..Len(messages) /\ \A i \in 1..R : i \in 1..Len(messages) /\ ~Victim(messages[i])
  <2>1. R \in 0..Len(messages) /\ \A i \in 1..R : i \in 1..Len(messages)
    BY <1>1 DEF Mirrors
  <2>2. \A i \in 1..R : messages[i].id = 0
    BY <1>1 DEF IInv, SeenInv, Blocks, IsBlock, Mirrors
  <2> QED
    BY <2>1, <2>2, VictimIdsAreCalls
<1>3. /\ R <= Len(m) /\ \A k \in 1..R : f[k] = k /\ m[k] = messages[k]
      /\ \A k \in (R + 1)..Len(m) : f[k] \in (R + 1)..Len(messages)
  BY <1>1, <1>2, CondensedPrefix
<1>4. /\ Len(m) \in Nat /\ R \in Nat
      /\ \A k \in 1..Len(m) : f[k] \in 1..Len(messages)
      /\ \A k \in 1..Len(m) : ~Victim(messages[f[k]]) => m[k] = messages[f[k]]
      /\ \A k \in 1..Len(m) : Victim(messages[f[k]]) => m[k] = Summary(w) /\ VictimTexts # {}
      /\ \A i \in 1..Len(messages) : ~Victim(messages[i]) => \E k \in 1..Len(m) : f[k] = i
      /\ VictimTexts # {} /\ (\E i \in 1..Len(messages) : Victim(messages[i])) =>
           \E k \in 1..Len(m) : Victim(messages[f[k]])
  <2>1. Len(m) \in Nat /\ R \in Nat
    BY <1>1 DEF Condensed
  <2> QED
    BY <2>1 DEF Condensed
<1>5. /\ \A k \in 1..Len(t) : g[k] \in 1..Len(toolMessages)
      /\ \A k \in 1..Len(t) : ~Victim(toolMessages[g[k]]) => t[k] = toolMessages[g[k]]
      /\ \A k \in 1..Len(t) : Victim(toolMessages[g[k]]) => t[k] = Summary(w) /\ VictimTexts # {}
      /\ \A i \in 1..Len(toolMessages) : ~Victim(toolMessages[i]) => \E k \in 1..Len(t) : g[k] = i
      /\ VictimTexts # {} /\ (\E i \in 1..Len(toolMessages) : Victim(toolMessages[i])) =>
           \E k \in 1..Len(t) : Victim(toolMessages[g[k]])
  BY DEF Condensed
<1>6. \A k, l \in 1..Len(t) :
        g[k] = g[l] \/ (Victim(toolMessages[g[k]]) /\ Victim(toolMessages[g[l]])) => k = l
  <2>1. SUFFICES ASSUME NEW k \in 1..Len(t), NEW l \in 1..Len(t), k # l
                 PROVE  /\ g[k] # g[l]
                        /\ ~(Victim(toolMessages[g[k]]) /\ Victim(toolMessages[g[l]]))
    OBVIOUS
  <2>2. Len(t) \in Nat /\ Len(toolMessages) \in Nat
    BY <1>1 DEF Condensed
  <2>3. g[k] \in Nat /\ g[l] \in Nat /\ g[k] >= 1 /\ g[l] >= 1
    BY <1>5, <2>2
  <2>4. \A i, j \in 1..Len(t) : i < j => g[i] < g[j]
    BY DEF Condensed
  <2>5. g[k] < g[l] \/ g[l] < g[k]
    BY <2>1, <2>2, <2>4
  <2>6. \A i, j \in 1..Len(t) : Victim(toolMessages[g[i]]) /\ Victim(toolMessages[g[j]]) =>
          g[j] \notin 1..(g[i] - 1)
    BY DEF Condensed
  <2> QED
    BY <2>3, <2>5, <2>6
<1>7. /\ \A i \in 1..R : messages[i] = research[i]
      /\ \A i \in (R + 1)..Len(messages) :
           IsNudge(messages[i]) \/ \E j \in 1..Len(toolMessages) : messages[i] = toolMessages[j]
  BY <1>1 DEF Mirrors
<1>8. PICK h : Placed(toolMessages, messages, R, h)
  BY <1>1 DEF Mirrors
<1>9. /\ \A j \in 1..Len(toolMessages) :
           h[j] \in (R + 1)..Len(messages) /\ messages[h[j]] = toolMessages[j]
      /\ \A i, j \in 1..Len(toolMessages) : h[i] = h[j] => i = j
  BY <1>8 DEF Placed
<1>10. /\ \A k \in (R + 1)..Len(m) : k \in 1..Len(m)
       /\ \A i \in (R + 1)..Len(messages) : i \in 1..Len(messages) /\ i \notin 1..R
       /\ \A k \in 1..Len(m) : k \in 1..R \/ k \in (R + 1)..Len(m)
  BY <1>1, <1>4
<1> HIDE DEF R
<1>11. \A k \in 1..R : m[k] = research[k]
  BY <1>3, <1>7
<1>12. ASSUME NEW k \in (R + 1)..Len(m)
       PROVE  IsNudge(m[k]) \/ \E l \in 1..Len(t) : m[k] = t[l]
  <2>1. f[k] \in (R + 1)..Len(messages) /\ k \in 1..Len(m) /\ f[k] \in 1..Len(messages)
    BY <1>3, <1>10
  <2>2. CASE Victim(messages[f[k]])
    <3>1. m[k] = Summary(w) /\ VictimTexts # {}
      BY <1>4, <2>1, <2>2
    <3>2. \E j \in 1..Len(toolMessages) : messages[f[k]] = toolMessages[j]
      BY <2>1, <2>2, VictimsAreHandedOver
    <3>3. PICK l \in 1..Len(t) : Victim(toolMessages[g[l]])
      BY <1>5, <2>2, <3>1, <3>2
    <3> QED
      BY <1>5, <3>1, <3>3
  <2>3. CASE ~Victim(messages[f[k]])
    <3>1. m[k] = messages[f[k]]
      BY <1>4, <2>1, <2>3
    <3>2. CASE IsNudge(messages[f[k]])
      BY <3>1, <3>2
    <3>3. CASE \E j \in 1..Len(toolMessages) : messages[f[k]] = toolMessages[j]
      <4>1. PICK j \in 1..Len(toolMessages) : messages[f[k]] = toolMessages[j]
        BY <3>3
      <4>2. PICK l \in 1..Len(t) : g[l] = j
        BY <1>5, <2>3, <4>1
      <4> QED
        BY <1>5, <2>3, <3>1, <4>1, <4>2
    <3> QED
      BY <1>7, <2>1, <3>2, <3>3
  <2> QED
    BY <2>2, <2>3
\* The place of t[l]: the summary's, or where its message went.
<1> DEFINE Goes(l, k) ==
             IF Victim(toolMessages[g[l]]) THEN Victim(messages[f[k]]) ELSE f[k] = h[g[l]]
           p == [l \in 1..Len(t) |-> CHOOSE k \in (R + 1)..Len(m) : Goes(l, k)]
<1>13. ASSUME NEW l \in 1..Len(t)
       PROVE  \E k \in (R + 1)..Len(m) : Goes(l, k)
  <2> DEFINE i == h[g[l]]
  <2>1. i \in (R + 1)..Len(messages) /\ messages[i] = toolMessages[g[l]]
    BY <1>5, <1>9
  <2>2. i \in 1..Len(messages) /\ i \notin 1..R
    BY <1>10, <2>1
  <2> HIDE DEF i
  <2>3. CASE Victim(toolMessages[g[l]])
    <3>1. VictimTexts # {} /\ Victim(messages[i])
      BY <1>5, <2>1, <2>3
    <3>2. PICK k \in 1..Len(m) : Victim(messages[f[k]])
      BY <1>4, <2>2, <3>1
    <3>3. k \notin 1..R
      BY <1>2, <1>3, <3>2 DEF R
    <3> QED
      BY <1>10, <2>3, <3>2, <3>3
  <2>4. CASE ~Victim(toolMessages[g[l]])
    <3>1. ~Victim(messages[i])
      BY <2>1, <2>4
    <3>2. PICK k \in 1..Len(m) : f[k] = i
      BY <1>4, <2>2, <3>1
    <3>3. k \notin 1..R
      BY <1>3, <2>2, <3>2
    <3> QED
      BY <1>10, <2>4, <3>2, <3>3 DEF i
  <2> QED
    BY <2>3, <2>4
<1>14. ASSUME NEW l \in 1..Len(t), NEW k \in (R + 1)..Len(m), Goes(l, k)
       PROVE  /\ m[k] = t[l]
              /\ Victim(messages[f[k]]) <=> Victim(toolMessages[g[l]])
              /\ ~Victim(toolMessages[g[l]]) => f[k] = h[g[l]]
  <2>1. k \in 1..Len(m) /\ g[l] \in 1..Len(toolMessages)
    BY <1>5, <1>10
  <2>2. CASE Victim(toolMessages[g[l]])
    BY <1>4, <1>5, <1>14, <2>1, <2>2
  <2>3. CASE ~Victim(toolMessages[g[l]])
    <3>1. f[k] = h[g[l]] /\ messages[f[k]] = toolMessages[g[l]]
      BY <1>9, <1>14, <2>1, <2>3
    <3> QED
      BY <1>4, <1>5, <2>1, <2>3, <3>1
  <2> QED
    BY <2>2, <2>3
<1>15. \A l \in 1..Len(t) : p[l] \in (R + 1)..Len(m) /\ Goes(l, p[l])
  <2>1. \A l \in 1..Len(t) : p[l] = CHOOSE k \in (R + 1)..Len(m) : Goes(l, k)
    OBVIOUS
  <2> HIDE DEF p, Goes
  <2> QED
    BY <1>13, <2>1
<1>16. p \in [1..Len(t) -> {p[l] : l \in 1..Len(t)}]
  OBVIOUS
<1> HIDE DEF p, Goes
<1>17. \A k, l \in 1..Len(t) : p[k] = p[l] => k = l
  <2>1. SUFFICES ASSUME NEW k \in 1..Len(t), NEW l \in 1..Len(t), p[k] = p[l] PROVE k = l
    OBVIOUS
  <2>2. /\ Victim(messages[f[p[k]]]) <=> Victim(toolMessages[g[k]])
        /\ Victim(messages[f[p[l]]]) <=> Victim(toolMessages[g[l]])
        /\ ~Victim(toolMessages[g[k]]) => f[p[k]] = h[g[k]]
        /\ ~Victim(toolMessages[g[l]]) => f[p[l]] = h[g[l]]
    BY <1>14, <1>15
  <2>3. g[k] \in 1..Len(toolMessages) /\ g[l] \in 1..Len(toolMessages)
    BY <1>5
  <2>4. g[k] = g[l] \/ (Victim(toolMessages[g[k]]) /\ Victim(toolMessages[g[l]]))
    BY <1>9, <2>1, <2>2, <2>3
  <2> QED
    BY <1>6, <2>4
<1>18. Placed(t, m, R, p)
  <2>1. p \in [1..Len(t) -> (R + 1)..Len(m)]
    BY <1>15, <1>16
  <2>2. \A l \in 1..Len(t) : m[p[l]] = t[l]
    BY <1>14, <1>15
  <2> QED
    BY <1>17, <2>1, <2>2 DEF Placed
<1> QED
  BY <1>3, <1>11, <1>12, <1>18 DEF Mirrors, R

LEMMA SummariseInv ==
  ASSUME IInv, Summarise
  PROVE  IInv'
<1>1. /\ at = "summarising" /\ shown' = shown \ VictimTexts /\ victims' = {} /\ projected' = 0
      /\ UNCHANGED <<turn, todo, used, ran, repeats, fresh, found, session>>
  BY DEF Summarise
<1>0. PICK w \in Summaries : \E r \in Reclaimed(w) :
        /\ messages' = Condense(messages, w) /\ toolMessages' = Condense(toolMessages, w)
        /\ GoOn(projected, r)
  BY DEF Summarise
<1>2. PICK r \in Reclaimed(w) :
        /\ messages' = Condense(messages, w) /\ toolMessages' = Condense(toolMessages, w)
        /\ GoOn(projected, r)
  BY <1>0
<1>3. /\ TypeOK /\ RunInv /\ ToolInv /\ MirrorInv /\ SeenInv /\ FoundInv /\ ShownInv
      /\ OnceInv /\ SizeInv /\ WithinWindow /\ InLoop /\ Open
  BY <1>1 DEF IInv, InLoop, Open
<1>4. /\ messages \in Seq(MessageSet) /\ toolMessages \in Seq(MessageSet)
      /\ victims \subseteq MessageSet
  BY <1>3, Typed
<1>5. w \in Nat /\ w <= Longest
  BY Budgets, SummaryAssumption DEF Summaries
<1>6. PICK f : Condensed(messages, messages', f, w)
  BY <1>2, <1>4, <1>5, CondenseShape
<1>7. PICK g : Condensed(toolMessages, toolMessages', g, w)
  BY <1>2, <1>4, <1>5, CondenseShape
<1>8. messages' \in Seq(MessageSet) /\ toolMessages' \in Seq(MessageSet)
  BY <1>6, <1>7 DEF Condensed
<1>9. Separate(messages)
  BY <1>1, VictimsAreSeparate
<1>10. Once(messages')
  BY <1>3, <1>4, <1>5, <1>6, CondensedOnce DEF OnceInv
<1> DEFINE V == Removed
<1>11. /\ V \in Nat /\ Size(messages) \in Nat /\ Size(messages') \in Nat
       /\ Size(messages') + V <= Size(messages) + w
  <2>1. V = SizeAt(messages, VictimsAt(messages))
    BY DEF Removed, VictimsAt
  <2> QED
    BY <1>4, <1>5, <1>6, <2>1, CondensedSize
<1>12. r \in Nat /\ (r = 0 \/ r + w <= V + Error) /\ V <= r + w + Error
  <2>1. V + Error \in Nat
    BY <1>11, Budgets
  <2> QED
    BY <2>1 DEF Reclaimed
<1> HIDE DEF V
<1>13. todo = <<>> /\ projected \in Projected
  BY <1>1, <1>3 DEF SizeInv
<1>14. projected \in Nat /\ talk \in Nat /\ talk + Size(messages) <= projected + Error
  <2>1. \A q \in Projected : q \in Nat /\ talk + Size(messages) <= q + Error
    BY <1>1, <1>13, Accounts
  <2> QED
    BY <1>3, <1>13, <2>1, Typed
<1>15. /\ at' \in {"thinking", "answering"} /\ round' \in 1..MaxRounds
       /\ at' = "thinking" => projected < HardAt + r
  BY <1>1, <1>2, <1>12, <1>14, GoesOn
<1>16. at' = "thinking" => talk + Counted(messages') < HardAt + Slack
  <2>1. SUFFICES ASSUME projected < HardAt + r
                 PROVE  talk + Counted(messages') < HardAt + Slack
    BY <1>15
  <2>2. talk + Size(messages') + V <= projected + Error + w
    BY <1>5, <1>11, <1>14, Budgets
  <2>5. Counted(messages') \in Nat /\ Counted(messages') <= Size(messages') /\ Size(messages') \in Nat
    BY <1>8, CountedIsPart
  <2>6. Slack \in Nat /\ Error + Longest <= Slack /\ Error + Error <= Slack
    BY SlackIs, Budgets
  <2>3. CASE r = 0
    <3>1. talk + Size(messages') < HardAt + Error + Longest
      BY <1>5, <1>11, <1>12, <1>14, <2>1, <2>2, <2>3, Budgets
    <3> QED
      BY <1>14, <2>5, <2>6, <3>1, Budgets
  <2>4. CASE r + w <= V + Error
    <3>1. talk + Size(messages') < HardAt + Error + Error
      BY <1>5, <1>11, <1>12, <1>14, <2>1, <2>2, <2>4, Budgets
    <3> QED
      BY <1>14, <2>5, <2>6, <3>1, Budgets
  <2> QED
    BY <1>12, <2>3, <2>4
<1> USE DEF session
<1>17. TypeOK'
  <2>1. shown' \subseteq Texts
    BY <1>1, <1>3 DEF TypeOK
  <2> QED
    BY <1>1, <1>3, <1>8, <1>15, <2>1, Budgets DEF TypeOK
<1>18. RunInv'
  BY <1>1, <1>3, <1>15, Budgets DEF RunInv, Running
<1>19. /\ Summary(w).kind = "condensed" /\ Summary(w).id = 0 /\ Summary(w).texts = {}
       /\ Summary(w).summed = VictimTexts
  BY <1>4, <1>5, SummaryIsMessage
<1>20. Tools(toolMessages', Cardinality(ran') + repeats')
  <2> DEFINE n == Cardinality(ran) + repeats
  <2>1. n \in Nat /\ Tools(toolMessages, n)
    BY <1>3, FS_CardinalityType, Typed DEF RunInv, ToolInv
  <2>2. Cardinality(ran') + repeats' = n
    BY <1>1
  <2> HIDE DEF n
  <2>3. IsTool(Summary(w)) /\ Summary(w).id <= n
    BY <1>19, <2>1 DEF IsTool
  <2>4. \A k \in 1..Len(toolMessages') :
          toolMessages'[k] = Summary(w) \/ \E j \in 1..Len(toolMessages) : toolMessages'[k] = toolMessages[j]
    BY <1>7 DEF Condensed
  <2>5. \A k \in 1..Len(toolMessages') : IsTool(toolMessages'[k]) /\ toolMessages'[k].id <= n
    BY <2>1, <2>3, <2>4 DEF Tools
  <2>6. \A k \in 1..Len(toolMessages') : toolMessages'[k].kind = "result" =>
          \E j \in 1..Len(toolMessages) : toolMessages'[k] = toolMessages[j]
    BY <1>19, <2>4
  <2>7. \A k, l \in 1..Len(toolMessages') :
          toolMessages'[k].kind = "result" /\ toolMessages'[l].kind = "result"
            /\ toolMessages'[k].id = toolMessages'[l].id => toolMessages'[k] = toolMessages'[l]
    <3>1. SUFFICES ASSUME NEW k \in 1..Len(toolMessages'), NEW l \in 1..Len(toolMessages'),
                          toolMessages'[k].kind = "result", toolMessages'[l].kind = "result",
                          toolMessages'[k].id = toolMessages'[l].id
                   PROVE  toolMessages'[k] = toolMessages'[l]
      OBVIOUS
    <3>2. PICK i \in 1..Len(toolMessages) : toolMessages'[k] = toolMessages[i]
      BY <2>6, <3>1
    <3>3. PICK j \in 1..Len(toolMessages) : toolMessages'[l] = toolMessages[j]
      BY <2>6, <3>1
    <3> QED
      BY <2>1, <3>1, <3>2, <3>3 DEF Tools
  <2> QED
    BY <2>2, <2>5, <2>7 DEF Tools
<1>21. ToolInv'
  <2>1. Answered(messages') /\ Answered(toolMessages')
    BY <1>3, <1>4, <1>5, <1>6, <1>7, CondensedAnswered DEF ToolInv
  <2> QED
    BY <1>1, <1>20, <2>1 DEF ToolInv
<1>22. MirrorInv'
  <2>1. Mirrors(messages', toolMessages', research)
    BY <1>3, <1>5, <1>6, <1>7, CondensedMirrors
  <2> QED
    BY <1>1, <2>1 DEF MirrorInv
<1>23. SeenInv' /\ OnceInv'
  BY <1>1, <1>3, <1>10 DEF SeenInv, OnceInv
<1>24. FoundInv'
  <2>1. Holds(toolMessages)
    BY <1>4, ListHolds
  <2>2. /\ \A x : x \in Verbatim(toolMessages') <=>
             \E i \in 1..Len(toolMessages) : ~Victim(toolMessages[i]) /\ x \in toolMessages[i].texts
        /\ \A x : x \in Summed(toolMessages') <=>
             \/ \E i \in 1..Len(toolMessages) : ~Victim(toolMessages[i]) /\ x \in toolMessages[i].summed
             \/ x \in VictimTexts /\ \E i \in 1..Len(toolMessages) : Victim(toolMessages[i])
    BY <1>4, <1>5, <1>7, CondensedHolds
  <2>3. Verbatim(toolMessages) \subseteq Kept(toolMessages')
    <3>1. SUFFICES ASSUME NEW x \in Verbatim(toolMessages) PROVE x \in Kept(toolMessages')
      OBVIOUS
    <3>2. PICK i \in 1..Len(toolMessages) : x \in toolMessages[i].texts
      BY <2>1 DEF Holds
    <3>3. CASE Victim(toolMessages[i])
      BY <2>2, <3>2, <3>3, VictimsGo DEF Kept
    <3>4. CASE ~Victim(toolMessages[i])
      BY <2>2, <3>2, <3>4 DEF Kept
    <3> QED
      BY <3>3, <3>4
  <2>4. Summed(toolMessages) \subseteq Kept(toolMessages')
    <3>1. SUFFICES ASSUME NEW x \in Summed(toolMessages) PROVE x \in Kept(toolMessages')
      OBVIOUS
    <3>2. PICK i \in 1..Len(toolMessages) : x \in toolMessages[i].summed
      BY <2>1 DEF Holds
    <3>3. ~Victim(toolMessages[i])
      BY <3>2, VictimsGo
    <3> QED
      BY <2>2, <3>2, <3>3 DEF Kept
  <2>5. found \subseteq Kept(toolMessages) \cup seen
    BY <1>1, <1>3 DEF FoundInv, Running
  <2>6. found' \subseteq Kept(toolMessages') \cup seen'
    BY <1>1, <2>3, <2>4, <2>5 DEF Kept
  <2> QED
    BY <2>6 DEF FoundInv
<1>25. ShownInv'
  <2>1. /\ \A x \in Texts : x \in shown <=>
             x \in seen \/ \E i \in 1..Len(messages) : messages[i].kind = "result" /\ x \in messages[i].texts
        /\ \A i \in 1..Len(messages) : messages[i].kind = "result" => messages[i].texts \cap seen = {}
    BY <1>3 DEF ShownInv
  <2>2. /\ \A i \in 1..Len(messages) : Victim(messages[i]) => messages[i].texts \subseteq VictimTexts
        /\ \A i \in 1..Len(messages) : ~Victim(messages[i]) => messages[i].texts \cap VictimTexts = {}
    BY <1>9 DEF Separate
  <2>3. /\ \A k \in 1..Len(messages') : f[k] \in 1..Len(messages)
        /\ \A k \in 1..Len(messages') : messages'[k].kind = "result" =>
             ~Victim(messages[f[k]]) /\ messages'[k] = messages[f[k]]
        /\ \A i \in 1..Len(messages) : ~Victim(messages[i]) =>
             \E k \in 1..Len(messages') : f[k] = i /\ messages'[k] = messages[i]
    <3>1. /\ f \in [1..Len(messages') -> 1..Len(messages)]
          /\ \A k \in 1..Len(messages') : ~Victim(messages[f[k]]) => messages'[k] = messages[f[k]]
          /\ \A k \in 1..Len(messages') : Victim(messages[f[k]]) => messages'[k] = Summary(w)
          /\ \A i \in 1..Len(messages) :
               ~Victim(messages[i]) => \E k \in 1..Len(messages') : f[k] = i
      BY <1>6 DEF Condensed
    <3>2. \A k \in 1..Len(messages') : f[k] \in 1..Len(messages)
      BY <3>1
    <3>3. \A k \in 1..Len(messages') : messages'[k].kind = "result" =>
            ~Victim(messages[f[k]]) /\ messages'[k] = messages[f[k]]
      BY <1>19, <3>1
    <3>4. \A i \in 1..Len(messages) : ~Victim(messages[i]) =>
            \E k \in 1..Len(messages') : f[k] = i /\ messages'[k] = messages[i]
      BY <3>1
    <3> QED
      BY <3>2, <3>3, <3>4
  <2>4. VictimTexts \cap seen = {}
    <3>1. SUFFICES ASSUME NEW v \in victims PROVE v.texts \cap seen = {}
      BY DEF VictimTexts
    <3>2. PICK j \in 1..Len(toolMessages) : v = toolMessages[j] /\ v.kind = "result"
      BY <1>3 DEF ToolInv
    <3>3. Len(messages) \in Nat /\ Len(research) \in Nat
      BY <1>3, Typed
    <3>4. Mirrors(messages, toolMessages, research)
      BY <1>3 DEF MirrorInv
    <3>5. PICK i \in 1..Len(messages) : messages[i] = toolMessages[j]
      BY <3>2, <3>3, <3>4, MirrorShows
    <3> QED
      BY <2>1, <3>2, <3>5
  <2>5. ASSUME NEW x \in Texts
        PROVE  x \in shown' <=>
                 \/ x \in seen
                 \/ \E k \in 1..Len(messages') : messages'[k].kind = "result" /\ x \in messages'[k].texts
    <3>1. ASSUME x \in shown', x \notin seen
          PROVE  \E k \in 1..Len(messages') : messages'[k].kind = "result" /\ x \in messages'[k].texts
      <4>1. x \in shown /\ x \notin VictimTexts
        BY <1>1, <3>1
      <4>2. PICK i \in 1..Len(messages) : messages[i].kind = "result" /\ x \in messages[i].texts
        BY <2>1, <3>1, <4>1
      <4>3. ~Victim(messages[i])
        BY <2>2, <4>1, <4>2
      <4> QED
        BY <2>3, <4>2, <4>3
    <3>2. x \in seen => x \in shown'
      BY <1>1, <2>1, <2>4
    <3>3. ASSUME NEW k \in 1..Len(messages'), messages'[k].kind = "result", x \in messages'[k].texts
          PROVE  x \in shown'
      <4>1. f[k] \in 1..Len(messages) /\ ~Victim(messages[f[k]]) /\ messages'[k] = messages[f[k]]
        BY <2>3, <3>3
      <4>2. x \in shown /\ x \notin VictimTexts
        BY <2>1, <2>2, <3>3, <4>1
      <4> QED
        BY <1>1, <4>2
    <3> QED
      BY <3>1, <3>2, <3>3
  <2>6. \A k \in 1..Len(messages') : messages'[k].kind = "result" => messages'[k].texts \cap seen = {}
    BY <2>1, <2>3
  <2> QED
    BY <1>1, <2>5, <2>6 DEF ShownInv
<1>26. SizeInv'
  BY <1>1, <1>3, <1>15 DEF SizeInv
<1>27. WithinWindow'
  BY <1>1, <1>16 DEF WithinWindow
<1> QED
  BY <1>17, <1>18, <1>21, <1>22, <1>23, <1>24, <1>25, <1>26, <1>27 DEF IInv

-----------------------------------------------------------------------------
(* A run begins, hands over what it found, and ends.                       *)

\* What a run begins with: the session's research, and a notice if that is large.
Begins(base, r) ==
  /\ base \in Seq(MessageSet) /\ Mirrors(base, <<>>, r) /\ Answered(base) /\ Once(base)
  /\ \A i \in 1..Len(base) : base[i].kind # "result"
  /\ Counted(base) \in Nat /\ Counted(base) <= Size(r)

LEMMA RunBegins ==
  ASSUME NEW r \in Seq(MessageSet), Blocks(r), Once(r)
  PROVE  Begins(r, r) /\ Begins(Append(r, Nudge), r)
<1> DEFINE u == Append(r, Nudge)
<1>1. Len(r) \in Nat /\ Size(r) \in Nat /\ Counted(r) \in Nat /\ Counted(r) <= Size(r)
  BY CountedIsPart
<1>2. \A i \in 1..Len(r) : r[i].kind = "research"
  BY DEF Blocks, IsBlock
<1>3. Mirrors(r, <<>>, r)
  <2> DEFINE h == [l \in 1..Len(<<>>) |-> l]
  <2>1. Len(<<>>) = 0 /\ \A l \in 1..Len(<<>>) : FALSE
    OBVIOUS
  <2>2. Placed(<<>>, r, Len(r), h)
    BY <2>1 DEF Placed
  <2> HIDE DEF h
  <2>3. \A i \in (Len(r) + 1)..Len(r) : FALSE
    BY <1>1
  <2> QED
    BY <1>1, <2>2, <2>3 DEF Mirrors
<1>4. Answered(r)
  BY <1>2 DEF Answered
<1>5. Begins(r, r)
  BY <1>1, <1>2, <1>3, <1>4 DEF Begins
<1>6. Extends1(r, u, Nudge) /\ u \in Seq(MessageSet)
  BY NudgeIsMessage, AppendExtends DEF Extends1
<1> HIDE DEF u
<1>7. Mirrors(u, <<>>, r) /\ Answered(u) /\ Counted(u) = Counted(r)
  BY <1>3, <1>4, <1>6, MirrorsNudged, ExtendedAnswered1, NudgeIsNotCounted, NudgeIsMessage
<1>8. Once(u)
  BY <1>6, NudgeIsMessage, OnceExtends1
<1>9. \A i \in 1..Len(u) : u[i].kind # "result"
  <2>1. \A i \in 1..Len(u) : i \in 1..Len(r) \/ i = Len(r) + 1
    BY <1>1, <1>6 DEF Extends1
  <2> QED
    BY <1>2, <1>6, <2>1, NudgeIsMessage DEF Extends1
<1>10. Begins(u, r)
  BY <1>1, <1>6, <1>7, <1>8, <1>9 DEF Begins
<1> QED
  BY <1>5, <1>10 DEF u

LEMMA BeginInv ==
  ASSUME IInv, Begin
  PROVE  IInv'
<1>1. /\ at = "idle" /\ turn <= MaxTurns /\ round' = 1 /\ talk' = talk + Wording
      /\ at' = IF lastContext < HardAt THEN "thinking" ELSE "answering"
      /\ UNCHANGED <<turn, todo, used, research, seen, lastContext, learned, unrecorded>>
  BY DEF Begin
<1>2. /\ messages' = research \/ messages' = Append(research, Nudge)
      /\ toolMessages' = <<>> /\ shown' = seen /\ ran' = {} /\ repeats' = 0 /\ fresh' = 0
      /\ victims' = {} /\ projected' = 0 /\ found' = {}
  BY DEF Begin, Locals
<1>3. TypeOK /\ RunInv /\ SeenInv /\ OnceInv /\ SizeInv
  BY DEF IInv
<1>4. research \in Seq(MessageSet) /\ lastContext \in Nat /\ talk \in Nat
  BY <1>3, Typed
<1>5. at' \in {"thinking", "answering"}
  BY <1>1
<1>6. Begins(messages', research)
  BY <1>2, <1>3, <1>4, RunBegins DEF SeenInv, OnceInv
<1>7. TypeOK'
  <2>1. shown' \subseteq Texts /\ found' \subseteq Texts /\ ran' \subseteq Searches /\ victims' \subseteq MessageSet
    BY <1>2, <1>3 DEF TypeOK
  <2>2. {messages', toolMessages', research'} \subseteq Seq(MessageSet)
    BY <1>1, <1>2, <1>4, <1>6, EmptyList DEF Begins
  <2>3. {repeats', fresh', used', projected', talk', lastContext'} \subseteq Nat
    BY <1>1, <1>2, <1>3, <1>4, Typed, Budgets
  <2>4. round' \in 0..MaxRounds
    BY <1>1, Budgets
  <2>5. /\ turn' \in 0..(MaxTurns + 1) /\ todo' \in Seq(Searches) /\ seen' \subseteq Texts
        /\ learned' \subseteq Texts /\ unrecorded' \in BOOLEAN
    BY <1>1, <1>3 DEF TypeOK
  <2>6. at' \in {"idle", "thinking", "calling", "summarising", "answering", "writing", "posted"}
    BY <1>5
  <2> QED
    BY <2>1, <2>2, <2>3, <2>4, <2>5, <2>6 DEF TypeOK
<1>8. RunInv'
  BY <1>1, <1>2, <1>3, <1>5, FS_EmptySet DEF RunInv, Running
<1>9. ToolInv'
  <2>1. Answered(toolMessages') /\ Tools(toolMessages', Cardinality(ran') + repeats')
    BY <1>2, EmptyList
  <2> QED
    BY <1>2, <1>6, <2>1 DEF ToolInv, Begins
<1>10. MirrorInv'
  BY <1>1, <1>2, <1>6 DEF MirrorInv, Begins
<1>11. SeenInv' /\ OnceInv'
  BY <1>1, <1>3, <1>6 DEF SeenInv, OnceInv, Begins
<1>12. FoundInv'
  BY <1>2 DEF FoundInv
<1>13. ShownInv'
  BY <1>1, <1>2, <1>6 DEF ShownInv, Begins
<1>14. SizeInv'
  BY <1>5 DEF SizeInv
<1>15. WithinWindow'
  <2>1. SUFFICES ASSUME at' = "thinking", toolMessages' # <<>> \/ ~unrecorded'
                 PROVE  talk' + Counted(messages') < HardAt + Slack
    BY DEF WithinWindow
  <2>2. ~unrecorded /\ lastContext < HardAt
    BY <1>1, <1>2, <2>1
  <2>3. talk + Size(research) <= lastContext + Larger(Error, Longest)
    BY <1>1, <1>3, <2>2 DEF SizeInv
  <2>4. /\ Counted(messages') \in Nat /\ Counted(messages') <= Size(research)
        /\ Size(research) \in Nat
    BY <1>4, <1>6, CountedIsPart DEF Begins
  <2>5. /\ Larger(Error, Longest) \in Nat /\ Larger(Error, Wording) \in Nat
        /\ Wording <= Larger(Error, Wording)
        /\ Slack = Larger(Error, Wording) + Larger(Error, Longest)
    BY SlackIs
  <2> DEFINE c == Counted(messages')
             z == Size(research)
             d == Larger(Error, Longest)
             e == Larger(Error, Wording)
  <2>6. /\ c \in Nat /\ z \in Nat /\ d \in Nat /\ e \in Nat /\ c <= z /\ Wording <= e
        /\ talk + z <= lastContext + d /\ Slack = e + d
    BY <2>3, <2>4, <2>5
  <2> HIDE DEF c, z, d, e
  <2>7. talk + Wording + c < HardAt + Slack
    BY <1>4, <2>2, <2>6, Budgets
  <2> QED
    BY <1>1, <2>7 DEF c
<1> QED
  BY <1>7, <1>8, <1>9, <1>10, <1>11, <1>12, <1>13, <1>14, <1>15 DEF IInv

LEMMA RenderedIsMessage ==
  ASSUME TypeOK, NEW keys
  PROVE  /\ Rendered(keys) \in MessageSet /\ Rendered(keys).kind = "research" /\ Rendered(keys).id = 0
         /\ Rendered(keys).texts = Verbatim(toolMessages) \ keys
         /\ Rendered(keys).summed = Summed(toolMessages)
         /\ Rendered(keys).length = SizeAt(toolMessages, Places(toolMessages, "condensed"))
<1>1. toolMessages \in Seq(MessageSet) /\ Holds(toolMessages)
  BY Typed, ListHolds
<1>2. Verbatim(toolMessages) \ keys \subseteq Texts /\ Summed(toolMessages) \subseteq Texts
  BY <1>1 DEF Holds
<1> DEFINE n == SizeAt(toolMessages, Places(toolMessages, "condensed"))
<1>3. n \in Nat
  <2>1. Places(toolMessages, "condensed") \in SUBSET (1..Len(toolMessages))
    BY DEF Places
  <2> QED
    BY <1>1, <2>1, SizeOfPart
<1> HIDE DEF n
<1>4. Rendered(keys) = Message("research", 0, Verbatim(toolMessages) \ keys, Summed(toolMessages), n)
  BY DEF Rendered, n
<1> QED
  BY <1>2, <1>3, <1>4 DEF Message, MessageSet, n

\* The session takes over what the run has found.
LEMMA AppendKeeps ==
  ASSUME IInv, Running, AppendResearch
  PROVE  /\ research' \in Seq(MessageSet) /\ seen' \subseteq Texts /\ learned' \subseteq Texts
         /\ SeenInv' /\ Once(research') /\ seen \subseteq seen'
         /\ Size(research') <= Size(research) + SizeOf(Rendered(seen))
<1> DEFINE block == Rendered(seen)
<1>1. /\ research' = (IF block.texts = {} /\ block.summed = {} THEN research
                      ELSE Append(research, block))
      /\ seen' = seen \cup block.texts /\ learned' = learned \cup found
  BY DEF AppendResearch
<1>2. /\ block \in MessageSet /\ block.kind = "research" /\ block.id = 0
      /\ block.texts = Verbatim(toolMessages) \ seen /\ block.summed = Summed(toolMessages)
  BY RenderedIsMessage DEF IInv
<1> HIDE DEF block
<1>3. TypeOK /\ SeenInv /\ OnceInv /\ FoundInv
  BY DEF IInv
<1>4. research \in Seq(MessageSet) /\ Once(research) /\ Size(research) \in Nat /\ Len(research) \in Nat
  BY <1>3, Typed, CountedIsPart DEF OnceInv
<1>5. SizeOf(block) \in Nat
  BY <1>2, SizeOfMessage
<1>6. block.texts \subseteq Texts
  BY <1>2 DEF MessageSet
<1>7. seen' \subseteq Texts /\ learned' \subseteq Texts
  BY <1>1, <1>3, <1>6 DEF TypeOK
<1>8. found \subseteq Verbatim(toolMessages) \cup Summed(toolMessages) \cup seen
  BY <1>3 DEF FoundInv, Kept
<1>9. CASE block.texts = {} /\ block.summed = {}
  <2>1. research' = research /\ seen' = seen
    BY <1>1, <1>9
  <2>2. found \subseteq seen
    BY <1>2, <1>8, <1>9
  <2>3. SeenInv'
    BY <1>1, <1>3, <2>1, <2>2 DEF SeenInv
  <2> QED
    BY <1>4, <1>5, <1>7, <2>1, <2>3 DEF block
<1>10. CASE ~(block.texts = {} /\ block.summed = {})
  <2>1. research' = Append(research, block)
    BY <1>1, <1>10
  <2>2. Extends1(research, research', block)
    BY <1>2, <1>4, <2>1, AppendExtends
  <2>3. /\ research' \in Seq(MessageSet) /\ Len(research') = Len(research) + 1
        /\ \A i \in 1..Len(research) : research'[i] = research[i]
        /\ research'[Len(research) + 1] = block
    BY <2>2 DEF Extends1
  <2>4. block.texts \cap Verbatim(research) = {}
    BY <1>2, <1>3 DEF SeenInv
  <2>5. Once(research') /\ Size(research') = Size(research) + SizeOf(block)
    BY <1>2, <1>4, <2>2, <2>4, SizeExtends1, OnceExtends1
  <2>6. Verbatim(research') = Verbatim(research) \cup block.texts
        /\ Summed(research') = Summed(research) \cup block.summed
    BY <1>2, <1>4, <2>2, Extends1Holds
  <2>7. Blocks(research')
    <3>1. IsBlock(block)
      BY <1>2, <1>10 DEF IsBlock
    <3>2. \A i \in 1..Len(research') : i \in 1..Len(research) \/ i = Len(research) + 1
      BY <1>4, <2>3
    <3> QED
      BY <1>3, <2>3, <3>1, <3>2 DEF SeenInv, Blocks
  <2>8. Verbatim(research') \subseteq seen' /\ seen' \subseteq Kept(research')
    BY <1>1, <1>3, <2>6 DEF SeenInv, Kept
  <2>9. learned' \subseteq Kept(research')
    BY <1>1, <1>2, <1>3, <1>8, <2>6 DEF SeenInv, Kept
  <2>10. SeenInv'
    BY <2>7, <2>8, <2>9 DEF SeenInv
  <2>11. Size(research') <= Size(research) + SizeOf(block)
    BY <1>4, <1>5, <2>5
  <2>12. seen \subseteq seen'
    BY <1>1
  <2> QED
    BY <1>7, <2>3, <2>5, <2>10, <2>11, <2>12 DEF block
<1> QED
  BY <1>9, <1>10

\* A run is over, and the session is in order.
LEMMA OverInv ==
  ASSUME Over, at' \in {"idle", "posted"}, turn' \in 0..(MaxTurns + 1),
         turn' = 0 => research' = <<>>,
         lastContext' \in Nat, talk' \in Nat, unrecorded' \in BOOLEAN,
         research' \in Seq(MessageSet), seen' \subseteq Texts, learned' \subseteq Texts,
         SeenInv', Once(research'),
         at' = "posted" => talk' + Size(research') <= lastContext',
         at' = "idle" /\ ~unrecorded' =>
           talk' + Size(research') <= lastContext' + Larger(Error, Longest)
  PROVE  IInv'
<1>1. /\ messages' = <<>> /\ toolMessages' = <<>> /\ shown' = {} /\ ran' = {} /\ repeats' = 0
      /\ fresh' = 0 /\ victims' = {} /\ projected' = 0 /\ found' = {} /\ round' = 0
      /\ todo' = <<>> /\ used' = 0
  BY DEF Over, Locals
<1>2. TypeOK'
  <2>1. todo' \in Seq(Searches) /\ {messages', toolMessages', research'} \subseteq Seq(MessageSet)
    BY <1>1
  <2>2. round' \in 0..MaxRounds
    BY <1>1, Budgets
  <2>3. {repeats', fresh', used', projected', talk', lastContext'} \subseteq Nat
    BY <1>1
  <2>4. /\ shown' \subseteq Texts /\ found' \subseteq Texts /\ ran' \subseteq Searches
        /\ victims' \subseteq MessageSet
    BY <1>1
  <2>5. at' \in {"idle", "thinking", "calling", "summarising", "answering", "writing", "posted"}
    OBVIOUS
  <2> QED
    BY <2>1, <2>2, <2>3, <2>4, <2>5 DEF TypeOK
<1>3. RunInv'
  BY <1>1, FS_EmptySet DEF RunInv, Running
<1>4. ToolInv'
  <2>1. /\ Answered(messages') /\ Answered(toolMessages')
        /\ Tools(toolMessages', Cardinality(ran') + repeats')
    BY <1>1, EmptyList
  <2> QED
    BY <1>1, <2>1 DEF ToolInv
<1>5. MirrorInv' /\ FoundInv' /\ ShownInv' /\ WithinWindow'
  BY DEF MirrorInv, FoundInv, ShownInv, WithinWindow, Open, InLoop, Running
<1>6. OnceInv'
  BY <1>1, EmptyList DEF OnceInv
<1>7. SizeInv'
  BY DEF SizeInv
<1> QED
  BY <1>2, <1>3, <1>4, <1>5, <1>6, <1>7 DEF IInv

LEMMA FailInv ==
  ASSUME IInv, Fail
  PROVE  IInv'
<1>1. /\ at \in {"thinking", "writing", "summarising"} /\ at' = "idle" /\ Over
      /\ turn' = (IF turn = 0 THEN 0 ELSE turn + 1) /\ talk' = (IF turn = 0 THEN 0 ELSE talk)
      /\ unrecorded' = (turn > 0)
      /\ UNCHANGED <<research, seen, lastContext, learned>>
  BY DEF Fail, AsksForSummary
<1>2. /\ TypeOK /\ RunInv /\ SeenInv /\ OnceInv
  BY DEF IInv
<1>3. turn \in Nat /\ turn <= MaxTurns
  BY <1>1, <1>2, Budgets DEF RunInv, Running, TypeOK
<1>4. turn' \in 0..(MaxTurns + 1) /\ (turn' = 0 => turn = 0)
  BY <1>1, <1>3, Budgets
<1>5. unrecorded' \in BOOLEAN /\ (turn' = 0 => research' = <<>>)
  BY <1>1, <1>2, <1>4 DEF RunInv
<1>6. /\ research' \in Seq(MessageSet) /\ lastContext' \in Nat /\ talk' \in Nat
      /\ seen' \subseteq Texts /\ learned' \subseteq Texts
  BY <1>1, <1>2, Typed DEF TypeOK
<1>7. ~unrecorded' => talk' + Size(research') <= lastContext' + Larger(Error, Longest)
  <2>1. SUFFICES ASSUME ~unrecorded'
                 PROVE  talk' + Size(research') <= lastContext' + Larger(Error, Longest)
    OBVIOUS
  <2>5. ~(turn > 0)
    BY <1>1, <2>1
  <2>2. turn = 0
    BY <1>3, <2>5
  <2>3. research' = <<>> /\ talk' = 0
    BY <1>1, <1>2, <2>2 DEF RunInv
  <2>4. Size(research') = 0
    BY <2>3, EmptyList
  <2> QED
    BY <1>6, <2>3, <2>4, SlackIs
<1>8. SeenInv' /\ Once(research')
  BY <1>1, <1>2 DEF SeenInv, OnceInv
<1>9. at' = "idle"
  BY <1>1
<1> QED
  BY <1>1, <1>4, <1>5, <1>6, <1>7, <1>8, <1>9, OverInv

\* What the session takes over is no larger than what the run handed over,
LEMMA RenderedFits ==
  ASSUME IInv
  PROVE  SizeOf(Rendered(seen)) \in Nat /\ SizeOf(Rendered(seen)) <= Size(toolMessages)
<1> DEFINE t == toolMessages
           C == Places(t, "condensed")
           K == (1..Len(t)) \ C
           F == [i \in K |-> t[i].texts]
           u == [i \in K |-> SizeOf(t[i])]
<1>1. t \in Seq(MessageSet) /\ Holds(t) /\ C \in SUBSET (1..Len(t)) /\ K \in SUBSET (1..Len(t))
  BY Typed, ListHolds DEF IInv, Places
<1>2. /\ SizeAt(t, C) \in Nat /\ SizeAt(t, K) \in Nat
      /\ Size(t) = SizeAt(t, C) + SizeAt(t, K)
  <2>1. C \cap K = {} /\ C \cup K = 1..Len(t)
    BY <1>1
  <2> HIDE DEF t, C, K
  <2> QED
    BY <1>1, <2>1, SizeApart DEF Size
<1>3. /\ IsFiniteSet(K) /\ \A i \in K :
         IsFiniteSet(F[i]) /\ u[i] \in Nat /\ Cardinality(F[i]) <= u[i]
  <2>1. IsFiniteSet(K)
    BY <1>1, PlacesAreFinite
  <2>2. SUFFICES ASSUME NEW i \in K
                 PROVE  IsFiniteSet(F[i]) /\ u[i] \in Nat /\ Cardinality(F[i]) <= u[i]
    BY <2>1
  <2>3. t[i] \in MessageSet /\ F[i] = t[i].texts /\ u[i] = SizeOf(t[i])
    BY <1>1
  <2> HIDE DEF t, K, F, u
  <2>4. /\ IsFiniteSet(t[i].texts) /\ Cardinality(t[i].texts) \in Nat /\ t[i].length \in Nat
        /\ SizeOf(t[i]) = Cardinality(t[i].texts) + t[i].length
    BY <2>3, SizeOfMessage
  <2> QED
    BY <2>3, <2>4
<1>4. Verbatim(t) = UNION {F[i] : i \in K}
  <2>1. SUFFICES ASSUME NEW x \in Verbatim(t) PROVE \E i \in K : x \in F[i]
    BY <1>1 DEF Verbatim
  <2>2. PICK i \in 1..Len(t) : x \in t[i].texts
    BY <1>1 DEF Holds
  <2>3. t[i].kind # "condensed"
    BY <2>2 DEF IInv, ToolInv, Tools, IsTool
  <2> QED
    BY <2>2, <2>3 DEF Places
<1>5. SizeAt(t, K) = Total(K, u)
  BY DEF SizeAt
<1> HIDE DEF K, F, u, C
<1>6. Cardinality(UNION {F[i] : i \in K}) <= Total(K, u)
  BY <1>3, TotalCovers
<1>7. /\ Rendered(seen) \in MessageSet /\ Rendered(seen).texts = Verbatim(t) \ seen
      /\ Rendered(seen).length = SizeAt(t, C)
  BY RenderedIsMessage DEF IInv, C
<1>8. /\ SizeOf(Rendered(seen)) \in Nat /\ Cardinality(Verbatim(t) \ seen) \in Nat
      /\ SizeOf(Rendered(seen)) = Cardinality(Verbatim(t) \ seen) + SizeAt(t, C)
  BY <1>7, SizeOfMessage
<1>9. Cardinality(Verbatim(t) \ seen) <= SizeAt(t, K)
  <2>1. IsFiniteSet(Verbatim(t))
    BY <1>1 DEF Holds
  <2>2. /\ Cardinality(Verbatim(t) \ seen) <= Cardinality(Verbatim(t))
        /\ Cardinality(Verbatim(t)) \in Nat
    BY <2>1, FS_Subset, FS_CardinalityType
  <2>3. Cardinality(Verbatim(t)) <= SizeAt(t, K)
    BY <1>4, <1>5, <1>6
  <2> QED
    BY <1>2, <1>8, <2>2, <2>3
<1> QED
  BY <1>2, <1>8, <1>9

LEMMA MirrorFits ==
  ASSUME NEW m \in Seq(MessageSet), NEW t \in Seq(MessageSet), NEW r \in Seq(MessageSet),
         Mirrors(m, t, r)
  PROVE  /\ Size(r) \in Nat /\ Size(t) \in Nat /\ Size(m) \in Nat
         /\ Size(r) + Size(t) <= Size(m)
<1> DEFINE A == 1..Len(r)
           B == (Len(r) + 1)..Len(m)
           T == 1..Len(t)
<1>1. Len(r) \in Nat /\ Len(m) \in Nat /\ Len(r) <= Len(m) /\ \A i \in A : m[i] = r[i]
  BY DEF Mirrors
<1>2. PICK h : Placed(t, m, Len(r), h)
  BY DEF Mirrors
<1>3. A \in SUBSET (1..Len(m)) /\ B \in SUBSET (1..Len(m)) /\ A \cap B = {} /\ A \cup B = 1..Len(m)
  BY <1>1
<1>4. h \in [T -> B] /\ (\A i, j \in T : h[i] = h[j] => i = j) /\ \A j \in T : m[h[j]] = t[j]
  BY <1>2 DEF Placed
<1>5. T \in SUBSET (1..Len(t)) /\ Size(t) = SizeAt(t, T)
  BY DEF Size
<1>6. Size(r) = SizeAt(r, A) /\ Size(m) = SizeAt(m, 1..Len(m)) /\ Size(r) \in Nat /\ Size(m) \in Nat
  BY CountedIsPart DEF Size
<1> HIDE DEF A, B, T
<1>7. \A j \in T : SizeOf(t[j]) <= SizeOf(m[h[j]])
  <2>1. \A j \in T : SizeOf(t[j]) \in Nat
    BY <1>5, PlacesAreFinite
  <2> QED
    BY <1>4, <2>1
<1>8. SizeAt(t, T) \in Nat /\ SizeAt(m, B) \in Nat /\ SizeAt(t, T) <= SizeAt(m, B)
  BY <1>3, <1>4, <1>5, <1>7, SizeFits
<1>9. SizeAt(m, A \cup B) = SizeAt(m, A) + SizeAt(m, B)
  BY <1>3, SizeApart
<1>10. SizeAt(m, A) = SizeAt(r, A)
  BY <1>1, SizeOfSame
<1>11. Size(m) = Size(r) + SizeAt(m, B)
  BY <1>3, <1>6, <1>9, <1>10
<1> QED
  BY <1>5, <1>6, <1>8, <1>11

\* and that together with the session's research no larger than the conversation.
LEMMA HandedOverFits ==
  ASSUME IInv, Open
  PROVE  Size(research) + SizeOf(Rendered(seen)) <= Size(messages)
<1>1. /\ messages \in Seq(MessageSet) /\ toolMessages \in Seq(MessageSet)
      /\ research \in Seq(MessageSet) /\ Mirrors(messages, toolMessages, research)
  BY Typed DEF IInv, MirrorInv
<1>2. /\ Size(research) \in Nat /\ Size(toolMessages) \in Nat /\ Size(messages) \in Nat
      /\ Size(research) + Size(toolMessages) <= Size(messages)
  BY <1>1, MirrorFits
<1>3. SizeOf(Rendered(seen)) \in Nat /\ SizeOf(Rendered(seen)) <= Size(toolMessages)
  BY RenderedFits
<1> QED
  BY <1>2, <1>3

LEMMA WithinMore ==
  \A z, l, e, d \in Nat : z <= l + e /\ e <= d => z <= l + d
OBVIOUS

\* How full the context was is recorded from a request that had all of the session.
LEMMA FinishInv ==
  ASSUME IInv, at \in {"thinking", "writing"}, NEW request \in Nat, Finish(request),
         research' \in Seq(MessageSet), seen' \subseteq Texts, learned' \subseteq Texts,
         SeenInv', Once(research'),
         turn > 0 => talk + Size(research') <= request
  PROVE  IInv'
<1>1. /\ Over /\ talk' = talk + Wording /\ turn' = turn + 1 /\ unrecorded' = FALSE
      /\ at' = IF turn = 0 THEN "idle" ELSE "posted"
      /\ \/ turn = 0 /\ lastContext' \in Estimates(talk' + Size(research'))
         \/ turn > 0 /\ lastContext' = request + Wording
  BY DEF Finish
<1>2. /\ turn \in Nat /\ turn <= MaxTurns /\ talk \in Nat /\ Wording \in Nat
      /\ Size(research') \in Nat
  <2>1. Size(research') \in Nat
    BY CountedIsPart
  <2>2. turn \in Nat /\ turn <= MaxTurns
    BY Budgets DEF IInv, RunInv, Running, TypeOK
  <2> QED
    BY <2>1, <2>2, Typed, Budgets DEF IInv
<1>3. turn' \in 0..(MaxTurns + 1) /\ turn' # 0 /\ talk' \in Nat
  BY <1>1, <1>2, Budgets
<1>4. unrecorded' \in BOOLEAN /\ at' \in {"idle", "posted"}
  BY <1>1
<1>5. CASE turn = 0
  <2>1. lastContext' \in Estimates(talk' + Size(research')) /\ at' = "idle"
    BY <1>1, <1>2, <1>5
  <2>2. lastContext' \in Nat /\ talk' + Size(research') <= lastContext' + Error
    <3>1. talk' + Size(research') \in Nat
      BY <1>2, <1>3
    <3> QED
      BY <2>1, <3>1, Budgets DEF Estimates
  <2>3. talk' + Size(research') <= lastContext' + Larger(Error, Longest)
    <3>1. /\ talk' + Size(research') \in Nat /\ Larger(Error, Longest) \in Nat
          /\ Error \in Nat /\ Error <= Larger(Error, Longest)
      BY <1>2, <1>3, SlackIs, Budgets
    <3> QED
      BY <2>2, <3>1, WithinMore
  <2> QED
    BY <1>1, <1>3, <1>4, <2>1, <2>2, <2>3, OverInv
<1>6. CASE turn # 0
  <2>1. lastContext' = request + Wording /\ at' = "posted" /\ turn > 0
    BY <1>1, <1>2, <1>6
  <2>2. lastContext' \in Nat /\ talk' + Size(research') <= lastContext'
    BY <1>1, <1>2, <2>1
  <2> QED
    BY <1>1, <1>3, <1>4, <2>1, <2>2, OverInv
<1> QED
  BY <1>5, <1>6

LEMMA ReplyAnswerInv ==
  ASSUME IInv, ReplyAnswer
  PROVE  IInv'
<1>1. /\ at = "thinking" /\ AppendResearch /\ Finish(Context)
  BY DEF ReplyAnswer, Replies
<1>2. Running /\ Open
  BY <1>1 DEF Running, Open, InLoop
<1>3. /\ research' \in Seq(MessageSet) /\ seen' \subseteq Texts /\ learned' \subseteq Texts
      /\ SeenInv' /\ Once(research')
      /\ Size(research') <= Size(research) + SizeOf(Rendered(seen))
  BY <1>1, <1>2, AppendKeeps
<1>4. Size(research) + SizeOf(Rendered(seen)) <= Size(messages)
  BY <1>2, HandedOverFits
<1>5. /\ talk \in Nat /\ Size(messages) \in Nat /\ Size(research) \in Nat
      /\ Size(research') \in Nat /\ SizeOf(Rendered(seen)) \in Nat
  BY <1>3, Typed, CountedIsPart, RenderedFits DEF IInv
<1>6. Context \in Nat /\ talk + Size(research') <= Context
  BY <1>3, <1>4, <1>5 DEF Context
<1> QED
  BY <1>1, <1>3, <1>6, FinishInv

LEMMA WriteInv ==
  ASSUME IInv, Write
  PROVE  IInv'
<1>1. /\ at = "writing" /\ Finish(Request)
      /\ (turn = 0 /\ AppendResearch) \/ (turn > 0 /\ UNCHANGED <<research, seen, learned>>)
  BY DEF Write
<1>2. Running /\ turn \in Nat
  BY <1>1 DEF Running, IInv, TypeOK
<1>3. /\ research' \in Seq(MessageSet) /\ seen' \subseteq Texts /\ learned' \subseteq Texts
      /\ SeenInv' /\ Once(research')
  <2>1. CASE AppendResearch
    BY <1>2, <2>1, AppendKeeps
  <2>2. CASE UNCHANGED <<research, seen, learned>>
    BY <2>2, Typed DEF IInv, TypeOK, SeenInv, OnceInv
  <2> QED
    BY <1>1, <2>1, <2>2
<1>4. /\ talk \in Nat /\ Size(research) \in Nat /\ SizeOf(Rendered({})) \in Nat
      /\ Size(research') \in Nat /\ Wording \in Nat
  BY <1>3, Typed, CountedIsPart, RenderedIsMessage, SizeOfMessage, Budgets DEF IInv
<1>5. Request \in Nat
  BY <1>4 DEF Request
<1>6. turn > 0 => talk + Size(research') <= Request
  <2>1. SUFFICES ASSUME turn > 0 PROVE talk + Size(research') <= Request
    OBVIOUS
  <2>2. turn # 0
    BY <1>2, <2>1
  <2>3. research' = research
    BY <1>1, <2>2
  <2>4. Request = talk + (Size(research) + Wording)
    BY <2>1 DEF Request
  <2> QED
    BY <1>4, <2>3, <2>4
<1> QED
  BY <1>1, <1>3, <1>5, <1>6, FinishInv

LEMMA RenderInv ==
  ASSUME IInv, Render
  PROVE  IInv'
<1>1. /\ at = "answering" /\ at' = "writing"
      /\ UNCHANGED <<turn, round, todo, used, conversation, talk, lastContext, unrecorded>>
      /\ (turn > 0 /\ AppendResearch) \/ (turn = 0 /\ UNCHANGED <<research, seen, learned>>)
  BY DEF Render
<1>2. /\ TypeOK /\ RunInv /\ ToolInv /\ SeenInv /\ FoundInv /\ OnceInv /\ SizeInv /\ Running
  BY <1>1 DEF IInv, Running
<1>3. /\ research' \in Seq(MessageSet) /\ seen' \subseteq Texts /\ learned' \subseteq Texts
      /\ SeenInv' /\ Once(research') /\ seen \subseteq seen'
  <2>1. CASE AppendResearch
    BY <1>2, <2>1, AppendKeeps
  <2>2. CASE UNCHANGED <<research, seen, learned>>
    BY <1>2, <2>2, Typed DEF TypeOK, SeenInv, OnceInv
  <2> QED
    BY <1>1, <2>1, <2>2
<1>4. turn = 0 => research' = <<>>
  <2>1. SUFFICES ASSUME turn = 0 PROVE research' = <<>>
    OBVIOUS
  <2>2. ~(turn > 0)
    BY <2>1
  <2> QED
    BY <1>1, <1>2, <2>1, <2>2 DEF RunInv
<1> USE DEF conversation
<1>5. TypeOK'
  BY <1>1, <1>2, <1>3 DEF TypeOK
<1>6. RunInv' /\ ToolInv'
  BY <1>1, <1>2, <1>4 DEF RunInv, ToolInv, Running
<1>7. MirrorInv' /\ ShownInv' /\ WithinWindow'
  BY <1>1 DEF MirrorInv, ShownInv, WithinWindow, Open, InLoop
<1>8. FoundInv'
  BY <1>1, <1>2, <1>3 DEF FoundInv
<1>9. OnceInv'
  BY <1>1, <1>2, <1>3 DEF OnceInv
<1>10. SizeInv'
  BY <1>1 DEF SizeInv
<1> QED
  BY <1>3, <1>5, <1>6, <1>7, <1>8, <1>9, <1>10 DEF IInv

-----------------------------------------------------------------------------
(* Between two turns the older half of the session's research is condensed. *)

Merges(r, t, w) ==
  /\ t \in Seq(MessageSet) /\ Blocks(t) /\ Once(t)
  /\ Verbatim(t) \subseteq Verbatim(r) /\ Kept(t) = Kept(r)
  /\ Size(t) <= Size(r) + w

LEMMA SizeOfSummary ==
  \A x \in MessageSet : x.texts = {} => SizeOf(x) = x.length
<1> SUFFICES ASSUME NEW x \in MessageSet, x.texts = {} PROVE SizeOf(x) = x.length
  OBVIOUS
<1>1. SizeOf(x) = Cardinality(x.texts) + x.length /\ x.length \in Nat
  BY SizeOfMessage
<1>2. Cardinality(x.texts) = 0
  BY FS_EmptySet
<1> QED
  BY <1>1, <1>2

\* The list is a summary, and what stood after the first n.
LEMMA MergedSize ==
  ASSUME NEW r \in Seq(MessageSet), NEW t \in Seq(MessageSet), NEW n \in Nat, NEW w \in Nat,
         1 \in 1..Len(t), SizeOf(t[1]) = w,
         \A k \in 2..Len(t) : n + k - 1 \in 1..Len(r) /\ t[k] = r[n + k - 1]
  PROVE  Size(t) <= Size(r) + w
<1> DEFINE O == {1}
           B == 2..Len(t)
           A == 1..Len(r)
           h == [k \in B |-> n + k - 1]
<1>1. /\ O \in SUBSET (1..Len(t)) /\ B \in SUBSET (1..Len(t)) /\ O \cap B = {}
      /\ O \cup B = 1..Len(t)
  BY DEF O, B
<1>2. A \in SUBSET (1..Len(r))
  OBVIOUS
<1>3. h \in [B -> A] /\ \A k \in B : h[k] = n + k - 1 /\ t[k] = r[h[k]]
  OBVIOUS
<1>4. \A k, l \in B : h[k] = h[l] => k = l
  BY <1>3
<1>5. Size(t) = SizeAt(t, O \cup B) /\ Size(r) = SizeAt(r, A)
  BY <1>1 DEF Size
<1>6. SizeAt(t, O) = w
  BY SizeAtOne
<1> HIDE DEF O, B, A, h
<1>7. \A k \in B : SizeOf(t[k]) <= SizeOf(r[h[k]])
  <2>1. SUFFICES ASSUME NEW k \in B PROVE SizeOf(t[k]) <= SizeOf(r[h[k]])
    OBVIOUS
  <2>2. SizeOf(t[k]) \in Nat
    BY <1>1, PlacesAreFinite
  <2>3. t[k] = r[h[k]]
    BY <1>3
  <2> QED
    BY <2>2, <2>3
<1>8. SizeAt(t, B) \in Nat /\ SizeAt(r, A) \in Nat /\ SizeAt(t, B) <= SizeAt(r, A)
  BY <1>1, <1>2, <1>3, <1>4, <1>7, SizeFits
<1>9. SizeAt(t, O \cup B) = SizeAt(t, O) + SizeAt(t, B)
  BY <1>1, SizeApart
<1> QED
  BY <1>5, <1>6, <1>8, <1>9

LEMMA MergedBlocks ==
  ASSUME NEW r \in Seq(MessageSet), Blocks(r), Once(r), NEW n \in 1..Len(r), NEW w \in Nat,
         NEW x, NEW t, x = Message("research", 0, {}, Kept(SubSeq(r, 1, n)), w),
         t = <<x>> \o SubSeq(r, n + 1, Len(r))
  PROVE  Merges(r, t, w)
<1> DEFINE a == SubSeq(r, 1, n)
           b == SubSeq(r, n + 1, Len(r))
<1>1. Len(r) \in Nat /\ n \in Nat /\ n >= 1 /\ n <= Len(r)
  OBVIOUS
<1>2. IsPart(a, MessageSet, r, 1, n) /\ IsPart(b, MessageSet, r, n + 1, Len(r))
  <2>1. 1 \in Nat \ {0} /\ n + 1 \in Nat \ {0} /\ n \in 0..Len(r) /\ Len(r) \in 0..Len(r)
    BY <1>1
  <2> QED
    BY <2>1, PartProperties
<1>3. /\ a \in Seq(MessageSet) /\ Len(a) = n /\ \A i \in 1..n : a[i] = r[i]
  <2>1. Len(a) = n - 1 + 1 /\ \A i \in 1..Len(a) : a[i] = r[1 + i - 1]
    BY <1>1, <1>2 DEF IsPart
  <2>2. Len(a) = n /\ \A i \in 1..n : 1 + i - 1 = i
    BY <1>1, <2>1
  <2> QED
    BY <1>2, <2>1, <2>2 DEF IsPart
<1>4. /\ b \in Seq(MessageSet) /\ Len(b) = Len(r) - n /\ \A i \in 1..Len(b) : b[i] = r[n + i]
  <2>1. Len(b) = (IF n + 1 <= Len(r) THEN Len(r) - (n + 1) + 1 ELSE 0)
        /\ \A i \in 1..Len(b) : b[i] = r[n + 1 + i - 1]
    BY <1>2 DEF IsPart
  <2>2. Len(b) = Len(r) - n /\ \A i \in 1..Len(b) : n + 1 + i - 1 = n + i
    BY <1>1, <2>1
  <2> QED
    BY <1>2, <2>1, <2>2 DEF IsPart
<1>5. t = <<x>> \o b /\ x = Message("research", 0, {}, Kept(a), w)
  OBVIOUS
<1> HIDE DEF a, b
<1>6. Holds(r) /\ Holds(a)
  BY <1>3, ListHolds
<1>7. /\ x \in MessageSet /\ x.kind = "research" /\ x.id = 0 /\ x.texts = {} /\ x.summed = Kept(a)
      /\ x.length = w
  <2>1. Kept(a) \subseteq Texts
    BY <1>6 DEF Holds, Kept
  <2> QED
    BY <1>5, <2>1 DEF Message, MessageSet
<1>8. /\ t \in Seq(MessageSet) /\ Len(t) = 1 + Len(r) - n /\ t[1] = x
      /\ \A k \in 2..Len(t) : t[k] = r[n + k - 1] /\ n + k - 1 \in (n + 1)..Len(r)
  <2>1. <<x>> \in Seq(MessageSet) /\ Len(<<x>>) = 1 /\ <<x>>[1] = x
    BY <1>7
  <2>2. /\ t \in Seq(MessageSet) /\ Len(t) = 1 + Len(b)
        /\ \A k \in 1..(1 + Len(b)) : t[k] = IF k <= 1 THEN <<x>>[k] ELSE b[k - 1]
    <3>1. ASSUME NEW u \in Seq(MessageSet), Len(u) = 1, t = u \o b
          PROVE  /\ t \in Seq(MessageSet) /\ Len(t) = 1 + Len(b)
                 /\ \A k \in 1..(1 + Len(b)) : t[k] = IF k <= 1 THEN u[k] ELSE b[k - 1]
      <4>1. /\ u \o b \in Seq(MessageSet) /\ Len(u \o b) = Len(u) + Len(b)
            /\ \A k \in 1..(Len(u) + Len(b)) :
                 (u \o b)[k] = IF k <= Len(u) THEN u[k] ELSE b[k - Len(u)]
        BY <1>4, ConcatProperties
      <4> QED
        BY <3>1, <4>1
    <3> QED
      BY <1>5, <2>1, <3>1
  <2>3. Len(b) \in Nat /\ Len(t) = 1 + Len(r) - n /\ 1 \in 1..(1 + Len(b))
    BY <1>1, <1>4, <2>2
  <2>4. t[1] = x
    BY <2>1, <2>2, <2>3
  <2>5. ASSUME NEW k \in 2..Len(t)
        PROVE  t[k] = r[n + k - 1] /\ n + k - 1 \in (n + 1)..Len(r)
    <3>1. k \in 1..(1 + Len(b)) /\ ~(k <= 1) /\ k - 1 \in 1..Len(b) /\ n + (k - 1) = n + k - 1
      BY <1>1, <2>2, <2>3
    <3>2. t[k] = b[k - 1] /\ b[k - 1] = r[n + (k - 1)]
      BY <1>4, <2>2, <3>1
    <3>3. n + k - 1 \in (n + 1)..Len(r)
      BY <1>1, <2>3
    <3> QED
      BY <3>1, <3>2, <3>3
  <2> QED
    BY <2>2, <2>3, <2>4, <2>5
<1>9. Holds(t) /\ Len(t) \in Nat /\ 1 \in 1..Len(t) /\ \A k \in 1..Len(t) : k = 1 \/ k \in 2..Len(t)
  <2>1. Len(t) \in Nat /\ Len(t) >= 1
    BY <1>1, <1>8
  <2> QED
    <3>1. Holds(t)
      BY <1>8, ListHolds
    <3>2. 1 \in 1..Len(t) /\ \A k \in 1..Len(t) : k = 1 \/ k \in 2..Len(t)
      BY <2>1
    <3> QED
      BY <2>1, <3>1, <3>2
<1>10. \A i \in 1..Len(r) : i \in 1..n \/ \E k \in 2..Len(t) : i = n + k - 1
  <2>1. SUFFICES ASSUME NEW i \in 1..Len(r), i \notin 1..n PROVE \E k \in 2..Len(t) : i = n + k - 1
    OBVIOUS
  <2>2. i - n + 1 \in 2..Len(t) /\ i = n + (i - n + 1) - 1
    BY <1>1, <1>8, <2>1
  <2> QED
    BY <2>2
<1>11. /\ \A k \in 2..Len(t) : k \in 1..Len(t) /\ k # 1 /\ n + k - 1 \in 1..Len(r) /\ n + k - 1 # 1
       /\ 1 \in 1..Len(r) /\ 1 \in 1..n /\ \A i \in 1..n : i \in 1..Len(r)
  BY <1>1, <1>8, <1>9
<1>12. r[1].texts # {} \/ r[1].summed # {}
  BY <1>11 DEF Blocks, IsBlock
<1>13. Blocks(t)
  <2>1. Kept(a) # {}
    BY <1>3, <1>6, <1>11, <1>12 DEF Holds, Kept
  <2>2. IsBlock(x)
    BY <1>7, <2>1 DEF IsBlock
  <2>3. \A k \in 2..Len(t) : IsBlock(t[k])
    BY <1>8, <1>11 DEF Blocks
  <2> QED
    BY <1>8, <1>9, <2>2, <2>3 DEF Blocks
<1>14. Once(t)
  <2>1. SUFFICES ASSUME NEW k \in 1..Len(t), NEW l \in 1..Len(t), k # l
                 PROVE  t[k].texts \cap t[l].texts = {}
    BY DEF Once
  <2>2. CASE k = 1 \/ l = 1
    BY <1>7, <1>8, <2>2
  <2>3. CASE k \in 2..Len(t) /\ l \in 2..Len(t)
    <3>1. n + k - 1 # n + l - 1
      BY <1>1, <2>1, <2>3
    <3>2. /\ n + k - 1 \in 1..Len(r) /\ n + l - 1 \in 1..Len(r)
          /\ t[k] = r[n + k - 1] /\ t[l] = r[n + l - 1]
      BY <1>8, <1>11, <2>3
    <3>3. r[n + k - 1].texts \cap r[n + l - 1].texts = {}
      BY <3>1, <3>2 DEF Once
    <3> QED
      BY <3>2, <3>3
  <2> QED
    BY <1>9, <2>2, <2>3
<1>15. Verbatim(t) \subseteq Verbatim(r)
  <2>1. SUFFICES ASSUME NEW y \in Verbatim(t) PROVE y \in Verbatim(r)
    OBVIOUS
  <2>2. PICK k \in 1..Len(t) : y \in t[k].texts
    BY <1>9 DEF Holds
  <2>3. k \in 2..Len(t)
    BY <1>7, <1>8, <1>9, <2>2
  <2>4. n + k - 1 \in 1..Len(r) /\ n + k - 1 # 1 /\ t[k] = r[n + k - 1]
    BY <1>8, <1>11, <2>3
  <2> QED
    BY <1>6, <2>2, <2>4 DEF Holds
<1>16. Kept(t) = Kept(r)
  <2>1. ASSUME NEW y \in Kept(t) PROVE y \in Kept(r)
    <3>1. CASE y \in Verbatim(t)
      BY <1>15, <3>1 DEF Kept
    <3>2. CASE y \in Summed(t)
      <4>1. PICK k \in 1..Len(t) : y \in t[k].summed
        BY <1>9, <3>2 DEF Holds
      <4>2. CASE k = 1
        <5>1. y \in Kept(a)
          BY <1>7, <1>8, <4>1, <4>2
        <5>2. PICK i \in 1..n : y \in a[i].texts \/ y \in a[i].summed
          BY <1>3, <1>6, <5>1 DEF Kept, Holds
        <5> QED
          BY <1>3, <1>6, <1>11, <5>2 DEF Kept, Holds
      <4>3. CASE k \in 2..Len(t)
        BY <1>6, <1>8, <1>11, <4>1, <4>3 DEF Kept, Holds
      <4> QED
        BY <1>9, <4>2, <4>3
    <3> QED
      BY <2>1, <3>1, <3>2 DEF Kept
  <2>2. ASSUME NEW y \in Kept(r) PROVE y \in Kept(t)
    <3>1. PICK i \in 1..Len(r) : y \in r[i].texts \/ y \in r[i].summed
      BY <1>6 DEF Kept, Holds
    <3>2. CASE i \in 1..n
      <4>1. y \in Kept(a)
        BY <1>3, <1>6, <3>1, <3>2 DEF Kept, Holds
      <4>2. y \in t[1].summed
        BY <1>7, <1>8, <4>1
      <4> QED
        BY <1>9, <4>2 DEF Kept, Holds
    <3>3. CASE \E k \in 2..Len(t) : i = n + k - 1
      <4>1. PICK k \in 2..Len(t) : i = n + k - 1
        BY <3>3
      <4>2. k \in 1..Len(t) /\ t[k] = r[i]
        BY <1>8, <1>11, <4>1
      <4> QED
        BY <1>9, <3>1, <4>2 DEF Kept, Holds
    <3> QED
      BY <1>10, <3>2, <3>3
  <2> QED
    BY <2>1, <2>2
<1>17. Size(t) <= Size(r) + w
  <2>1. SizeOf(x) = w
    BY <1>7, SizeOfSummary
  <2>2. \A k \in 2..Len(t) : n + k - 1 \in 1..Len(r) /\ t[k] = r[n + k - 1]
    BY <1>8, <1>11
  <2> QED
    BY <1>1, <1>8, <1>9, <2>1, <2>2, MergedSize
<1> QED
  BY <1>8, <1>13, <1>14, <1>15, <1>16, <1>17 DEF Merges

LEMMA CompactSessionInv ==
  ASSUME IInv, CompactSession
  PROVE  IInv'
<1>1. /\ at = "posted" /\ at' = "idle"
      /\ UNCHANGED <<turn, round, todo, used, conversation, talk, seen, lastContext, learned,
                     unrecorded>>
  BY DEF CompactSession
<1>2. /\ TypeOK /\ RunInv /\ ToolInv /\ SeenInv /\ OnceInv /\ SizeInv
  BY DEF IInv
<1>3. research \in Seq(MessageSet) /\ Len(research) \in Nat
  BY <1>2, Typed
<1>4. Blocks(research) /\ Once(research)
  BY <1>2 DEF SeenInv, OnceInv
<1>5. \/ \E w \in Lengths : Merges(research, research', w)
      \/ research' = research
  <2>1. SUFFICES ASSUME research' # research
                 PROVE  \E w \in Lengths : Merges(research, research', w)
    OBVIOUS
  <2> DEFINE n == Len(research) \div 2
  <2>2. PICK w \in Lengths : /\ n > 0
          /\ research' = <<Message("research", 0, {}, Kept(SubSeq(research, 1, n)), w)>>
                           \o SubSeq(research, n + 1, Len(research))
    BY <2>1 DEF CompactSession, Kept
  <2>3. n \in 1..Len(research)
    BY <1>3, <2>2
  <2>4. w \in Nat
    BY Budgets, SummaryAssumption
  <2> HIDE DEF n
  <2> QED
    BY <1>3, <1>4, <2>2, <2>3, <2>4, MergedBlocks
<1>6. /\ research' \in Seq(MessageSet) /\ Blocks(research') /\ Once(research')
      /\ Verbatim(research') \subseteq seen /\ seen \subseteq Kept(research')
      /\ learned \subseteq Kept(research')
  BY <1>2, <1>3, <1>4, <1>5 DEF Merges, SeenInv
<1>7. /\ Size(research) \in Nat /\ Size(research') \in Nat
      /\ Size(research') <= Size(research) + Larger(Error, Longest)
  <2>1. Size(research) \in Nat /\ Size(research') \in Nat
    BY <1>3, <1>6, CountedIsPart
  <2>2. CASE research' = research
    BY <2>1, <2>2, SlackIs
  <2>3. CASE \E w \in Lengths : Merges(research, research', w)
    <3>1. PICK w \in Lengths : Size(research') <= Size(research) + w
      BY <2>3 DEF Merges
    <3>2. w \in Nat /\ w <= Longest /\ Longest <= Larger(Error, Longest)
          /\ Larger(Error, Longest) \in Nat /\ Longest \in Nat
      BY Budgets, SummaryAssumption, SlackIs
    <3>3. w <= Larger(Error, Longest)
      BY <3>2
    <3> QED
      BY <2>1, <3>1, <3>2, <3>3, WithinMore
  <2> QED
    BY <1>5, <2>2, <2>3
<1> USE DEF conversation
<1>8. TypeOK'
  BY <1>1, <1>2, <1>6 DEF TypeOK
<1>9. RunInv' /\ ToolInv'
  <2>1. turn = 0 => research' = <<>>
    <3>1. SUFFICES ASSUME turn = 0 PROVE research' = <<>>
      OBVIOUS
    <3>2. research = <<>> /\ Len(research) \div 2 = 0
      BY <1>2, <3>1 DEF RunInv
    <3> QED
      BY <3>2 DEF CompactSession
  <2> QED
    BY <1>1, <1>2, <2>1 DEF RunInv, ToolInv, Running
<1>10. MirrorInv' /\ ShownInv' /\ WithinWindow' /\ FoundInv'
  BY <1>1 DEF MirrorInv, ShownInv, WithinWindow, FoundInv, Open, InLoop, Running
<1>11. SeenInv' /\ OnceInv'
  BY <1>1, <1>2, <1>6 DEF SeenInv, OnceInv
<1>12. SizeInv'
  <2>1. talk + Size(research) <= lastContext
    BY <1>1, <1>2 DEF SizeInv
  <2>2. lastContext \in Nat /\ talk \in Nat /\ Larger(Error, Longest) \in Nat
    BY <1>2, Typed, SlackIs
  <2>3. talk + Size(research') <= lastContext + Larger(Error, Longest)
    BY <1>7, <2>1, <2>2
  <2>4. talk' + Size(research') <= lastContext' + Larger(Error, Longest)
    BY <1>1, <2>3
  <2> QED
    BY <1>1, <2>4 DEF SizeInv
<1> QED
  BY <1>8, <1>9, <1>10, <1>11, <1>12 DEF IInv


-----------------------------------------------------------------------------
(* The theorems.                                                           *)

LEMMA NextInv == IInv /\ [Next]_vars => IInv'
<1> SUFFICES ASSUME IInv, [Next]_vars PROVE IInv'
  OBVIOUS
<1>1. CASE Begin
  BY <1>1, BeginInv
<1>2. CASE Fail
  BY <1>2, FailInv
<1>3. CASE ReplyEmpty
  BY <1>3, ReplyEmptyInv
<1>4. CASE ReplyCalls
  BY <1>4, ReplyCallsInv
<1>5. CASE ReplyAnswer
  BY <1>5, ReplyAnswerInv
<1>6. CASE CallTool
  BY <1>6, CallToolInv
<1>7. CASE CheckContext
  BY <1>7, CheckContextInv
<1>8. CASE SummaryFails
  BY <1>8, SummaryFailsInv
<1>9. CASE Summarise
  BY <1>9, SummariseInv
<1>10. CASE Render
  BY <1>10, RenderInv
<1>11. CASE Write
  BY <1>11, WriteInv
<1>12. CASE CompactSession
  BY <1>12, CompactSessionInv
<1>13. CASE UNCHANGED vars
  <2>1. UNCHANGED <<at, turn, round, todo, used, messages, toolMessages, shown, ran, repeats,
                    fresh, victims, projected, found, research, talk, seen, lastContext, learned,
                    unrecorded>>
    BY <1>13 DEF vars, conversation, session
  <2>2. TypeOK' /\ RunInv'
    BY <2>1 DEF IInv, TypeOK, RunInv, Running
  <2>3. ToolInv'
    BY <2>1 DEF IInv, ToolInv
  <2>4. MirrorInv' /\ SeenInv'
    BY <2>1 DEF IInv, MirrorInv, Open, InLoop, SeenInv
  <2>5. FoundInv' /\ OnceInv'
    BY <2>1 DEF IInv, FoundInv, Running, OnceInv
  <2>6. ShownInv'
    BY <2>1 DEF IInv, ShownInv, InLoop
  <2>7. SizeInv' /\ WithinWindow'
    BY <2>1 DEF IInv, SizeInv, Context, Projected, WithinWindow
  <2> QED
    BY <2>2, <2>3, <2>4, <2>5, <2>6, <2>7 DEF IInv
<1> QED
  BY <1>1, <1>2, <1>3, <1>4, <1>5, <1>6, <1>7, <1>8, <1>9, <1>10, <1>11, <1>12, <1>13
     DEF Next, RunStep

LEMMA AgentInv == Spec => []IInv
  BY InitInv, NextInv, PTL DEF Spec

\* What the results of a list show.
LEMMA ResultsShow ==
  ASSUME NEW s \in Seq(MessageSet)
  PROVE  /\ Verbatim(OfKind(s, "result")) \subseteq Texts
         /\ \A x : x \in Verbatim(OfKind(s, "result"))
                     <=> \E i \in 1..Len(s) : s[i].kind = "result" /\ x \in s[i].texts
<1> DEFINE K == {i \in 1..Len(s) : s[i].kind = "result"}
           o == Selected(s, K)
<1>1. K \in SUBSET (1..Len(s)) /\ Len(s) \in Nat
  OBVIOUS
<1>2. OfKind(s, "result") = o
  BY DEF OfKind, Places
<1>3. \A i : i \in K <=> i \in 1..Len(s) /\ s[i].kind = "result"
  OBVIOUS
<1> HIDE DEF K
<1>4. /\ Cardinality(K) \in Nat
      /\ \A k \in 1..Cardinality(K) : Nth(K, k) \in K
      /\ \A i \in K : \E k \in 1..Cardinality(K) : Nth(K, k) = i
  <2>1. ListsAll(K)
    BY <1>1, NthProperties
  <2> QED
    BY <2>1 DEF ListsAll
<1>5. /\ o \in Seq(MessageSet) /\ Len(o) = Cardinality(K)
      /\ \A k \in 1..Cardinality(K) : o[k] = s[Nth(K, k)]
  BY <1>1, SelectedProperties
<1> HIDE DEF o
<1>6. Holds(o)
  BY <1>5, ListHolds
<1>7. ASSUME NEW x \in Verbatim(o)
      PROVE  \E i \in 1..Len(s) : s[i].kind = "result" /\ x \in s[i].texts
  <2>1. PICK k \in 1..Len(o) : x \in o[k].texts
    BY <1>6 DEF Holds
  <2> QED
    BY <1>3, <1>4, <1>5, <2>1
<1>8. ASSUME NEW x, NEW i \in 1..Len(s), s[i].kind = "result", x \in s[i].texts
      PROVE  x \in Verbatim(o)
  <2>1. PICK k \in 1..Cardinality(K) : Nth(K, k) = i
    BY <1>3, <1>4, <1>8
  <2>2. k \in 1..Len(o) /\ x \in o[k].texts
    BY <1>5, <1>8, <2>1
  <2> QED
    BY <1>6, <2>2 DEF Holds
<1>9. Verbatim(o) \subseteq Texts
  BY <1>6 DEF Holds
<1> QED
  BY <1>2, <1>7, <1>8, <1>9

\* In the loop the conversation has what the session has and what the run hands over.
LEMMA ConversationHasBoth ==
  ASSUME IInv, InLoop
  PROVE  Kept(toolMessages) \cup Kept(research) \subseteq Kept(messages)
<1>1. /\ Mirrors(messages, toolMessages, research)
      /\ Holds(messages) /\ Holds(toolMessages) /\ Holds(research)
  BY Typed, ListHolds DEF IInv, MirrorInv, Open
<1>2. /\ \A i \in 1..Len(research) : i \in 1..Len(messages) /\ messages[i] = research[i]
      /\ \A j \in 1..Len(toolMessages) : \E i \in (Len(research) + 1)..Len(messages) :
           i \in 1..Len(messages) /\ messages[i] = toolMessages[j]
  BY <1>1, MirrorShows DEF Holds
<1>3. /\ \A j \in 1..Len(toolMessages) : \E i \in 1..Len(messages) : messages[i] = toolMessages[j]
      /\ \A j \in 1..Len(research) : \E i \in 1..Len(messages) : messages[i] = research[j]
  BY <1>2
<1>4. ASSUME NEW s, Holds(s), \A j \in 1..Len(s) : \E i \in 1..Len(messages) : messages[i] = s[j]
      PROVE  Kept(s) \subseteq Kept(messages)
  <2>1. SUFFICES ASSUME NEW x \in Kept(s) PROVE x \in Kept(messages)
    OBVIOUS
  <2>2. PICK j \in 1..Len(s) : x \in s[j].texts \/ x \in s[j].summed
    BY <1>4 DEF Kept, Holds
  <2>3. PICK i \in 1..Len(messages) : messages[i] = s[j]
    BY <1>4
  <2> QED
    BY <1>1, <2>2, <2>3 DEF Kept, Holds
<1> QED
  BY <1>1, <1>3, <1>4

\* Whatever a tool returned stands in the conversation until the run is over, and
\* in the session from then on, word for word or in a summary
\* (_run_tool_rounds, compact_tool_rounds, render_research_blocks,
\* _compact_session): the keys by which a text is left out as "already shown"
\* never outlive the text.
THEOREM NothingFoundIsLost == Spec => []FoundIsKept
<1>1. IInv => FoundIsKept
  <2> SUFFICES ASSUME IInv PROVE FoundIsKept
    OBVIOUS
  <2>1. learned \subseteq Verbatim(research) \cup Summed(research)
    BY DEF IInv, SeenInv, Kept
  <2>2. ASSUME InLoop PROVE found \subseteq Verbatim(messages) \cup Summed(messages)
    <3>1. found \subseteq Kept(toolMessages) \cup seen /\ seen \subseteq Kept(research)
      BY <2>2 DEF IInv, FoundInv, SeenInv, Running, InLoop
    <3> QED
      BY <2>2, <3>1, ConversationHasBoth DEF Kept
  <2> QED
    BY <2>1, <2>2 DEF FoundIsKept
<1> QED
  BY <1>1, AgentInv, PTL

\* The keys the loop goes by are those of what the model can read, and no text
\* stands twice in a request or in a session (drop_seen_chunks,
\* compact_tool_rounds).
THEOREM ContextIsExact == Spec => []ContextInv
<1>1. IInv => ContextInv
  <2> SUFFICES ASSUME IInv PROVE ContextInv
    OBVIOUS
  <2>1. TypeOK /\ VerbatimOnce
    BY DEF IInv, OnceInv, Once, VerbatimOnce
  <2>2. ASSUME InLoop PROVE shown = seen \cup Verbatim(OfKind(messages, "result"))
    <3>1. messages \in Seq(MessageSet) /\ shown \subseteq Texts /\ seen \subseteq Texts
      BY <2>1, Typed DEF TypeOK
    <3>2. \A x \in Texts :
            x \in shown <=> \/ x \in seen
                            \/ \E i \in 1..Len(messages) :
                                 messages[i].kind = "result" /\ x \in messages[i].texts
      BY <2>2 DEF IInv, ShownInv
    <3>3. \A x \in Texts : x \in shown <=> x \in seen \/ x \in Verbatim(OfKind(messages, "result"))
      BY <3>1, <3>2, ResultsShow
    <3>4. Verbatim(OfKind(messages, "result")) \subseteq Texts
      BY <3>1, ResultsShow
    <3> QED
      BY <3>1, <3>3, <3>4
  <2> QED
    BY <2>1, <2>2 DEF ContextInv, ShownIsThere
<1> QED
  BY <1>1, AgentInv, PTL

\* The conversation, and what the run hands over, never hold a call without its
\* answer right after it, nor an answer without its call, whatever was condensed
\* (_run_tool_rounds, compact_tool_rounds).
THEOREM CallsKeepAnswers == Spec => []CallsAreAnswered
<1>1. IInv => CallsAreAnswered
  BY DEF IInv, ToolInv, Answered, CallsAreAnswered
<1> QED
  BY <1>1, AgentInv, PTL

\* The estimates of a run are good enough: no round sends a request that is
\* beyond the hard limit by more than a fixed slack, whatever the estimates, the
\* summaries and the turns before it were, but the first of a follow-up after a
\* turn that failed (_run_tool_rounds, compact_tool_rounds, record_context).
THEOREM RoundsFitWindow == Spec => []WithinWindow
<1>1. IInv => WithinWindow
  BY DEF IInv
<1> QED
  BY <1>1, AgentInv, PTL
=============================================================================
