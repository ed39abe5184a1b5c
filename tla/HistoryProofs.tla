---------------------------- MODULE HistoryProofs ----------------------------
(***************************************************************************)
(* Proofs about History, for any number of messages, channels, pipelines,  *)
(* failures and calls of /clear.                                           *)
(*                                                                         *)
(* The archive and its id index may drift apart in two directions, and a   *)
(* third party, channel_state.json, trusts both.  What keeps them together *)
(* as long as no /clear has met a pipeline:                                *)
(*   - the index has every message of the file (KnownInv), so that what a  *)
(*     writer buffers is not in the file yet (FreshInv) and nothing is     *)
(*     archived twice;                                                     *)
(*   - the index has nothing else but what the writer is about to write or *)
(*     a failure has cost (KnownInv);                                      *)
(*   - a pipeline's own record of a channel is covered by the archive and  *)
(*     what it still has to append (StateInv), and so is what it saves;    *)
(*   - whoever rewrites the file holds the lock since it read it, and has  *)
(*     a copy of the file as it is (CopyInv).                              *)
(***************************************************************************)
EXTENDS History, SequenceLemmas

Places == {"idle", "loop", "append", "write", "refresh", "rewrite", "save"}

Files == [lines : Seq(Msgs), end : Ends]

Pipes == [at : Places, job : {"none", "evaluate", "reparse"}, state : Records,
          todo : SUBSET Channels, batch : SUBSET Msgs, fresh : SUBSET Msgs,
          copy : Seq(Msgs)]

\* An unfinished line has something on it.
FileOK(f) == f \in Files /\ (f.end = "bare" => f.lines # <<>>)

PipeInv == pipe \in [Pipelines -> Pipes]

\* What is in the archive, or lost to a failure that is accounted for.
Archived == Readable(file) \cup forfeited

\* What pipeline p has taken on and not written yet.
Pending(p) ==
  CASE pipe[p].at = "append" -> pipe[p].batch
    [] pipe[p].at = "write"  -> pipe[p].fresh
    [] OTHER -> {}

ClearInv ==
  /\ ~orphan
  /\ clear # "no" => \A p \in Pipelines : pipe[p].at = "idle"
  /\ clear \in {"raw", "state"} => known = NotLoaded

CopyInv == \A p \in Pipelines : pipe[p].at = "rewrite" => pipe[p].copy = file.lines

FreshInv ==
  \A p \in Pipelines : pipe[p].at = "write" =>
    /\ known # NotLoaded
    /\ pipe[p].fresh \subseteq known
    /\ pipe[p].fresh \cap Readable(file) = {}
    /\ pipe[p].batch \subseteq Archived \cup pipe[p].fresh

KnownInv ==
  known # NotLoaded =>
    /\ Readable(file) \subseteq known
    /\ lock = NoOne /\ clear = "no" => known \subseteq Archived
    /\ \A p \in Pipelines : pipe[p].at = "write" => known \subseteq Archived \cup pipe[p].fresh
    /\ \A p \in Pipelines : pipe[p].at = "rewrite" => known \subseteq Archived

StateInv ==
  \A p \in Pipelines :
    /\ pipe[p].at = "idle" => pipe[p].state = Fresh
    /\ \A c \in Channels : pipe[p].state[c] # Never =>
         pipe[p].state[c] \subseteq Archived \cup Pending(p)

RecordInv ==
  recorded # Torn /\ clear = "no" =>
    \A c \in Channels : recorded[c] # Never => recorded[c] \subseteq Archived

\* What holds until a /clear meets a pipeline.
Orderly ==
  /\ ClearInv /\ CopyInv /\ FreshInv /\ KnownInv /\ StateInv /\ RecordInv
  /\ IsInjective(file.lines)

IInv == TypeOK /\ FileOK(file) /\ PipeInv /\ (~crossed => Orderly)

-----------------------------------------------------------------------------
(* The file.                                                               *)

\* A batch is written in chronological order, each of its messages once.
LEMMA OrderedProperties ==
  ASSUME NEW S \in SUBSET Msgs, NEW s, s = Ordered(S)
  PROVE  s \in Seq(Msgs) /\ IsInjective(s) /\ ToSet(s) = S
<1>1. MaxMsgs \in Nat /\ S \in SUBSET (1..MaxMsgs)
  BY HistoryAssumption DEF Msgs
<1>2. \E t \in [1..Cardinality(S) -> S] : Increasing(t, Cardinality(S))
  BY <1>1, SortedListing
<1>3. s \in [1..Cardinality(S) -> S] /\ Increasing(s, Cardinality(S))
  BY <1>2 DEF Ordered, Increasing
<1>4. s \in Seq(S) /\ IsInjective(s) /\ ToSet(s) = S
  BY <1>1, <1>3, ListingProperties
<1>5. s \in Seq(Msgs)
  <2>1. S \subseteq Msgs
    OBVIOUS
  <2>. QED  BY <1>4, <2>1
<1>. QED  BY <1>4, <1>5

\* Adding records to a file adds them and nothing else, and costs at most what an
\* unfinished line spoils.
LEMMA PutProperties ==
  ASSUME NEW f, FileOK(f), NEW s \in Seq(Msgs), NEW end \in Ends, NEW g, g = Put(f, s, end)
  PROVE  /\ FileOK(g)
         /\ Readable(g) \subseteq Readable(f) \cup ToSet(s)
         /\ Readable(f) \subseteq Readable(g) \cup Spoiled(f, s)
         /\ end = "line" => ToSet(s) \subseteq Readable(g) \cup Spoiled(f, s)
         /\ IsInjective(f.lines) /\ IsInjective(s) /\ Readable(f) \cap ToSet(s) = {} =>
              IsInjective(g.lines)
<1>0. f.lines \in Seq(Msgs) /\ f.end \in Ends /\ (f.end = "bare" => f.lines # <<>>)
  BY DEF FileOK, Files
<1>1. CASE s = <<>>
  <2>1. g = f
    BY <1>1 DEF Put
  <2>2. ToSet(s) = {}
    BY <1>1 DEF ToSet
  <2>. QED  BY <2>1, <2>2
<1>2. CASE s # <<>>
  <2> DEFINE glued == f.end # "line"
             base  == IF f.end = "bare" THEN Front(f.lines) ELSE f.lines
             whole == IF end = "half" THEN Front(s) ELSE s
             more  == IF glued THEN SubSeq(whole, 2, Len(whole)) ELSE whole
             last  == IF glued /\ Len(s) = 1 /\ end = "bare" THEN "half" ELSE end
  <2>1. g = [lines |-> base \o more, end |-> last]
    BY <1>2 DEF Put
  <2>2. /\ base \in Seq(Msgs) /\ ToSet(base) \subseteq Readable(f)
        /\ IsInjective(f.lines) => IsInjective(base)
        /\ f.end # "bare" => ToSet(base) = Readable(f)
        /\ f.end = "bare" => Readable(f) \subseteq ToSet(base) \cup {Last(f.lines)}
    <3>1. CASE f.end = "bare"
      <4> DEFINE n == Len(f.lines)
      <4>1. n \in Nat /\ n >= 1 /\ n - 1 \in 0..n /\ base = SubSeq(f.lines, 1, n - 1)
        BY <1>0, <3>1 DEF Front
      <4>2. /\ base \in Seq(Msgs) /\ ToSet(base) \subseteq ToSet(f.lines)
            /\ \A x : x \in ToSet(base) <=> \E i \in 1..(n - 1) : x = f.lines[i]
            /\ IsInjective(f.lines) => IsInjective(base)
        <5>1. IsPart(SubSeq(f.lines, 1, n - 1), Msgs, f.lines, 1, n - 1)
          BY <1>0, <4>1, PartProperties
        <5> HIDE DEF base, n
        <5>. QED  BY <4>1, <5>1 DEF IsPart
      <4>3. \A x \in ToSet(f.lines) : x = f.lines[n] \/ \E i \in 1..(n - 1) : x = f.lines[i]
        BY <1>0, <3>1, EndsProperties
      <4>. QED  BY <3>1, <4>2, <4>3 DEF Readable, Last
    <3>2. CASE f.end # "bare"
      BY <1>0, <3>2 DEF Readable
    <3>. QED  BY <3>1, <3>2
  <2>3. /\ whole \in Seq(Msgs) /\ ToSet(whole) \subseteq ToSet(s)
        /\ IsInjective(s) => IsInjective(whole)
        /\ end # "half" => whole = s
    <3>1. CASE end = "half"
      <4>1. Len(s) \in Nat /\ Len(s) >= 1 /\ Len(s) - 1 \in 0..Len(s)
        BY <1>2
      <4>2. whole = SubSeq(s, 1, Len(s) - 1)
        BY <3>1 DEF Front
      <4>3. IsPart(SubSeq(s, 1, Len(s) - 1), Msgs, s, 1, Len(s) - 1)
        BY <4>1, PartProperties
      <4> HIDE DEF whole
      <4>. QED  BY <3>1, <4>2, <4>3 DEF IsPart
    <3>2. CASE end # "half"
      BY <3>2
    <3>. QED  BY <3>1, <3>2
  <2>4. /\ more \in Seq(Msgs) /\ ToSet(more) \subseteq ToSet(whole)
        /\ IsInjective(whole) => IsInjective(more)
        /\ ~glued => more = whole
        /\ glued /\ whole = s => ToSet(s) \subseteq ToSet(more) \cup {Head(s)}
        /\ glued /\ whole = s /\ Len(s) # 1 => more # <<>>
    <3> HIDE DEF whole
    <3>1. CASE glued
      <4>1. more = SubSeq(whole, 2, Len(whole)) /\ Len(whole) \in 0..Len(whole)
        BY <2>3, <3>1
      <4>2. /\ more \in Seq(Msgs) /\ ToSet(more) \subseteq ToSet(whole)
            /\ Len(more) = IF 2 <= Len(whole) THEN Len(whole) - 2 + 1 ELSE 0
            /\ \A x : x \in ToSet(more) <=> \E i \in 2..Len(whole) : x = whole[i]
            /\ IsInjective(whole) => IsInjective(more)
        <5>1. IsPart(SubSeq(whole, 2, Len(whole)), Msgs, whole, 2, Len(whole))
          BY <2>3, <4>1, PartProperties
        <5> HIDE DEF more
        <5>. QED  BY <4>1, <5>1 DEF IsPart
      <4>3. \A x \in ToSet(s) : x = s[1] \/ \E i \in 2..Len(s) : x = s[i]
        BY <1>2, EndsProperties
      <4>4. Len(s) \in Nat /\ Len(s) >= 1
        BY <1>2, EndsProperties
      <4>5. Head(s) = s[1]
        BY <1>2, EndsProperties
      <4> HIDE DEF more
      <4>6. ASSUME whole = s, Len(s) # 1
            PROVE  more # <<>>
        <5>1. Len(s) >= 2 /\ Len(whole) = Len(s)
          BY <4>4, <4>6
        <5>2. Len(more) # 0
          BY <4>2, <4>4, <5>1
        <5>. QED  BY <5>2
      <4>. QED  BY <3>1, <4>2, <4>3, <4>5, <4>6
    <3>2. CASE ~glued
      BY <2>3, <3>2
    <3>. QED  BY <3>1, <3>2
  <2>5. Spoiled(f, s) = IF f.end = "line" THEN {}
                        ELSE IF f.end = "half" THEN {Head(s)}
                        ELSE {Head(s), Last(f.lines)}
    BY <1>0, <1>2 DEF Spoiled, Ends
  <2>6. last \in Ends /\ (last = "bare" => more # <<>>)
    <3>1. end = "bare" => whole = s
      OBVIOUS
    <3>2. end = "bare" /\ ~glued => more = s
      BY <3>1
    <3> HIDE DEF whole, more
    <3>. QED  BY <1>2, <2>4, <3>1, <3>2 DEF Ends
  <2> HIDE DEF base, whole, more, last
  <2>7. /\ base \o more \in Seq(Msgs) /\ Len(base \o more) = Len(base) + Len(more)
        /\ ToSet(base \o more) = ToSet(base) \cup ToSet(more)
        /\ IsInjective(base) /\ IsInjective(more) /\ ToSet(base) \cap ToSet(more) = {} =>
             IsInjective(base \o more)
    BY <2>2, <2>4, JoinProperties
  <2>8. g.lines = base \o more /\ g.end = last
    BY <2>1
  <2>9. FileOK(g)
    <3>1. g \in Files
      BY <2>1, <2>6, <2>7 DEF Files
    <3>2. g.end = "bare" => g.lines # <<>>
      BY <2>2, <2>4, <2>6, <2>7, <2>8
    <3>. QED  BY <3>1, <3>2 DEF FileOK
  <2>10. Readable(g) = ToSet(base) \cup ToSet(more)
    BY <2>7, <2>8 DEF Readable
  <2>11. Readable(g) \subseteq Readable(f) \cup ToSet(s)
    BY <2>2, <2>3, <2>4, <2>10
  <2>12. Readable(f) \subseteq Readable(g) \cup Spoiled(f, s)
    BY <1>0, <2>2, <2>5, <2>10 DEF Ends
  <2>13. end = "line" => ToSet(s) \subseteq Readable(g) \cup Spoiled(f, s)
    BY <2>3, <2>4, <2>5, <2>10
  <2>14. IsInjective(f.lines) /\ IsInjective(s) /\ Readable(f) \cap ToSet(s) = {} =>
           IsInjective(g.lines)
    <3>1. Readable(f) \cap ToSet(s) = {} => ToSet(base) \cap ToSet(more) = {}
      BY <2>2, <2>3, <2>4
    <3>. QED  BY <2>2, <2>3, <2>4, <2>7, <2>8, <3>1
  <2>. QED  BY <2>9, <2>11, <2>12, <2>13, <2>14
<1>. QED  BY <1>1, <1>2

\* What is spoiled is a message, and an earlier end of the write spoils no more.
LEMMA SpoiledProperties ==
  ASSUME NEW f, FileOK(f), NEW s \in Seq(Msgs), NEW k \in 0..Len(s)
  PROVE  /\ Spoiled(f, s) \subseteq Msgs
         /\ Spoiled(f, SubSeq(s, 1, k)) \subseteq Spoiled(f, s)
<1>0. f.lines \in Seq(Msgs) /\ f.end \in Ends /\ (f.end = "bare" => f.lines # <<>>)
  BY DEF FileOK, Files
<1>1. CASE s = <<>>
  <2>1. k = 0
    BY <1>1
  <2>2. SubSeq(s, 1, k) = <<>>
    BY <2>1, SubSeqEmpty
  <2>3. Spoiled(f, <<>>) = {}
    BY DEF Spoiled
  <2>. QED  BY <1>1, <2>2, <2>3
<1>2. CASE s # <<>>
  <2>1. Head(s) \in Msgs /\ Head(s) = s[1] /\ Len(s) >= 1
    BY <1>2, EndsProperties
  <2>2. f.end = "bare" => Last(f.lines) \in Msgs
    BY <1>0, EndsProperties DEF Last
  <2>3. Spoiled(f, s) \subseteq Msgs
    BY <1>0, <1>2, <2>1, <2>2 DEF Spoiled, Ends
  <2> DEFINE t == SubSeq(s, 1, k)
  <2>4. IsPart(t, Msgs, s, 1, k)
    BY PartProperties
  <2> HIDE DEF t
  <2>5. t # <<>> => Head(t) = Head(s)
    <3>1. ASSUME t # <<>>
          PROVE  Head(t) = Head(s)
      <4>1. Len(t) >= 1 /\ Head(t) = t[1] /\ t \in Seq(Msgs)
        BY <2>4, <3>1, EndsProperties DEF IsPart
      <4>2. t[1] = s[1 + 1 - 1]
        BY <2>4, <4>1 DEF IsPart
      <4>. QED  BY <2>1, <4>1, <4>2
    <3>. QED  BY <3>1
  <2>6. Spoiled(f, t) \subseteq Spoiled(f, s)
    BY <1>0, <1>2, <2>5 DEF Spoiled, Ends
  <2>. QED  BY <2>3, <2>6 DEF t
<1>. QED  BY <1>1, <1>2

\* A write that stops anywhere leaves a file that is no worse: what it has is old or
\* of the batch, once, and what is lost is what the first record spoiled.
LEMMA CutProperties ==
  ASSUME NEW f, FileOK(f), NEW s \in Seq(Msgs), NEW g \in Cut(f, s)
  PROVE  /\ FileOK(g)
         /\ Readable(g) \subseteq Readable(f) \cup ToSet(s)
         /\ Readable(f) \subseteq Readable(g) \cup Spoiled(f, s)
         /\ IsInjective(f.lines) /\ IsInjective(s) /\ Readable(f) \cap ToSet(s) = {} =>
              IsInjective(g.lines)
<1>1. PICK k \in 0..Len(s), end \in Ends : g = Put(f, SubSeq(s, 1, k), end)
  BY DEF Cut
<1> DEFINE t == SubSeq(s, 1, k)
<1>2. IsPart(t, Msgs, s, 1, k)
  BY PartProperties
<1>3. Spoiled(f, t) \subseteq Spoiled(f, s)
  BY SpoiledProperties
<1> HIDE DEF t
<1>4. t \in Seq(Msgs) /\ ToSet(t) \subseteq ToSet(s) /\ (IsInjective(s) => IsInjective(t))
  BY <1>2 DEF IsPart
<1>5. g = Put(f, t, end)
  BY <1>1 DEF t
<1>6. /\ FileOK(g)
      /\ Readable(g) \subseteq Readable(f) \cup ToSet(t)
      /\ Readable(f) \subseteq Readable(g) \cup Spoiled(f, t)
      /\ IsInjective(f.lines) /\ IsInjective(t) /\ Readable(f) \cap ToSet(t) = {} =>
           IsInjective(g.lines)
  BY <1>4, <1>5, PutProperties
<1>. QED  BY <1>3, <1>4, <1>6

-----------------------------------------------------------------------------
(* The state stays well formed.                                            *)

Typed == TypeOK /\ FileOK(file) /\ PipeInv

USE DEF Goes, Fault, store, ghosts, Locked

\* No message has the number 0, by which NotLoaded and Never are told apart.
LEMMA Numbers ==
  /\ MaxMsgs \in Nat /\ MaxFaults \in Nat /\ MaxClears \in Nat
  /\ 0 \notin Msgs /\ Fresh \in Records /\ Idle \in Pipes /\ FileOK(Empty)
  /\ ToSet(Empty.lines) = {}
<1>1. MaxMsgs \in Nat /\ MaxFaults \in Nat /\ MaxClears \in Nat
  BY HistoryAssumption
<1>2. 0 \notin Msgs
  BY <1>1 DEF Msgs
<1>3. Fresh \in Records
  BY DEF Fresh, Records
<1>4. <<>> \in Seq(Msgs)
  OBVIOUS
<1>5. Idle \in Pipes
  BY <1>3, <1>4 DEF Idle, Pipes, Places
<1>6. FileOK(Empty)
  BY <1>4 DEF FileOK, Files, Empty, Ends
<1>7. ToSet(Empty.lines) = {}
  BY DEF Empty, ToSet
<1>. QED  BY <1>1, <1>2, <1>3, <1>5, <1>6, <1>7

\* A pipeline that neither takes nor gives up the lock.
LEMMA PipeTyped ==
  ASSUME Typed, NEW p \in Pipelines, NEW q \in Pipes, pipe' = [pipe EXCEPT ![p] = q],
         pipe[p].at \in Locked <=> q.at \in Locked, UNCHANGED <<lock, file, known, clear, orphan>>,
         posted' \in 0..MaxMsgs, raw' \in SUBSET Msgs, recorded' = Torn \/ recorded' \in Records,
         faults' \in 0..MaxFaults, clears' \in 0..MaxClears, crossed' \in BOOLEAN,
         forfeited' \in SUBSET Msgs
  PROVE  Typed'
<1>1. PipeInv'
  BY DEF Typed, PipeInv
<1>2. \A r \in Pipelines : pipe'[r] = IF r = p THEN q ELSE pipe[r]
  BY DEF Typed, PipeInv
<1>3. \A r \in Pipelines : pipe'[r].at \in Places
  BY <1>1 DEF PipeInv, Pipes
<1>4. \A r \in Pipelines : pipe'[r].at \in Locked <=> lock' = r
  BY <1>2 DEF Typed, TypeOK
<1>5. TypeOK'
  BY <1>3, <1>4 DEF Typed, TypeOK, Places
<1>6. FileOK(file')
  BY DEF Typed
<1>. QED  BY <1>1, <1>5, <1>6 DEF Typed

\* The messages of a channel so far.
LEMMA PostedProperties ==
  ASSUME Typed, NEW c \in Channels
  PROVE  Posted(c) \subseteq Msgs
BY Numbers DEF Posted, Typed, TypeOK, Msgs

\* The steps of a pipeline that do not take the lock.
LEMMA UnlockedTyped ==
  ASSUME Typed, NEW p \in Pipelines,
         \/ EvaluateStarts(p) \/ ReparseStarts(p) \/ SaveBegins(p) \/ SaveEnds(p) \/ SaveFails(p)
         \/ \E c \in Channels : Exported(p, c) \/ ExportFails(p, c) \/ ExportTruncated(p, c)
  PROVE  Typed'
<1>0. /\ pipe[p] \in Pipes /\ pipe \in [Pipelines -> Pipes]
      /\ posted \in 0..MaxMsgs /\ raw \in SUBSET Msgs /\ (recorded = Torn \/ recorded \in Records)
      /\ faults \in 0..MaxFaults /\ clears \in 0..MaxClears /\ crossed \in BOOLEAN
      /\ forfeited \in SUBSET Msgs
  BY DEF Typed, TypeOK, PipeInv
<1> DEFINE Kept == UNCHANGED <<lock, file, known, clear, orphan>>
<1>1. CASE EvaluateStarts(p)
  <2> DEFINE q == [Idle EXCEPT !.at = "loop", !.job = "evaluate", !.state = LoadState,
                               !.todo = NeedsExport(LoadState)]
  <2>1. LoadState \in Records
    BY <1>0, Numbers DEF LoadState
  <2>2. q \in Pipes /\ q.at = "loop"
    BY <2>1, Numbers DEF Pipes, Places, NeedsExport, Idle
  <2>3. pipe[p].at = "idle" /\ pipe' = [pipe EXCEPT ![p] = q]
    BY <1>1 DEF EvaluateStarts
  <2> HIDE DEF q
  <2>. QED  BY <1>0, <1>1, <2>2, <2>3, PipeTyped DEF EvaluateStarts
<1>2. CASE ReparseStarts(p)
  <2> DEFINE q == [Idle EXCEPT !.at = "append", !.job = "reparse", !.batch = raw]
  <2>1. q \in Pipes /\ q.at = "append"
    BY <1>0, Numbers DEF Pipes, Places, Idle
  <2>2. pipe[p].at = "idle" /\ pipe' = [pipe EXCEPT ![p] = q]
    BY <1>2 DEF ReparseStarts
  <2> HIDE DEF q
  <2>. QED  BY <1>0, <1>2, <2>1, <2>2, PipeTyped DEF ReparseStarts
<1>3. CASE SaveBegins(p)
  <2> DEFINE q == [pipe[p] EXCEPT !.at = "save"]
  <2>1. q \in Pipes /\ q.at = "save"
    BY <1>0 DEF Pipes, Places
  <2>2. pipe[p].at = "loop" /\ pipe' = [pipe EXCEPT ![p] = q]
    BY <1>3 DEF SaveBegins
  <2> HIDE DEF q
  <2>. QED  BY <1>0, <1>3, <2>1, <2>2, PipeTyped DEF SaveBegins
<1>4. CASE SaveEnds(p) \/ SaveFails(p)
  <2>1. Idle.at = "idle"
    BY DEF Idle
  <2>2. pipe[p].at \in {"loop", "save"} /\ pipe' = [pipe EXCEPT ![p] = Idle]
    BY <1>4 DEF SaveEnds, SaveFails
  <2>3. recorded' = Torn \/ recorded' \in Records
    BY <1>0, <1>4 DEF SaveEnds, SaveFails, Pipes
  <2>4. faults' \in 0..MaxFaults
    BY <1>0, <1>4, Numbers DEF SaveEnds, SaveFails
  <2>5. UNCHANGED <<posted, raw, lock, file, known, clear, orphan, clears, crossed, forfeited>>
    BY <1>4 DEF SaveEnds, SaveFails
  <2>. QED  BY <1>0, <2>1, <2>2, <2>3, <2>4, <2>5, Numbers, PipeTyped
<1>5. ASSUME NEW c \in Channels, Exported(p, c) \/ ExportFails(p, c) \/ ExportTruncated(p, c)
      PROVE  Typed'
  <2>1. Posted(c) \subseteq Msgs
    BY PostedProperties
  <2>2. \E q \in Pipes : q.at \notin Locked /\ pipe' = [pipe EXCEPT ![p] = q]
    <3>1. ASSUME NEW b \in SUBSET Msgs, Takes(p, c, b)
          PROVE  \E q \in Pipes : q.at \notin Locked /\ pipe' = [pipe EXCEPT ![p] = q]
      <4> DEFINE q == [pipe[p] EXCEPT !.at = IF b = {} THEN "loop" ELSE "append",
                         !.todo = pipe[p].todo \ {c},
                         !.state = [pipe[p].state EXCEPT ![c] = Posted(c)], !.batch = b]
      <4>1. [pipe[p].state EXCEPT ![c] = Posted(c)] \in Records
        BY <1>0, <2>1 DEF Pipes, Records
      <4>2. (IF b = {} THEN "loop" ELSE "append") \in Places \ Locked
        BY DEF Places
      <4>4. q \in Pipes /\ q.at \notin Locked
        BY <1>0, <4>1, <4>2 DEF Pipes
      <4>5. pipe' = [pipe EXCEPT ![p] = q]
        BY <3>1 DEF Takes
      <4> HIDE DEF q
      <4>. QED  BY <4>4, <4>5
    <3>2. ASSUME ExportFails(p, c)
          PROVE  \E q \in Pipes : q.at \notin Locked /\ pipe' = [pipe EXCEPT ![p] = q]
      <4> DEFINE q == [pipe[p] EXCEPT !.todo = @ \ {c}]
      <4>1. q \in Pipes /\ q.at \notin Locked
        BY <1>0, <3>2 DEF Pipes, Places, ExportFails
      <4>2. pipe' = [pipe EXCEPT ![p] = q]
        BY <3>2 DEF ExportFails
      <4> HIDE DEF q
      <4>. QED  BY <4>1, <4>2
    <3>. QED  BY <1>5, <2>1, <3>1, <3>2 DEF Exported, ExportTruncated
  <2>3. pipe[p].at = "loop"
    BY <1>5 DEF Exported, ExportFails, ExportTruncated
  <2>4. raw' \in SUBSET Msgs /\ forfeited' \in SUBSET Msgs /\ faults' \in 0..MaxFaults
    BY <1>0, <1>5, <2>1, Numbers DEF Exported, ExportFails, ExportTruncated
  <2>5. UNCHANGED <<posted, recorded, lock, file, known, clear, orphan, clears, crossed>>
    BY <1>5 DEF Exported, ExportFails, ExportTruncated
  <2>. QED  BY <1>0, <2>2, <2>3, <2>4, <2>5, PipeTyped
<1>. QED  BY <1>1, <1>2, <1>3, <1>4, <1>5

\* What an append leaves of its pipeline.
LEMMA AppendedProperties ==
  ASSUME PipeInv, NEW p \in Pipelines, Appended(p)
  PROVE  \E q \in Pipes : /\ pipe' = [pipe EXCEPT ![p] = q] /\ q.at \in {"loop", "refresh"}
                          /\ q.state = pipe[p].state
<1>0. pipe[p] \in Pipes
  BY DEF PipeInv
<1> DEFINE q == IF pipe[p].job = "evaluate"
                THEN [pipe[p] EXCEPT !.at = "loop", !.batch = {}, !.fresh = {}]
                ELSE [pipe[p] EXCEPT !.at = "refresh", !.batch = {}, !.fresh = {}]
<1>1. q \in Pipes /\ q.at \in {"loop", "refresh"} /\ q.state = pipe[p].state
  BY <1>0 DEF Pipes, Places
<1>2. pipe' = [pipe EXCEPT ![p] = q]
  BY DEF Appended
<1> HIDE DEF q
<1>. QED  BY <1>1, <1>2

\* A pipeline takes the lock, or gives it up.
LEMMA LockTyped ==
  ASSUME Typed, NEW p \in Pipelines, NEW q \in Pipes, pipe' = [pipe EXCEPT ![p] = q],
         \/ lock = NoOne /\ lock' = p /\ q.at \in Locked
         \/ pipe[p].at \in Locked /\ lock' = NoOne /\ q.at \notin Locked,
         known' = NotLoaded \/ known' \in SUBSET Msgs, FileOK(file'),
         forfeited' \in SUBSET Msgs, faults' \in 0..MaxFaults, orphan' \in BOOLEAN,
         UNCHANGED <<posted, raw, recorded, clear, clears, crossed>>
  PROVE  Typed'
<1>1. PipeInv'
  BY DEF Typed, PipeInv
<1>2. \A r \in Pipelines : pipe'[r] = IF r = p THEN q ELSE pipe[r]
  BY DEF Typed, PipeInv
<1>3. \A r \in Pipelines : pipe'[r].at \in Places
  BY <1>1 DEF PipeInv, Pipes
<1>4. \A r \in Pipelines : pipe'[r].at \in Locked <=> lock' = r
  BY <1>2, HistoryAssumption DEF Typed, TypeOK
<1>5. file'.lines \in Seq(Msgs) /\ file'.end \in Ends
  BY DEF FileOK, Files
<1>6. TypeOK'
  BY <1>3, <1>4, <1>5 DEF Typed, TypeOK, Places
<1>. QED  BY <1>1, <1>6 DEF Typed

\* What a writer is about to write.
Batch(p) == Ordered(pipe[p].fresh)

LEMMA BatchProperties ==
  ASSUME PipeInv, NEW p \in Pipelines
  PROVE  Batch(p) \in Seq(Msgs) /\ IsInjective(Batch(p)) /\ ToSet(Batch(p)) = pipe[p].fresh
<1>1. pipe[p].fresh \in SUBSET Msgs
  BY DEF PipeInv, Pipes
<1>. QED  BY <1>1, OrderedProperties DEF Batch

\* The steps of a pipeline that take or give up the lock.
LEMMA LockedTyped ==
  ASSUME Typed, NEW p \in Pipelines,
         AppendBegins(p) \/ AppendEnds(p) \/ AppendFails(p) \/ RefreshBegins(p) \/ RefreshEnds(p)
  PROVE  Typed'
<1>0. /\ pipe[p] \in Pipes /\ pipe \in [Pipelines -> Pipes] /\ FileOK(file)
      /\ file.lines \in Seq(Msgs) /\ Readable(file) \subseteq Msgs
      /\ known = NotLoaded \/ known \in SUBSET Msgs
      /\ faults \in 0..MaxFaults /\ orphan \in BOOLEAN /\ forfeited \in SUBSET Msgs
  <2>1. file.lines \in Seq(Msgs)
    BY DEF Typed, FileOK, Files
  <2>2. ToSet(file.lines) \subseteq Msgs
    BY <2>1 DEF ToSet
  <2>. QED  BY <2>1, <2>2 DEF Typed, TypeOK, PipeInv, Readable
<1>1. CASE AppendBegins(p)
  <2> DEFINE ids == IF known = NotLoaded THEN Readable(file) ELSE known
             q == [pipe[p] EXCEPT !.at = "write", !.fresh = pipe[p].batch \ ids]
  <2>1. ids \in SUBSET Msgs
    BY <1>0
  <2>2. q \in Pipes /\ q.at \in Locked
    BY <1>0 DEF Pipes, Places
  <2>3. pipe' = [pipe EXCEPT ![p] = q]
    BY <1>0, <1>1 DEF AppendBegins
  <2>4. known' \in SUBSET Msgs
    BY <1>0, <1>1, <2>1 DEF AppendBegins, Pipes
  <2> HIDE DEF q
  <2>. QED  BY <1>0, <1>1, <2>2, <2>3, <2>4, LockTyped DEF AppendBegins
<1>2. CASE AppendEnds(p)
  <2>1. PICK q \in Pipes : pipe' = [pipe EXCEPT ![p] = q] /\ q.at \in {"loop", "refresh"}
    BY <1>2, AppendedProperties DEF AppendEnds, Typed
  <2>2. Batch(p) \in Seq(Msgs)
    BY BatchProperties DEF Typed
  <2>3. FileOK(Put(file, Batch(p), "line")) /\ Spoiled(file, Batch(p)) \subseteq Msgs
    <3>1. "line" \in Ends /\ 0 \in 0..Len(Batch(p))
      BY <2>2 DEF Ends
    <3>. QED  BY <1>0, <2>2, <3>1, PutProperties, SpoiledProperties
  <2>4. FileOK(file') /\ forfeited' \in SUBSET Msgs
    BY <1>0, <1>2, <2>3 DEF AppendEnds, Batch
  <2>5. known' \in SUBSET Msgs
    BY <1>0, <1>2 DEF AppendEnds, Pipes, NotLoaded
  <2>. QED  BY <1>0, <1>2, <2>1, <2>4, <2>5, LockTyped DEF AppendEnds
<1>3. CASE AppendFails(p)
  <2>1. PICK q \in Pipes : pipe' = [pipe EXCEPT ![p] = q] /\ q.at \in {"loop", "refresh"}
    BY <1>3, AppendedProperties DEF AppendFails, Typed
  <2>2. Batch(p) \in Seq(Msgs)
    BY BatchProperties DEF Typed
  <2>3. PICK j \in 0..Len(Batch(p)) :
          /\ known' = known \ ToSet(SubSeq(Batch(p), j + 1, Len(Batch(p))))
          /\ IF orphan THEN UNCHANGED file ELSE file' \in Cut(file, SubSeq(Batch(p), 1, j))
    BY <1>3 DEF AppendFails, Batch
  <2>4. FileOK(file')
    <3>1. IsPart(SubSeq(Batch(p), 1, j), Msgs, Batch(p), 1, j)
      BY <2>2, PartProperties
    <3>2. SubSeq(Batch(p), 1, j) \in Seq(Msgs)
      BY <3>1 DEF IsPart
    <3>. QED  BY <1>0, <2>3, <3>2, CutProperties
  <2>5. forfeited' \in SUBSET Msgs
    <3>1. Spoiled(file, Batch(p)) \subseteq Msgs
      BY <1>0, <2>2, SpoiledProperties
    <3>. QED  BY <1>0, <1>3, <3>1 DEF AppendFails, Batch, Pipes
  <2>6. known' = NotLoaded \/ known' \in SUBSET Msgs
    <3>1. known = NotLoaded => known' \in {NotLoaded, {}}
      BY <2>3 DEF NotLoaded
    <3>. QED  BY <1>0, <2>3, <3>1
  <2>7. faults' \in 0..MaxFaults
    BY <1>0, <1>3, Numbers DEF AppendFails
  <2>8. /\ pipe[p].at \in Locked /\ lock' = NoOne /\ orphan' \in BOOLEAN
        /\ UNCHANGED <<posted, raw, recorded, clear, clears, crossed>>
    BY <1>3 DEF AppendFails
  <2>. QED  BY <2>1, <2>4, <2>5, <2>6, <2>7, <2>8, LockTyped
<1>4. CASE RefreshBegins(p)
  <2> DEFINE q == [pipe[p] EXCEPT !.at = "rewrite", !.copy = file.lines]
  <2>1. q \in Pipes /\ q.at \in Locked
    BY <1>0 DEF Pipes, Places
  <2>2. pipe' = [pipe EXCEPT ![p] = q]
    BY <1>0, <1>4 DEF RefreshBegins
  <2> HIDE DEF q
  <2>. QED  BY <1>0, <1>4, <2>1, <2>2, LockTyped DEF RefreshBegins
<1>5. CASE RefreshEnds(p)
  <2>1. FileOK(file')
    BY <1>0, <1>5 DEF RefreshEnds, Rewrites, FileOK, Files, Ends, Pipes
  <2>2. Idle \in Pipes /\ Idle.at \notin Locked
    BY Numbers DEF Idle
  <2>. QED  BY <1>0, <1>5, <2>1, <2>2, LockTyped DEF RefreshEnds
<1>. QED  BY <1>1, <1>2, <1>3, <1>4, <1>5

\* Posting, the process ending, and /clear.
LEMMA OutsideTyped ==
  ASSUME Typed, Post \/ Crash \/ ClearStep
  PROVE  Typed'
<1>0. /\ pipe \in [Pipelines -> Pipes] /\ FileOK(file)
      /\ \A p \in Pipelines : pipe[p].at \in Places /\ (pipe[p].at \in Locked <=> lock = p)
      /\ posted \in 0..MaxMsgs /\ raw \in SUBSET Msgs /\ (recorded = Torn \/ recorded \in Records)
      /\ known = NotLoaded \/ known \in SUBSET Msgs
      /\ faults \in 0..MaxFaults /\ clears \in 0..MaxClears /\ crossed \in BOOLEAN
      /\ forfeited \in SUBSET Msgs /\ orphan \in BOOLEAN
      /\ lock \in Pipelines \cup {NoOne} /\ clear \in {"no", "cache", "raw", "state"}
  BY DEF Typed, TypeOK, PipeInv, Places
<1>1. \A f : FileOK(f) => f.lines \in Seq(Msgs) /\ f.end \in Ends
  BY DEF FileOK, Files
<1>2. CASE Post
  BY <1>0, <1>1, <1>2, Numbers DEF Post, Typed, TypeOK, PipeInv, Places
<1>3. CASE Crash
  <2>1. FileOK(file') /\ forfeited' \in SUBSET Msgs
    <3>1. CASE lock # NoOne /\ pipe[lock].at = "write" /\ ~orphan
      <4>1. lock \in Pipelines
        BY <1>0, <3>1
      <4>2. Batch(lock) \in Seq(Msgs)
        BY <4>1, BatchProperties DEF Typed
      <4>3. file' \in Cut(file, Batch(lock)) /\ forfeited' = forfeited \cup Spoiled(file, Batch(lock))
        BY <1>3, <3>1 DEF Crash, Batch
      <4>4. 0 \in 0..Len(Batch(lock))
        BY <4>2
      <4>. QED  BY <1>0, <4>2, <4>3, <4>4, CutProperties, SpoiledProperties
    <3>2. CASE ~(lock # NoOne /\ pipe[lock].at = "write" /\ ~orphan)
      BY <1>0, <1>3, <3>2 DEF Crash
    <3>. QED  BY <3>1, <3>2
  <2>2. pipe' = [p \in Pipelines |-> Idle] /\ Idle \in Pipes /\ Idle.at = "idle"
    BY <1>3, Numbers DEF Crash, Idle
  <2>3. PipeInv' /\ \A p \in Pipelines : pipe'[p].at = "idle"
    BY <2>2 DEF PipeInv
  <2>4. faults' \in 0..MaxFaults
    BY <1>0, <1>3, Numbers DEF Crash
  <2>5. crossed' \in BOOLEAN /\ lock' = NoOne /\ clear' = "no" /\ orphan' = FALSE
        /\ known' = NotLoaded /\ UNCHANGED <<posted, raw, recorded, clears>>
    BY <1>0, <1>3 DEF Crash
  <2>6. file'.lines \in Seq(Msgs) /\ file'.end \in Ends
    BY <1>1, <2>1
  <2>7. TypeOK'
    BY <1>0, <2>1, <2>3, <2>4, <2>5, <2>6, HistoryAssumption DEF TypeOK, Places
  <2>. QED  BY <2>1, <2>3, <2>7 DEF Typed
<1>4. CASE ClearArchive
  <2>1. FileOK(file')
    BY <1>0, <1>4, Numbers DEF ClearArchive
  <2>2. faults' \in 0..MaxFaults /\ clears' \in 0..MaxClears
    <3>1. /\ clears < MaxClears /\ clears' = clears + 1
          /\ UNCHANGED faults \/ (faults < MaxFaults /\ faults' = faults + 1)
      BY <1>4 DEF ClearArchive
    <3>. QED  BY <1>0, <3>1, Numbers
  <2>3. crossed' \in BOOLEAN /\ orphan' \in BOOLEAN /\ clear' = "cache"
    BY <1>0, <1>4 DEF ClearArchive, Clears
  <2>. QED  BY <1>0, <1>1, <1>4, <2>1, <2>2, <2>3
            DEF ClearArchive, Typed, TypeOK, PipeInv, Places
<1>5. CASE ClearCache
  BY <1>0, <1>1, <1>5 DEF ClearCache, Clears, Typed, TypeOK, PipeInv, Places
<1>6. CASE ClearRaw
  <2>1. faults' \in 0..MaxFaults /\ raw' \in SUBSET Msgs
    BY <1>0, <1>6, Numbers DEF ClearRaw
  <2>. QED  BY <1>0, <1>1, <1>6, <2>1 DEF ClearRaw, Clears, Typed, TypeOK, PipeInv, Places
<1>7. CASE ClearState
  <2>1. PipeInv' /\ \A p \in Pipelines : pipe'[p].at \in Places /\ (pipe'[p].at \in Locked <=> lock = p)
    <3>1. CASE UNCHANGED pipe
      BY <1>0, <3>1 DEF PipeInv
    <3>2. CASE pipe' = [p \in Pipelines |-> IF pipe[p].at = "save" THEN Idle ELSE pipe[p]]
      <4>1. Idle \in Pipes /\ Idle.at = "idle"
        BY Numbers DEF Idle
      <4>. QED  BY <1>0, <3>2, <4>1 DEF PipeInv, Places
    <3>. QED  BY <1>7, <3>1, <3>2 DEF ClearState
  <2>2. faults' \in 0..MaxFaults
    BY <1>0, <1>7, Numbers DEF ClearState
  <2>4. recorded' = Torn \/ recorded' \in Records
    BY <1>0, <1>7, Numbers DEF ClearState
  <2>3. crossed' \in BOOLEAN /\ clear' = "no"
    BY <1>0, <1>7 DEF ClearState, Clears
  <2>. QED  BY <1>0, <1>1, <1>7, <2>1, <2>2, <2>3, <2>4 DEF ClearState, Typed, TypeOK, Places
<1>. QED  BY <1>2, <1>3, <1>4, <1>5, <1>6, <1>7 DEF ClearStep

-----------------------------------------------------------------------------
(* Nothing leaves the archive.                                             *)

\* A write that fails, in the terms of Batch.
LEMMA FailureProperties ==
  ASSUME Typed, NEW p \in Pipelines, AppendFails(p), ~orphan
  PROVE  \E written \in SUBSET pipe[p].fresh :
           /\ known' = known \ (pipe[p].fresh \ written)
           /\ Readable(file') \subseteq Readable(file) \cup written
           /\ Readable(file) \subseteq Readable(file') \cup forfeited'
           /\ IsInjective(file.lines) /\ Readable(file) \cap pipe[p].fresh = {} =>
                IsInjective(file'.lines)
<1> DEFINE s == Batch(p)
<1>1. s \in Seq(Msgs) /\ IsInjective(s) /\ ToSet(s) = pipe[p].fresh
  BY BatchProperties DEF Typed
<1>2. PICK j \in 0..Len(s) : /\ known' = known \ ToSet(SubSeq(s, j + 1, Len(s)))
                             /\ file' \in Cut(file, SubSeq(s, 1, j))
  BY DEF AppendFails, Batch
<1>3. forfeited' = forfeited \cup pipe[p].fresh \cup Spoiled(file, s)
  BY DEF AppendFails, Batch
<1> HIDE DEF s
<1> DEFINE a == SubSeq(s, 1, j)
           b == SubSeq(s, j + 1, Len(s))
<1>4. IsPart(a, Msgs, s, 1, j)
  BY <1>1, PartProperties
<1>5. IsPart(b, Msgs, s, j + 1, Len(s))
  <2>1. Len(s) \in 0..Len(s) /\ j + 1 \in Nat \ {0}
    BY <1>1
  <2>. QED  BY <1>1, <2>1, PartProperties
<1>6. Spoiled(file, a) \subseteq Spoiled(file, s)
  BY <1>1, SpoiledProperties DEF Typed
<1> HIDE DEF a, b
<1>7. ToSet(a) \cap ToSet(b) = {} /\ ToSet(a) \cup ToSet(b) = ToSet(s)
  <2>1. \A x \in ToSet(a) : \E i \in 1..j : x = s[i]
    BY <1>4 DEF IsPart
  <2>2. \A x \in ToSet(b) : \E i \in (j + 1)..Len(s) : x = s[i]
    BY <1>5 DEF IsPart
  <2>3. \A i \in 1..j, k \in (j + 1)..Len(s) : s[i] # s[k]
    <3>1. DOMAIN s = 1..Len(s)
      BY <1>1
    <3>2. \A i \in 1..j, k \in (j + 1)..Len(s) : i \in 1..Len(s) /\ k \in 1..Len(s) /\ i # k
      BY <1>1
    <3>. QED  BY <1>1, <3>1, <3>2 DEF IsInjective
  <2>4. \A x \in ToSet(s) : x \in ToSet(a) \/ x \in ToSet(b)
    <3>. TAKE x \in ToSet(s)
    <3>1. PICK i \in 1..Len(s) : x = s[i]
      BY <1>1 DEF ToSet
    <3>2. i \in 1..j \/ i \in (j + 1)..Len(s)
      BY <1>1
    <3>. QED  BY <1>4, <1>5, <3>1, <3>2 DEF IsPart
  <2>5. ToSet(a) \subseteq ToSet(s) /\ ToSet(b) \subseteq ToSet(s)
    BY <1>4, <1>5 DEF IsPart
  <2>. QED  BY <2>1, <2>2, <2>3, <2>4, <2>5
<1>8. /\ Readable(file') \subseteq Readable(file) \cup ToSet(a)
      /\ Readable(file) \subseteq Readable(file') \cup Spoiled(file, a)
      /\ IsInjective(file.lines) /\ IsInjective(a) /\ Readable(file) \cap ToSet(a) = {} =>
           IsInjective(file'.lines)
  <2>1. a \in Seq(Msgs) /\ file' \in Cut(file, a) /\ FileOK(file)
    BY <1>2, <1>4 DEF IsPart, a, Typed
  <2>. QED  BY <2>1, CutProperties
<1>9. IsInjective(a)
  BY <1>1, <1>4 DEF IsPart
<1>10. known' = known \ ToSet(b)
  BY <1>2 DEF b
<1>11. ToSet(b) = pipe[p].fresh \ ToSet(a) /\ ToSet(a) \subseteq pipe[p].fresh
  BY <1>1, <1>7
<1>. QED  BY <1>3, <1>6, <1>8, <1>9, <1>10, <1>11

\* A write that ends, in the same terms.
LEMMA WriteProperties ==
  ASSUME Typed, NEW p \in Pipelines, AppendEnds(p), ~orphan
  PROVE  /\ Readable(file') \subseteq Readable(file) \cup pipe[p].fresh
         /\ Readable(file) \cup pipe[p].fresh \subseteq Readable(file') \cup forfeited'
         /\ IsInjective(file.lines) /\ Readable(file) \cap pipe[p].fresh = {} =>
              IsInjective(file'.lines)
<1> DEFINE s == Batch(p)
<1>1. s \in Seq(Msgs) /\ IsInjective(s) /\ ToSet(s) = pipe[p].fresh
  BY BatchProperties DEF Typed
<1>2. file' = Put(file, s, "line") /\ forfeited' = forfeited \cup Spoiled(file, s)
  BY DEF AppendEnds, Batch
<1> HIDE DEF s
<1>3. FileOK(file) /\ "line" \in Ends
  BY DEF Typed, Ends
<1>4. /\ Readable(file') \subseteq Readable(file) \cup ToSet(s)
      /\ Readable(file) \subseteq Readable(file') \cup Spoiled(file, s)
      /\ ToSet(s) \subseteq Readable(file') \cup Spoiled(file, s)
      /\ IsInjective(file.lines) /\ IsInjective(s) /\ Readable(file) \cap ToSet(s) = {} =>
           IsInjective(file'.lines)
  BY <1>1, <1>2, <1>3, PutProperties
<1>. QED  BY <1>1, <1>2, <1>4

\* The process ends, in the middle of a write or not.
LEMMA CrashProperties ==
  ASSUME Typed, Crash
  PROVE  /\ Readable(file) \subseteq Readable(file') \cup forfeited'
         /\ forfeited \subseteq forfeited'
         /\ IsInjective(file.lines)
            /\ (\A p \in Pipelines : pipe[p].at = "write" => Readable(file) \cap pipe[p].fresh = {}) =>
              IsInjective(file'.lines)
<1>1. CASE lock # NoOne /\ pipe[lock].at = "write" /\ ~orphan
  <2>1. lock \in Pipelines
    BY <1>1 DEF Typed, TypeOK
  <2> DEFINE s == Batch(lock)
  <2>2. s \in Seq(Msgs) /\ IsInjective(s) /\ ToSet(s) = pipe[lock].fresh
    BY <2>1, BatchProperties DEF Typed
  <2>3. file' \in Cut(file, s) /\ forfeited' = forfeited \cup Spoiled(file, s)
    BY <1>1 DEF Crash, Batch
  <2> HIDE DEF s
  <2>4. /\ Readable(file) \subseteq Readable(file') \cup Spoiled(file, s)
        /\ IsInjective(file.lines) /\ IsInjective(s) /\ Readable(file) \cap ToSet(s) = {} =>
             IsInjective(file'.lines)
    BY <2>2, <2>3, CutProperties DEF Typed
  <2>. QED  BY <1>1, <2>1, <2>2, <2>3, <2>4
<1>2. CASE ~(lock # NoOne /\ pipe[lock].at = "write" /\ ~orphan)
  BY <1>2 DEF Crash
<1>. QED  BY <1>1, <1>2

\* Until a /clear meets a pipeline, only ClearArchive takes anything out.
LEMMA ArchiveGrows ==
  ASSUME IInv, [Next]_vars, ~crossed, ~ClearArchive
  PROVE  /\ Readable(file) \subseteq Readable(file') \cup forfeited'
         /\ forfeited \subseteq forfeited'
<1>0. Typed /\ Orderly /\ ~orphan
  BY DEF IInv, Typed, Orderly, ClearInv
<1>1. UNCHANGED file /\ forfeited \subseteq forfeited' =>
        Readable(file) \subseteq Readable(file') \cup forfeited'
  OBVIOUS
<1>2. ASSUME NEW p \in Pipelines, Step(p) \/ EvaluateStarts(p) \/ ReparseStarts(p)
      PROVE  /\ Readable(file) \subseteq Readable(file') \cup forfeited'
             /\ forfeited \subseteq forfeited'
  <2>1. CASE AppendEnds(p)
    BY <1>0, <2>1, WriteProperties DEF AppendEnds
  <2>2. CASE AppendFails(p)
    BY <1>0, <2>2, FailureProperties DEF AppendFails
  <2>3. CASE RefreshEnds(p)
    <3>1. file'.lines = file.lines
      BY <1>0, <2>3 DEF RefreshEnds, Rewrites, Orderly, CopyInv
    <3>. QED  BY <2>3, <3>1 DEF RefreshEnds, Readable
  <2>4. CASE AppendBegins(p) \/ RefreshBegins(p) \/ SaveBegins(p) \/ SaveEnds(p) \/ SaveFails(p)
    BY <1>1, <2>4 DEF AppendBegins, RefreshBegins, SaveBegins, SaveEnds, SaveFails
  <2>5. ASSUME NEW c \in Channels, Exported(p, c) \/ ExportFails(p, c) \/ ExportTruncated(p, c)
        PROVE  UNCHANGED file /\ forfeited \subseteq forfeited'
    BY <2>5 DEF Exported, ExportFails, ExportTruncated
  <2>6. CASE EvaluateStarts(p) \/ ReparseStarts(p)
    BY <1>1, <2>6 DEF EvaluateStarts, ReparseStarts
  <2>. QED  BY <1>1, <1>2, <2>1, <2>2, <2>3, <2>4, <2>5, <2>6 DEF Step
<1>3. CASE Crash
  BY <1>0, <1>3, CrashProperties
<1>4. CASE Post \/ ClearCache \/ ClearRaw \/ ClearState
  BY <1>1, <1>4 DEF Post, ClearCache, ClearRaw, ClearState
<1>5. CASE UNCHANGED vars
  BY <1>1, <1>5 DEF vars
<1>. QED  BY <1>2, <1>3, <1>4, <1>5 DEF Next, ClearStep

-----------------------------------------------------------------------------
(* File, index and records stay together.                                  *)

\* A pipeline that does not have the lock, before or after, and adds to its record
\* only what the archive has or it still has to append.
LEMMA UnlockedOrderly ==
  ASSUME Typed, Orderly, NEW p \in Pipelines, NEW q \in Pipes, pipe' = [pipe EXCEPT ![p] = q],
         pipe[p].at \notin Locked, q.at \notin Locked, clear = "no",
         UNCHANGED <<file, known, lock, clear, orphan>>, forfeited \subseteq forfeited',
         q.at = "idle" => q.state = Fresh,
         \A c \in Channels : q.state[c] # Never =>
           q.state[c] \subseteq Archived' \cup (IF q.at = "append" THEN q.batch ELSE {}),
         recorded' # Torn =>
           \A c \in Channels : recorded'[c] # Never => recorded'[c] \subseteq Archived'
  PROVE  Orderly'
<1>1. \A r \in Pipelines : pipe'[r] = IF r = p THEN q ELSE pipe[r]
  BY DEF Typed, PipeInv
<1>2. Archived \subseteq Archived' /\ Readable(file') = Readable(file)
  BY DEF Archived
<1>3. ClearInv'
  BY DEF Orderly, ClearInv
<1>4. CopyInv'
  BY <1>1 DEF Orderly, CopyInv
<1>5. FreshInv'
  BY <1>1, <1>2 DEF Orderly, FreshInv
<1>6. KnownInv'
  BY <1>1, <1>2 DEF Orderly, KnownInv
<1>7. StateInv'
  <2>1. ASSUME NEW r \in Pipelines, r # p
        PROVE  /\ pipe'[r].at = "idle" => pipe'[r].state = Fresh
               /\ \A c \in Channels : pipe'[r].state[c] # Never =>
                    pipe'[r].state[c] \subseteq Archived' \cup Pending(r)'
    BY <1>1, <1>2, <2>1 DEF Orderly, StateInv, Pending
  <2>2. Pending(p)' = IF q.at = "append" THEN q.batch ELSE {}
    BY <1>1 DEF Pending
  <2>3. /\ pipe'[p].at = "idle" => pipe'[p].state = Fresh
        /\ \A c \in Channels : pipe'[p].state[c] # Never =>
             pipe'[p].state[c] \subseteq Archived' \cup Pending(p)'
    BY <1>1, <2>2
  <2>. QED  BY <2>1, <2>3 DEF StateInv
<1>8. RecordInv'
  BY DEF RecordInv
<1>9. IsInjective(file.lines)'
  BY DEF Orderly
<1>. QED  BY <1>3, <1>4, <1>5, <1>6, <1>7, <1>8, <1>9 DEF Orderly

\* The steps of an evaluate or a reparse outside the lock.
LEMMA PipelineOrderly ==
  ASSUME IInv, ~crossed, ~crossed', NEW p \in Pipelines,
         \/ EvaluateStarts(p) \/ ReparseStarts(p) \/ SaveBegins(p) \/ SaveEnds(p) \/ SaveFails(p)
         \/ \E c \in Channels : Exported(p, c) \/ ExportFails(p, c) \/ ExportTruncated(p, c)
  PROVE  Orderly'
<1>0. /\ Typed /\ Orderly
      /\ pipe[p] \in Pipes /\ (recorded = Torn \/ recorded \in Records) /\ raw \in SUBSET Msgs
  BY DEF IInv, Typed, TypeOK, PipeInv
<1>1. /\ pipe[p].at # "idle" => clear = "no"
      /\ \A c \in Channels : pipe[p].state[c] # Never =>
           pipe[p].state[c] \subseteq Archived \cup Pending(p)
      /\ pipe[p].at \in {"loop", "save"} => Pending(p) = {}
  BY <1>0 DEF Orderly, ClearInv, StateInv, Pending
<1>2. /\ Fresh \in Records /\ Idle \in Pipes /\ \A c \in Channels : Fresh[c] = Never
      /\ Idle.state = Fresh /\ Idle.at = "idle"
  BY Numbers DEF Fresh, Idle
<1>3. clear = "no" /\ recorded # Torn =>
        \A c \in Channels : recorded[c] # Never => recorded[c] \subseteq Archived
  BY <1>0 DEF Orderly, RecordInv
<1>4. CASE EvaluateStarts(p)
  <2> DEFINE q == [Idle EXCEPT !.at = "loop", !.job = "evaluate", !.state = LoadState,
                               !.todo = NeedsExport(LoadState)]
  <2>1. LoadState \in Records
    BY <1>0, <1>2 DEF LoadState
  <2>2. q \in Pipes /\ q.at = "loop" /\ q.state = LoadState
    BY <2>1, Numbers DEF Pipes, Places, NeedsExport, Idle
  <2>3. /\ pipe[p].at = "idle" /\ pipe' = [pipe EXCEPT ![p] = q] /\ clear = "no"
        /\ UNCHANGED <<file, known, lock, clear, orphan, forfeited, recorded>>
    BY <1>4 DEF EvaluateStarts
  <2>4. \A c \in Channels : LoadState[c] # Never => LoadState[c] \subseteq Archived
    BY <1>2, <1>3, <2>3 DEF LoadState
  <2>5. Archived' = Archived
    BY <2>3 DEF Archived
  <2> HIDE DEF q
  <2>. QED  BY <1>0, <1>3, <2>2, <2>3, <2>4, <2>5, UnlockedOrderly
<1>5. CASE ReparseStarts(p)
  <2> DEFINE q == [Idle EXCEPT !.at = "append", !.job = "reparse", !.batch = raw]
  <2>1. q \in Pipes /\ q.at = "append" /\ q.state = Fresh
    BY <1>0, <1>2, Numbers DEF Pipes, Places, Idle
  <2>2. /\ pipe[p].at = "idle" /\ pipe' = [pipe EXCEPT ![p] = q] /\ clear = "no"
        /\ UNCHANGED <<file, known, lock, clear, orphan, forfeited, recorded>>
    BY <1>5 DEF ReparseStarts
  <2>3. Archived' = Archived
    BY <2>2 DEF Archived
  <2> HIDE DEF q
  <2>. QED  BY <1>0, <1>2, <1>3, <2>1, <2>2, <2>3, UnlockedOrderly
<1>6. CASE SaveBegins(p)
  <2> DEFINE q == [pipe[p] EXCEPT !.at = "save"]
  <2>1. q \in Pipes /\ q.at = "save" /\ q.state = pipe[p].state
    BY <1>0 DEF Pipes, Places
  <2>2. /\ pipe[p].at = "loop" /\ pipe' = [pipe EXCEPT ![p] = q] /\ recorded' = Torn
        /\ UNCHANGED <<file, known, lock, clear, orphan, forfeited>>
    BY <1>6 DEF SaveBegins
  <2>3. Archived' = Archived
    BY <2>2 DEF Archived
  <2> HIDE DEF q
  <2>. QED  BY <1>0, <1>1, <2>1, <2>2, <2>3, UnlockedOrderly
<1>7. CASE SaveEnds(p) \/ SaveFails(p)
  <2>1. /\ pipe[p].at \in {"loop", "save"} /\ pipe' = [pipe EXCEPT ![p] = Idle]
        /\ recorded' \in {pipe[p].state, Torn, recorded}
        /\ UNCHANGED <<file, known, lock, clear, orphan, forfeited>>
    BY <1>7 DEF SaveEnds, SaveFails
  <2>2. Archived' = Archived
    BY <2>1 DEF Archived
  <2>3. recorded' # Torn =>
          \A c \in Channels : recorded'[c] # Never => recorded'[c] \subseteq Archived'
    BY <1>1, <1>3, <2>1, <2>2
  <2>. QED  BY <1>0, <1>1, <1>2, <2>1, <2>2, <2>3, UnlockedOrderly
<1>8. ASSUME NEW c \in Channels, NEW b \in {{}, Posted(c)}, Takes(p, c, b), pipe[p].at = "loop",
             UNCHANGED <<file, known, lock, clear, orphan, recorded>>,
             forfeited \subseteq forfeited', b = {} => Posted(c) \subseteq forfeited'
      PROVE  Orderly'
  <2> DEFINE q == [pipe[p] EXCEPT !.at = IF b = {} THEN "loop" ELSE "append",
                     !.todo = pipe[p].todo \ {c},
                     !.state = [pipe[p].state EXCEPT ![c] = Posted(c)], !.batch = b]
  <2>1. Posted(c) \subseteq Msgs
    BY <1>0, PostedProperties
  <2>2. [pipe[p].state EXCEPT ![c] = Posted(c)] \in Records
    BY <1>0, <2>1 DEF Pipes, Records
  <2>3. (IF b = {} THEN "loop" ELSE "append") \in Places \ Locked
    BY DEF Places
  <2>4. /\ q \in Pipes /\ q.at = (IF b = {} THEN "loop" ELSE "append") /\ q.batch = b
        /\ q.state = [pipe[p].state EXCEPT ![c] = Posted(c)]
    BY <1>0, <2>1, <2>2, <2>3 DEF Pipes
  <2>5. pipe' = [pipe EXCEPT ![p] = q]
    BY <1>8 DEF Takes
  <2>6. Archived \subseteq Archived' /\ forfeited' \subseteq Archived'
    BY <1>8 DEF Archived
  <2> HIDE DEF q
  <2>7. \A d \in Channels : q.state[d] = IF d = c THEN Posted(c) ELSE pipe[p].state[d]
    BY <1>0, <2>4 DEF Pipes, Records
  <2>8. \A d \in Channels : q.state[d] # Never =>
          q.state[d] \subseteq Archived' \cup (IF q.at = "append" THEN q.batch ELSE {})
    BY <1>1, <1>8, <2>4, <2>6, <2>7
  <2>. QED  BY <1>0, <1>1, <1>3, <1>8, <2>3, <2>4, <2>5, <2>6, <2>8, UnlockedOrderly
<1>9. ASSUME NEW c \in Channels, Exported(p, c) \/ ExportTruncated(p, c)
      PROVE  Orderly'
  BY <1>8, <1>9 DEF Exported, ExportTruncated
<1>10. ASSUME NEW c \in Channels, ExportFails(p, c)
       PROVE  Orderly'
  <2> DEFINE q == [pipe[p] EXCEPT !.todo = @ \ {c}]
  <2>1. q \in Pipes /\ q.at = pipe[p].at /\ q.state = pipe[p].state
    BY <1>0, <1>10 DEF Pipes
  <2>2. /\ pipe[p].at = "loop" /\ pipe' = [pipe EXCEPT ![p] = q]
        /\ UNCHANGED <<file, known, lock, clear, orphan, forfeited, recorded>>
    BY <1>10 DEF ExportFails
  <2>3. Archived' = Archived
    BY <2>2 DEF Archived
  <2> HIDE DEF q
  <2>. QED  BY <1>0, <1>1, <1>3, <2>1, <2>2, <2>3, UnlockedOrderly
<1>. QED  BY <1>4, <1>5, <1>6, <1>7, <1>9, <1>10

\* A pipeline that takes the lock or gives it up: what must be seen to.
LEMMA LockOrderly ==
  ASSUME Typed, Orderly, NEW p \in Pipelines, NEW q \in Pipes, pipe' = [pipe EXCEPT ![p] = q],
         clear = "no", UNCHANGED <<clear, recorded>>, ~orphan', Archived \subseteq Archived',
         lock \in {p, NoOne},
         q.at = "idle" => q.state = Fresh, q.state \in {Fresh, pipe[p].state},
         Pending(p) \subseteq Archived' \cup (IF q.at = "write" THEN q.fresh ELSE {}),
         q.at # "append", q.at = "rewrite" => q.copy = file'.lines,
         q.at = "write" => /\ known' # NotLoaded
                           /\ q.fresh \subseteq known'
                           /\ q.fresh \cap Readable(file') = {}
                           /\ q.batch \subseteq Archived' \cup q.fresh,
         known' # NotLoaded =>
           /\ Readable(file') \subseteq known'
           /\ known' \subseteq Archived' \cup (IF q.at = "write" THEN q.fresh ELSE {}),
         lock' = IF q.at \in Locked THEN p ELSE NoOne,
         IsInjective(file'.lines)
  PROVE  Orderly'
<1>1. \A r \in Pipelines : pipe'[r] = IF r = p THEN q ELSE pipe[r]
  BY DEF Typed, PipeInv
<1>2. \A r \in Pipelines : r # p => pipe'[r].at \notin Locked
  BY <1>1, HistoryAssumption DEF Typed, TypeOK
<1>3. ClearInv'
  BY DEF Orderly, ClearInv
<1>4. CopyInv'
  BY <1>1, <1>2 DEF CopyInv
<1>5. FreshInv'
  BY <1>1, <1>2 DEF FreshInv
<1>6. KnownInv'
  <2>1. lock' = NoOne => q.at # "write"
    BY HistoryAssumption
  <2>. QED  BY <1>1, <1>2, <2>1 DEF KnownInv
<1>7. StateInv'
  <2>0. \A c \in Channels : Fresh[c] = Never
    BY DEF Fresh
  <2>1. ASSUME NEW r \in Pipelines, r # p
        PROVE  /\ pipe'[r].at = "idle" => pipe'[r].state = Fresh
               /\ \A c \in Channels : pipe'[r].state[c] # Never =>
                    pipe'[r].state[c] \subseteq Archived' \cup Pending(r)'
    BY <1>1, <2>1 DEF Orderly, StateInv, Pending
  <2>2. Pending(p)' = IF q.at = "write" THEN q.fresh ELSE {}
    BY <1>1 DEF Pending
  <2>3. \A c \in Channels : pipe[p].state[c] # Never =>
          pipe[p].state[c] \subseteq Archived \cup Pending(p)
    BY DEF Orderly, StateInv
  <2>4. /\ pipe'[p].at = "idle" => pipe'[p].state = Fresh
        /\ \A c \in Channels : pipe'[p].state[c] # Never =>
             pipe'[p].state[c] \subseteq Archived' \cup Pending(p)'
    BY <1>1, <2>0, <2>2, <2>3
  <2>. QED  BY <2>1, <2>4 DEF StateInv
<1>8. RecordInv'
  BY DEF Orderly, RecordInv
<1>9. IsInjective(file.lines)'
  OBVIOUS
<1>. QED  BY <1>3, <1>4, <1>5, <1>6, <1>7, <1>8, <1>9 DEF Orderly

\* The steps of a pipeline that take or give up the lock.
LEMMA LockedOrderly ==
  ASSUME IInv, ~crossed, NEW p \in Pipelines,
         AppendBegins(p) \/ AppendEnds(p) \/ AppendFails(p) \/ RefreshBegins(p) \/ RefreshEnds(p)
  PROVE  Orderly'
<1>0. /\ Typed /\ Orderly /\ ~orphan /\ pipe[p] \in Pipes /\ PipeInv
      /\ known = NotLoaded \/ known \in SUBSET Msgs
      /\ 0 \notin Msgs
  BY Numbers DEF IInv, Typed, TypeOK, PipeInv, Orderly, ClearInv
<1>1. /\ clear = "no"
      /\ pipe[p].at \in Locked => lock = p
      /\ known # NotLoaded => Readable(file) \subseteq known
  <2>1. pipe[p].at # "idle"
    BY DEF AppendBegins, AppendEnds, AppendFails, RefreshBegins, RefreshEnds
  <2>. QED  BY <1>0, <2>1 DEF Typed, TypeOK, Orderly, ClearInv, KnownInv
<1>2. CASE AppendBegins(p)
  <2> DEFINE ids == IF known = NotLoaded THEN Readable(file) ELSE known
             q   == [pipe[p] EXCEPT !.at = "write", !.fresh = pipe[p].batch \ ids]
  <2>1. /\ pipe[p].at = "append" /\ lock = NoOne /\ lock' = p /\ known' = ids \cup pipe[p].batch
        /\ UNCHANGED <<file, recorded, clear, forfeited>> /\ ~orphan'
    BY <1>2 DEF AppendBegins
  <2>2. pipe' = [pipe EXCEPT ![p] = q]
    BY <1>0, <1>2 DEF AppendBegins, PipeInv, Pipes
  <2>3. Archived' = Archived /\ Readable(file) \subseteq Archived
    BY <2>1 DEF Archived
  <2>4. Readable(file) \subseteq ids /\ ids \subseteq Archived /\ ids \subseteq Msgs
    <3>1. Readable(file) \subseteq Msgs
      <4>1. file.lines \in Seq(Msgs)
        BY <1>0 DEF Typed, TypeOK
      <4>. QED  BY <4>1 DEF Readable, ToSet
    <3>2. known # NotLoaded => known \subseteq Archived
      BY <1>0, <1>1, <2>1 DEF Orderly, KnownInv
    <3>. QED  BY <1>0, <1>1, <2>3, <3>1, <3>2
  <2>5. /\ q \in Pipes /\ q.at = "write" /\ q.fresh = pipe[p].batch \ ids
        /\ q.batch = pipe[p].batch /\ q.state = pipe[p].state /\ pipe[p].batch \subseteq Msgs
    BY <1>0 DEF Pipes, Places
  <2> HIDE DEF ids, q
  <2>6. known' # NotLoaded
    BY <1>0, <2>1, <2>4, <2>5 DEF NotLoaded
  <2>7. Pending(p) = pipe[p].batch
    BY <2>1 DEF Pending
  <2>8. IsInjective(file'.lines)
    BY <1>0, <2>1 DEF Orderly
  <2>9. Readable(file') = Readable(file)
    BY <2>1
  <2>. QED  BY <1>0, <1>1, <2>1, <2>2, <2>3, <2>4, <2>5, <2>6, <2>7, <2>8, <2>9, LockOrderly
<1>3. CASE AppendEnds(p) \/ AppendFails(p)
  <2>1. /\ pipe[p].at = "write" /\ Appended(p) /\ lock' = NoOne /\ ~orphan'
        /\ UNCHANGED <<clear, recorded>> /\ lock = p
    BY <1>1, <1>3 DEF AppendEnds, AppendFails
  <2>2. PICK q \in Pipes : /\ pipe' = [pipe EXCEPT ![p] = q] /\ q.at \in {"loop", "refresh"}
                           /\ q.state = pipe[p].state
    BY <1>0, <2>1, AppendedProperties
  <2>3. /\ known # NotLoaded /\ pipe[p].fresh \subseteq known
        /\ pipe[p].fresh \cap Readable(file) = {} /\ IsInjective(file.lines)
        /\ known \subseteq Archived \cup pipe[p].fresh
    BY <1>0, <2>1 DEF Orderly, FreshInv, KnownInv
  <2>4. Pending(p) = pipe[p].fresh
    BY <2>1 DEF Pending
  <2>5. /\ Archived \subseteq Archived' /\ pipe[p].fresh \subseteq Archived'
        /\ Readable(file') \subseteq known' /\ known' \subseteq known
        /\ IsInjective(file'.lines)
    <3>1. CASE AppendEnds(p)
      <4>1. known' = known /\ forfeited \subseteq forfeited'
        BY <1>0, <2>3, <3>1 DEF AppendEnds, NotLoaded
      <4>2. /\ Readable(file') \subseteq Readable(file) \cup pipe[p].fresh
            /\ Readable(file) \cup pipe[p].fresh \subseteq Readable(file') \cup forfeited'
            /\ IsInjective(file.lines) /\ Readable(file) \cap pipe[p].fresh = {} =>
                 IsInjective(file'.lines)
        BY <1>0, <3>1, WriteProperties
      <4>. QED  BY <1>1, <2>3, <4>1, <4>2 DEF Archived
    <3>2. CASE AppendFails(p)
      <4>1. forfeited \cup pipe[p].fresh \subseteq forfeited'
        BY <3>2 DEF AppendFails
      <4>2. PICK written \in SUBSET pipe[p].fresh :
              /\ known' = known \ (pipe[p].fresh \ written)
              /\ Readable(file') \subseteq Readable(file) \cup written
              /\ Readable(file) \subseteq Readable(file') \cup forfeited'
              /\ IsInjective(file.lines) /\ Readable(file) \cap pipe[p].fresh = {} =>
                   IsInjective(file'.lines)
        BY <1>0, <3>2, FailureProperties
      <4>3. Readable(file') \subseteq known'
        BY <1>1, <2>3, <4>2
      <4>. QED  BY <2>3, <4>1, <4>2, <4>3 DEF Archived
    <3>. QED  BY <1>3, <3>1, <3>2
  <2>. QED  BY <1>0, <1>1, <2>1, <2>2, <2>3, <2>4, <2>5, LockOrderly
<1>4. CASE RefreshBegins(p)
  <2> DEFINE q == [pipe[p] EXCEPT !.at = "rewrite", !.copy = file.lines]
  <2>1. /\ pipe[p].at = "refresh" /\ lock = NoOne /\ lock' = p
        /\ UNCHANGED <<file, known, recorded, clear, forfeited, orphan>>
    BY <1>4 DEF RefreshBegins
  <2>2. pipe' = [pipe EXCEPT ![p] = q]
    BY <1>0, <1>4 DEF RefreshBegins, PipeInv, Pipes
  <2>3. Archived' = Archived /\ Pending(p) = {}
    BY <2>1 DEF Archived, Pending
  <2>4. file.lines \in Seq(Msgs)
    BY <1>0 DEF Typed, TypeOK
  <2>5. q \in Pipes /\ q.at = "rewrite" /\ q.copy = file.lines /\ q.state = pipe[p].state
    BY <1>0, <2>4 DEF Pipes, Places
  <2> HIDE DEF q
  <2>6. IsInjective(file'.lines) /\ (known # NotLoaded => known \subseteq Archived)
    BY <1>0, <1>1, <2>1 DEF Orderly, KnownInv
  <2>. QED  BY <1>0, <1>1, <2>1, <2>2, <2>3, <2>5, <2>6, LockOrderly
<1>5. CASE RefreshEnds(p)
  <2>1. /\ pipe[p].at = "rewrite" /\ lock = p /\ lock' = NoOne /\ pipe' = [pipe EXCEPT ![p] = Idle]
        /\ UNCHANGED <<known, recorded, clear, forfeited, orphan>>
    BY <1>1, <1>5 DEF RefreshEnds
  <2>2. file'.lines = file.lines
    BY <1>0, <1>5, <2>1 DEF RefreshEnds, Rewrites, Orderly, CopyInv
  <2>3. Readable(file') = Readable(file) /\ Archived' = Archived /\ Pending(p) = {}
    BY <2>1, <2>2 DEF Readable, Archived, Pending
  <2>4. Idle \in Pipes /\ Idle.at = "idle" /\ Idle.state = Fresh
    BY Numbers DEF Idle
  <2>5. IsInjective(file'.lines) /\ (known # NotLoaded => known \subseteq Archived)
    BY <1>0, <2>1, <2>2 DEF Orderly, KnownInv
  <2>. QED  BY <1>0, <1>1, <2>1, <2>3, <2>4, <2>5, LockOrderly
<1>. QED  BY <1>2, <1>3, <1>4, <1>5

\* No pipeline is there, in the state that a step leads to.
LEMMA IdleOrderly ==
  ASSUME Typed', \A p \in Pipelines : pipe'[p].at = "idle" /\ pipe'[p].state = Fresh,
         ~orphan', IsInjective(file'.lines), clear' \in {"raw", "state"} => known' = NotLoaded,
         known' # NotLoaded => /\ Readable(file') \subseteq known'
                               /\ clear' # "no",
         RecordInv'
  PROVE  Orderly'
<1>1. ClearInv' /\ CopyInv' /\ FreshInv' /\ KnownInv'
  BY DEF ClearInv, CopyInv, FreshInv, KnownInv
<1>2. StateInv'
  BY DEF StateInv, Fresh
<1>. QED  BY <1>1, <1>2 DEF Orderly

\* What the bot's users, the operator and the machine do.
LEMMA OutsideOrderly ==
  ASSUME IInv, ~crossed, ~crossed', Post \/ Crash \/ ClearStep
  PROVE  Orderly'
<1>0. /\ Typed /\ Typed' /\ Orderly /\ ~orphan /\ pipe \in [Pipelines -> Pipes]
      /\ clear \in {"no", "cache", "raw", "state"}
  BY OutsideTyped DEF IInv, Typed, TypeOK, PipeInv, Orderly, ClearInv
<1>1. \A p \in Pipelines : pipe[p].at = "idle" => pipe[p].state = Fresh
  BY <1>0 DEF Orderly, StateInv
<1>2. CASE Post
  <2>1. UNCHANGED <<file, known, recorded, lock, pipe, clear, orphan, forfeited>>
    BY <1>2 DEF Post
  <2>. QED  BY <1>0, <2>1 DEF Orderly, ClearInv, CopyInv, FreshInv, KnownInv, StateInv, RecordInv,
                              Archived, Pending
<1>3. CASE Crash
  <2>1. /\ clear = "no" /\ known' = NotLoaded /\ ~orphan' /\ clear' = "no" /\ UNCHANGED recorded
        /\ pipe' = [p \in Pipelines |-> Idle]
    BY <1>3 DEF Crash
  <2>2. \A p \in Pipelines : pipe'[p].at = "idle" /\ pipe'[p].state = Fresh
    BY <2>1 DEF Idle
  <2>3. /\ Readable(file) \subseteq Readable(file') \cup forfeited'
        /\ forfeited \subseteq forfeited'
        /\ IsInjective(file'.lines)
    <3>1. /\ IsInjective(file.lines)
          /\ \A p \in Pipelines : pipe[p].at = "write" => Readable(file) \cap pipe[p].fresh = {}
      BY <1>0 DEF Orderly, FreshInv
    <3>. QED  BY <1>0, <1>3, <3>1, CrashProperties
  <2>4. RecordInv'
    BY <1>0, <2>1, <2>3 DEF Orderly, RecordInv, Archived
  <2>. QED  BY <1>0, <2>1, <2>2, <2>3, <2>4, IdleOrderly
<1>4. CASE ClearArchive
  <2>1. /\ \A p \in Pipelines : pipe[p].at = "idle"
        /\ clear' = "cache" /\ UNCHANGED <<known, pipe>>
        /\ file' \in {Empty, file} /\ ~orphan'
    <3>1. crossed' = (crossed \/ \E p \in Pipelines : pipe[p].at # "idle")
      BY <1>4 DEF ClearArchive
    <3>2. \A p \in Pipelines : pipe[p].at = "idle"
      BY <3>1
    <3>3. clear' = "cache" /\ UNCHANGED <<known, pipe>>
      BY <1>4 DEF ClearArchive, Clears
    <3>4. \/ file' = Empty /\ orphan' = (\E p \in Pipelines : pipe[p].at = "write")
          \/ file' = file /\ orphan' = orphan
      BY <1>4 DEF ClearArchive
    <3>5. ~(\E p \in Pipelines : pipe[p].at = "write")
      BY <3>2
    <3>6. file' \in {Empty, file} /\ ~orphan'
      <4>1. CASE file' = Empty /\ orphan' = (\E p \in Pipelines : pipe[p].at = "write")
        <5>1. ~orphan'
          BY <3>5, <4>1, Zenon
        <5>. QED  BY <4>1, <5>1
      <4>2. CASE file' = file /\ orphan' = orphan
        BY <1>0, <4>2, Zenon
      <4>. QED  BY <3>4, <4>1, <4>2
    <3>. QED  BY <3>2, <3>3, <3>6
  <2>2. IsInjective(Empty.lines)
    BY DEF Empty, IsInjective
  <2>3. IsInjective(file'.lines) /\ Readable(file') \subseteq Readable(file)
    BY <1>0, <2>1, <2>2, Numbers DEF Orderly, Readable
  <2>4. known # NotLoaded => Readable(file) \subseteq known
    BY <1>0 DEF Orderly, KnownInv
  <2>5. RecordInv'
    BY <2>1 DEF RecordInv
  <2>. QED  BY <1>0, <1>1, <2>1, <2>3, <2>4, <2>5, IdleOrderly
<1>5. CASE ClearCache \/ ClearRaw \/ ClearState
  <2>1. /\ clear # "no" /\ UNCHANGED <<file, orphan>>
        /\ clear' = "no" => recorded' = Fresh
        /\ clear' \in {"no", "raw", "state"}
    BY <1>5 DEF ClearCache, ClearRaw, ClearState, Clears
  <2>2. \A p \in Pipelines : pipe[p].at = "idle"
    BY <1>0, <2>1 DEF Orderly, ClearInv
  <2>3. \A p \in Pipelines : pipe'[p] = pipe[p]
    BY <1>5, <2>2 DEF ClearCache, ClearRaw, ClearState
  <2>4. known' = NotLoaded
    BY <1>0, <1>5 DEF ClearCache, ClearRaw, ClearState, Clears, Orderly, ClearInv
  <2>5. RecordInv'
    BY <2>1 DEF RecordInv, Fresh
  <2>6. IsInjective(file'.lines)
    BY <1>0, <2>1 DEF Orderly
  <2>. QED  BY <1>0, <1>1, <2>1, <2>2, <2>3, <2>4, <2>5, <2>6, IdleOrderly
<1>. QED  BY <1>2, <1>3, <1>4, <1>5 DEF ClearStep

-----------------------------------------------------------------------------
(* The theorems.                                                           *)

LEMMA InitIInv ==
  ASSUME Init
  PROVE  IInv
<1>1. Typed
  <2>1. PipeInv
    BY Numbers DEF Init, PipeInv
  <2>2. \A p \in Pipelines : pipe[p].at = "idle"
    BY DEF Init, Idle
  <2>3. FileOK(file) /\ file.lines \in Seq(Msgs) /\ file.end \in Ends
    BY Numbers DEF Init, FileOK, Files
  <2>4. \A p \in Pipelines : pipe[p].at \notin Locked /\ lock # p
    BY <2>2, HistoryAssumption DEF Init
  <2>5. posted \in 0..MaxMsgs /\ faults \in 0..MaxFaults /\ clears \in 0..MaxClears
    BY Numbers DEF Init
  <2>6. TypeOK
    BY <2>2, <2>3, <2>4, <2>5, Numbers DEF Init, TypeOK
  <2>. QED  BY <2>1, <2>3, <2>6 DEF Typed
<1>2. \A p \in Pipelines : pipe[p].at = "idle" /\ pipe[p].state = Fresh
  BY DEF Init, Idle
<1>3. ClearInv /\ CopyInv /\ FreshInv /\ KnownInv
  BY <1>2 DEF Init, ClearInv, CopyInv, FreshInv, KnownInv
<1>4. StateInv /\ RecordInv
  BY <1>2 DEF Init, StateInv, RecordInv, Fresh
<1>5. IsInjective(file.lines)
  BY DEF Init, Empty, IsInjective
<1>. QED  BY <1>1, <1>3, <1>4, <1>5 DEF IInv, Typed, Orderly

LEMMA StepIInv ==
  ASSUME IInv, [Next]_vars
  PROVE  IInv'
<1>1. CASE UNCHANGED vars
  BY <1>1 DEF vars, IInv, TypeOK, PipeInv, Orderly, ClearInv, CopyInv, FreshInv, KnownInv,
              StateInv, RecordInv, Archived, Pending
<1>2. ASSUME NEW p \in Pipelines, Step(p) \/ EvaluateStarts(p) \/ ReparseStarts(p)
      PROVE  IInv'
  <2>1. ~crossed' => ~crossed
    BY <1>2 DEF Step, EvaluateStarts, ReparseStarts, AppendBegins, AppendEnds, AppendFails, Exported,
                ExportFails, ExportTruncated, SaveBegins, SaveEnds, SaveFails, RefreshBegins,
                RefreshEnds
  <2>2. Typed
    BY DEF IInv, Typed
  <2>3. CASE AppendBegins(p) \/ AppendEnds(p) \/ AppendFails(p) \/ RefreshBegins(p) \/ RefreshEnds(p)
    BY <2>1, <2>2, <2>3, LockedTyped, LockedOrderly DEF IInv, Typed
  <2>4. CASE \/ EvaluateStarts(p) \/ ReparseStarts(p)
             \/ SaveBegins(p) \/ SaveEnds(p) \/ SaveFails(p)
             \/ \E c \in Channels : Exported(p, c) \/ ExportFails(p, c) \/ ExportTruncated(p, c)
    <3>1. Typed'
      BY <2>2, <2>4, UnlockedTyped
    <3>2. ~crossed' => Orderly'
      BY <2>1, <2>4, PipelineOrderly
    <3>. QED  BY <3>1, <3>2 DEF IInv, Typed
  <2>. QED  BY <1>2, <2>3, <2>4 DEF Step
<1>3. CASE Post \/ Crash \/ ClearStep
  <2>1. ~crossed' => ~crossed
    BY <1>3 DEF Post, Crash, ClearStep, ClearArchive, ClearCache, ClearRaw, ClearState
  <2>. QED  BY <1>3, <2>1, OutsideTyped, OutsideOrderly DEF IInv, Typed
<1>. QED  BY <1>1, <1>2, <1>3 DEF Next

LEMMA Invariance == Spec => []IInv
<1>1. Init => IInv
  BY InitIInv
<1>2. IInv /\ [Next]_vars => IInv'
  BY StepIInv
<1>. QED  BY <1>1, <1>2, PTL DEF Spec

\* However many pipelines append, refresh, fail and are cut short at once, no message
\* is archived twice (jsonl_store.py, append_messages).
THEOREM NothingTwice == Spec => []NoDuplicates
<1>1. IInv => NoDuplicates
  BY DEF IInv, Orderly, NoDuplicates
<1>. QED  BY <1>1, Invariance, PTL

\* The state is well formed, and a message in the id index is in the file or its
\* loss is accounted for (jsonl_store.py, _add_to_cache).
THEOREM IndexIsTrue == Spec => []IndexInv
<1>1. IInv => IndexInv
  BY DEF IInv, Orderly, KnownInv, Archived, IndexInv, KnownIsWritten
<1>. QED  BY <1>1, Invariance, PTL

\* What channel_state.json says has been exported is in the archive, after any crash
\* and beside any other pipeline (dce_orchestrator.py, evaluate_and_export).
THEOREM RecordsAreTrue == Spec => []RecordedIsArchived
<1>1. IInv => RecordedIsArchived
  BY DEF IInv, Orderly, RecordInv, Archived, RecordedIsArchived
<1>. QED  BY <1>1, Invariance, PTL

\* No step but /clear takes a message out of the archive (jsonl_store.py,
\* update_records and _archive_lock).
THEOREM NothingIsLost == Spec => ArchiveKeeps
<1>1. IInv /\ [Next]_vars =>
        [~ClearArchive /\ ~crossed => Readable(file) \subseteq Readable(file') \cup forfeited']_vars
  BY ArchiveGrows
<1>. QED  BY <1>1, Invariance, PTL DEF Spec, ArchiveKeeps
=============================================================================
