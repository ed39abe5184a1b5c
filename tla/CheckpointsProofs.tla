-------------------------- MODULE CheckpointsProofs --------------------------
(***************************************************************************)
(* Proofs about Checkpoints, for every number of steps and every number of  *)
(* checkpoints kept (at least one).  The argument: what is being saved is   *)
(* newer than every marked directory, and every directory that a prune has  *)
(* yet to remove has a newer marked one, so that neither a save nor an      *)
(* interrupted removal can touch the one a restart would resume from.       *)
(***************************************************************************)
EXTENDS Checkpoints, SequenceLemmas

\* Only a directory that is there is marked.
NoStray == \A s \in Steps : disk[s].marked => disk[s].data # "none"

\* Nothing marked is newer than the worker, nor as new as what it is saving.
SaveInv ==
  /\ at \in {"training", "pruning"} =>
       \A s \in Steps : disk[s].marked => s <= step
  /\ at \in {"saving", "marking"} =>
       step \in Steps /\ \A s \in Steps : disk[s].marked => s < step
  /\ at = "saving" => disk[step].data = "part"
  /\ at = "marking" => disk[step].data \in Written

\* Whatever is to be removed has something newer that is marked.
DoomInv ==
  \A s \in doomed : disk[s].marked => \E t \in Steps : t > s /\ disk[t].marked

IInv == TypeOK /\ NoStray /\ SaveInv /\ DoomInv

-----------------------------------------------------------------------------
LEMMA DirFacts ==
  ASSUME NEW dir \in Dirs
  PROVE  /\ dir.data \in {"none", "part"} \cup Saves /\ dir.marked \in BOOLEAN
         /\ Mark(dir) \in Dirs /\ Mark(dir).marked /\ Mark(dir).data = dir.data
         /\ StartSave(dir) \in Dirs /\ StartSave(dir).data = "part"
         /\ StartSave(dir).marked = dir.marked
         /\ FinishSave(dir) \in Dirs /\ FinishSave(dir).data = "cached"
         /\ FinishSave(dir).marked = dir.marked
         /\ Nothing \in Dirs /\ ~Nothing.marked
  BY DEF Dirs, Mark, With, StartSave, FinishSave, Nothing, Saves, Written

LEMMA RemainsFacts ==
  ASSUME NEW dir \in Dirs, NEW r \in Remains(dir)
  PROVE  r \in Dirs /\ r.data = "part" /\ (r.marked => dir.marked)
<1>1. dir.marked \in BOOLEAN
  BY DirFacts
<1>2. CASE r = [data |-> "part", marked |-> dir.marked]
  BY <1>1, <1>2 DEF Dirs
<1>3. CASE r = [data |-> "part", marked |-> FALSE]
  BY <1>3 DEF Dirs
<1>4. QED
  BY <1>2, <1>3 DEF Remains, With, Nothing

LEMMA SurvivesFacts ==
  ASSUME NEW dir \in Dirs, NEW kept \in BOOLEAN
  PROVE  /\ Survives(dir, kept) \in Dirs
         /\ Survives(dir, kept).marked = dir.marked
         /\ Survives(dir, kept).data = "none" <=> dir.data = "none"
         /\ dir.data \in Saves => Survives(dir, kept).data \in Saves
  BY DEF Dirs, Survives, With, Saves, Written

\* What a power loss leaves alone.
LEMMA PowerLostFacts ==
  ASSUME TypeOK, PowerLost
  PROVE  /\ disk' \in [Steps -> Dirs] /\ final' \in Dirs
         /\ \A s \in Steps : disk'[s].marked = disk[s].marked
         /\ \A s \in Steps : disk'[s].data = "none" <=> disk[s].data = "none"
         /\ \A s \in Steps : disk[s].data \in Saves => disk'[s].data \in Saves
<1>1. PICK kept : disk' = [s \in Steps |-> Survives(disk[s], s \in kept)]
  BY DEF PowerLost
<1>2. \A s \in Steps : (s \in kept) \in BOOLEAN /\ disk[s] \in Dirs
  BY DEF TypeOK
<1>3. final' \in Dirs
  BY SurvivesFacts DEF PowerLost, TypeOK
<1>4. QED
  BY <1>1, <1>2, <1>3, SurvivesFacts

\* A complete checkpoint that a prune removes has a newer complete one: Keep is
\* at least one.
LEMMA PrunableFacts ==
  ASSUME NEW d \in [Steps -> Dirs], NEW s \in Prunable(d), d[s].marked
  PROVE  s \in Steps /\ \E t \in Steps : t > s /\ d[t].marked
<1> DEFINE newer == {t \in Complete(d) : t > s}
<1>1. s \in Steps /\ Cardinality(newer) >= Keep
  BY DEF Prunable, AllCheckpoints
<1>2. newer # {}
  BY <1>1, FS_EmptySet, CheckpointsAssumption
<1>3. QED
  BY <1>1, <1>2 DEF Complete, AllCheckpoints

LEMMA PrunableTyped ==
  ASSUME NEW d PROVE Prunable(d) \in SUBSET Steps
  BY DEF Prunable, AllCheckpoints

LEMMA LatestFacts ==
  ASSUME NEW d \in [Steps -> Dirs],
         \A s \in Steps : d[s].marked => d[s].data # "none",
         NEW s \in 0..MaxStep, IsLatest(d, s)
  PROVE  /\ \A t \in Steps : d[t].marked => t <= s
         /\ s \in Steps => d[s].marked
  BY CheckpointsAssumption DEF IsLatest, Complete, AllCheckpoints, Steps

-----------------------------------------------------------------------------
LEMMA InitIInv == Init => IInv
  BY CheckpointsAssumption, DirFacts DEF Init, IInv, TypeOK, NoStray, SaveInv, DoomInv, Dirs, Nothing,
     Places, Pruning, Steps, Written

\* Taking a doomed directory away, in whole or in part.
LEMMA RemovalKeepsIInv ==
  ASSUME IInv, NEW s \in doomed, NEW r \in Dirs,
         r.marked => disk[s].marked /\ r.data # "none",
         at \in Pruning,
         disk' = [disk EXCEPT ![s] = r],
         doomed' \in SUBSET doomed,
         stuck' \in SUBSET Steps,
         UNCHANGED <<final, at, step>>
  PROVE  IInv'
<1> USE DEF IInv, TypeOK
<1>1. TypeOK'
  OBVIOUS
<1>2. s \in Steps /\ \A t \in Steps : disk'[t] = IF t = s THEN r ELSE disk[t]
  OBVIOUS
<1>3. NoStray'
  BY <1>2 DEF NoStray
<1>4. SaveInv'
  BY <1>2 DEF SaveInv, Pruning
<1>5. ASSUME NEW t \in doomed', disk'[t].marked
      PROVE  \E u \in Steps : u > t /\ disk'[u].marked
  <2>1. disk[t].marked /\ t \in doomed
    BY <1>2, <1>5
  <2>2. PICK u \in Steps : u > t /\ disk[u].marked
    BY <2>1 DEF DoomInv
  <2>3. CASE u = s
    <3>1. PICK v \in Steps : v > s /\ disk[v].marked
      BY <2>2, <2>3 DEF DoomInv
    <3>2. v > t /\ v # s
      BY <2>2, <2>3, <3>1, CheckpointsAssumption DEF Steps
    <3>3. QED
      BY <1>2, <3>1, <3>2
  <2>4. CASE u # s
    BY <1>2, <2>2, <2>4
  <2>5. QED
    BY <2>3, <2>4
<1>6. QED
  BY <1>1, <1>3, <1>4, <1>5 DEF DoomInv

LEMMA NextIInv == IInv /\ [Next]_vars => IInv'
<1> SUFFICES ASSUME IInv, [Next]_vars PROVE IInv'
  OBVIOUS
<1> USE DEF IInv, TypeOK
<1>1. CASE UNCHANGED vars
  BY <1>1 DEF vars, NoStray, SaveInv, DoomInv
<1>2. CASE Launch
  <2>1. TypeOK'
    BY <1>2, PrunableTyped, CheckpointsAssumption DEF Launch, Places, Pruning
  <2>2. DoomInv'
    BY <1>2, PrunableFacts DEF Launch, DoomInv
  <2>3. QED
    BY <1>2, <2>1, <2>2 DEF Launch, NoStray, SaveInv
<1>3. CASE Resume
  <2>1. PICK s \in 0..MaxStep : IsLatest(disk, s) /\ step' = s
    BY <1>3 DEF Resume
  <2>2. \A t \in Steps : disk[t].marked => t <= s
    BY <2>1, LatestFacts DEF NoStray
  <2>3. QED
    BY <1>3, <2>1, <2>2 DEF Resume, Moves, Places, Pruning, NoStray, SaveInv, DoomInv
<1>4. CASE TrainStep
  <2>1. step' \in Steps /\ \A s \in Steps : disk[s].marked => s < step'
    BY <1>4, CheckpointsAssumption DEF TrainStep, SaveInv, Steps
  <2>2. doomed' = doomed /\ stuck' = stuck /\ at' \in Places /\ at' \in {"training", "saving"} /\ final' = final
    BY <1>4 DEF TrainStep, Places
  <2>3. CASE at' = "training" /\ UNCHANGED disk
    BY <2>1, <2>2, <2>3, CheckpointsAssumption DEF Steps, NoStray, SaveInv, DoomInv
  <2>4. CASE at' = "saving" /\ disk' = [disk EXCEPT ![step'] = StartSave(@)]
    <3>1. /\ disk' \in [Steps -> Dirs]
          /\ \A s \in Steps : disk'[s].marked = disk[s].marked
          /\ \A s \in Steps : disk'[s].data = IF s = step' THEN "part" ELSE disk[s].data
      BY <2>1, <2>4, DirFacts
    <3>2. NoStray'
      BY <3>1 DEF NoStray
    <3>3. SaveInv'
      BY <2>1, <2>4, <3>1 DEF SaveInv
    <3>4. DoomInv'
      BY <2>2, <3>1 DEF DoomInv
    <3>5. QED
      BY <2>1, <2>2, <3>1, <3>2, <3>3, <3>4, CheckpointsAssumption DEF Steps
  <2>5. QED
    BY <1>4, <2>3, <2>4 DEF TrainStep
<1>5. CASE Saved
  <2>1. step \in Steps
    BY <1>5 DEF Saved, Moves, SaveInv
  <2>2. /\ disk' \in [Steps -> Dirs]
        /\ \A s \in Steps : disk'[s].marked = disk[s].marked
        /\ \A s \in Steps : disk'[s].data = IF s = step THEN "cached" ELSE disk[s].data
    BY <1>5, <2>1, DirFacts DEF Saved
  <2>3. NoStray'
    BY <2>2 DEF NoStray
  <2>4. SaveInv'
    BY <1>5, <2>1, <2>2 DEF Saved, Moves, SaveInv, Written
  <2>5. DoomInv'
    BY <1>5, <2>2 DEF Saved, DoomInv
  <2>6. QED
    BY <1>5, <2>2, <2>3, <2>4, <2>5 DEF Saved, Moves, Places
<1>6. CASE OnSave
  <2>1. step \in Steps /\ disk[step].data \in Written
    BY <1>6 DEF OnSave, Moves, SaveInv
  <2>2. /\ disk' \in [Steps -> Dirs]
        /\ \A s \in Steps : disk'[s].data = disk[s].data
        /\ \A s \in Steps : disk'[s].marked <=> s = step \/ disk[s].marked
    BY <1>6, <2>1, DirFacts DEF OnSave
  <2>3. NoStray'
    BY <2>1, <2>2 DEF NoStray, Written
  <2>4. \A s \in Steps : disk'[s].marked => s <= step
    BY <1>6, <2>1, <2>2, CheckpointsAssumption DEF OnSave, Moves, SaveInv, Steps
  <2>5. SaveInv'
    BY <1>6, <2>4 DEF OnSave, Moves, SaveInv
  <2>6. DoomInv'
    BY <1>6, <2>2, PrunableFacts DEF OnSave, DoomInv
  <2>7. QED
    BY <1>6, <2>2, <2>3, <2>5, <2>6, PrunableTyped DEF OnSave, Moves, Places, Pruning
<1>7. CASE Pruned \/ ResumeFails \/ TrainEnds \/ FinalSaved \/ FinalMarked \/ Exit
  <2>1. final' \in Dirs /\ UNCHANGED <<disk, step, doomed, stuck>>
    BY <1>7, DirFacts DEF Pruned, ResumeFails, TrainEnds, FinalSaved, FinalMarked, Exit
  <2>2. at' \in Places /\ at' \notin {"pruning", "saving", "marking"}
        /\ (at' = "training" => at = "pruning")
    BY <1>7 DEF Pruned, ResumeFails, TrainEnds, FinalSaved, FinalMarked, Exit, Moves, Places
  <2>3. QED
    BY <2>1, <2>2 DEF NoStray, SaveInv, DoomInv
<1>8. ASSUME NEW s \in Steps, RemoveSome(s) PROVE IInv'
  <2>1. PICK r \in Remains(disk[s]) : disk' = [disk EXCEPT ![s] = r]
    BY <1>8 DEF RemoveSome
  <2>2. r \in Dirs /\ r.data = "part" /\ (r.marked => disk[s].marked)
    BY <2>1, RemainsFacts
  <2>3. QED
    BY <1>8, <2>1, <2>2, RemovalKeepsIInv DEF RemoveSome, Turn
<1>9. ASSUME NEW s \in Steps, Removed(s) PROVE IInv'
  <2>1. CASE disk' = [disk EXCEPT ![s] = Nothing]
    <3>1. /\ at \in Pruning /\ s \in doomed
          /\ doomed' \in SUBSET doomed /\ stuck' \in SUBSET Steps
          /\ UNCHANGED <<final, at, step>>
      BY <1>9 DEF Removed, Turn
    <3>2. Nothing \in Dirs /\ ~Nothing.marked
      BY DEF Nothing, Dirs
    <3>3. QED
      BY <2>1, <3>1, <3>2, RemovalKeepsIInv
  <2>2. CASE UNCHANGED disk
    BY <1>9, <2>2 DEF Removed, Turn, NoStray, SaveInv, DoomInv
  <2>3. QED
    BY <1>9, <2>1, <2>2 DEF Removed
<1>10. CASE Kill
  BY <1>10, CheckpointsAssumption DEF Kill, Gone, Places, NoStray, SaveInv, DoomInv
<1>11. CASE PowerLost
  <2>1. /\ disk' \in [Steps -> Dirs] /\ final' \in Dirs
        /\ \A s \in Steps : disk'[s].marked = disk[s].marked
        /\ \A s \in Steps : disk'[s].data = "none" <=> disk[s].data = "none"
    BY <1>11, PowerLostFacts
  <2>2. at' = "off" /\ step' = 0 /\ doomed' = {} /\ stuck' = stuck
    BY <1>11 DEF PowerLost, Gone
  <2>3. QED
    BY <2>1, <2>2, CheckpointsAssumption DEF Places, NoStray, SaveInv, DoomInv
<1>12. CASE WrittenBack
  <2>1. final' \in Dirs /\ UNCHANGED <<at, step, doomed, stuck>>
    BY <1>12 DEF WrittenBack, With, Dirs, Saves, Written
  <2>2. /\ disk' \in [Steps -> Dirs]
        /\ \A s \in Steps : disk'[s].marked = disk[s].marked
        /\ \A s \in Steps : \/ disk'[s].data = disk[s].data
                            \/ disk[s].data = "cached" /\ disk'[s].data = "whole"
    BY <1>12 DEF WrittenBack, With, Dirs, Saves, Written
  <2>3. SaveInv'
    BY <2>1, <2>2 DEF SaveInv, Written
  <2>4. QED
    BY <2>1, <2>2, <2>3 DEF NoStray, DoomInv
<1>13. QED
  BY <1>1, <1>2, <1>3, <1>4, <1>5, <1>6, <1>7, <1>8, <1>9, <1>10, <1>11, <1>12
     DEF Next, Work

LEMMA IInvHolds == Spec => []IInv
  BY InitIInv, NextIInv, PTL DEF Spec

-----------------------------------------------------------------------------
\* What a step does to the checkpoint a restart would resume from: it stays
\* marked, and it stays saved.
LEMMA LatestStays ==
  ASSUME IInv, [Next]_vars, NEW s \in Steps, disk[s].marked,
         \A t \in Steps : disk[t].marked => t <= s
  PROVE  disk'[s].marked /\ (disk[s].data \in Saves => disk'[s].data \in Saves)
<1> USE DEF IInv, TypeOK
<1>1. s \notin doomed
  BY CheckpointsAssumption DEF DoomInv, Steps
<1>2. CASE UNCHANGED disk
  BY <1>2
<1>3. CASE TrainStep
  <2>1. step + 1 # s
    BY <1>3, CheckpointsAssumption DEF TrainStep, SaveInv, Steps
  <2>2. QED
    BY <1>3, <2>1 DEF TrainStep
<1>4. CASE Saved \/ OnSave
  <2>1. step \in Steps /\ step # s
    BY <1>4, CheckpointsAssumption DEF Saved, OnSave, Moves, SaveInv, Steps
  <2>2. QED
    BY <1>4, <2>1 DEF Saved, OnSave
<1>5. ASSUME NEW t \in doomed, RemoveSome(t) \/ Removed(t)
      PROVE  disk'[s] = disk[s]
  BY <1>1, <1>5 DEF RemoveSome, Removed, Turn
<1>6. CASE PowerLost
  BY <1>6, PowerLostFacts
<1>7. CASE WrittenBack
  BY <1>7 DEF WrittenBack, With, Dirs, Saves, Written
<1>8. QED
  BY <1>2, <1>3, <1>4, <1>5, <1>6, <1>7 DEF Next, Work, vars, Launch, Resume, ResumeFails, Pruned,
     TrainEnds, FinalSaved, FinalMarked, Exit, Kill, RemoveSome, Removed, Turn

\* Whatever is marked after a step was marked before, or has just been saved.
LEMMA MarkedWas ==
  ASSUME IInv, [Next]_vars, NEW s \in Steps, disk'[s].marked
  PROVE  disk[s].marked \/ disk'[s].data \in Written
<1> USE DEF IInv, TypeOK
<1>1. CASE UNCHANGED disk
  BY <1>1
<1>2. CASE TrainStep
  BY <1>2, DirFacts DEF TrainStep
<1>3. CASE Saved
  BY <1>3, DirFacts DEF Saved
<1>4. CASE OnSave
  <2>1. step \in Steps /\ disk[step].data \in Written
    BY <1>4 DEF OnSave, Moves, SaveInv
  <2>2. QED
    BY <1>4, <2>1, DirFacts DEF OnSave
<1>5. ASSUME NEW t \in Steps, RemoveSome(t)
      PROVE  disk[s].marked
  BY <1>5, RemainsFacts DEF RemoveSome
<1>6. ASSUME NEW t \in Steps, Removed(t)
      PROVE  disk[s].marked
  BY <1>6, DirFacts DEF Removed
<1>7. CASE PowerLost
  BY <1>7, PowerLostFacts
<1>8. CASE WrittenBack
  BY <1>8 DEF WrittenBack, With, Dirs
<1>9. QED
  BY <1>1, <1>2, <1>3, <1>4, <1>5, <1>6, <1>7, <1>8 DEF Next, Work, vars, Launch, Resume, ResumeFails,
     Pruned, TrainEnds, FinalSaved, FinalMarked, Exit, Kill

\* Whatever loses its marker in a step leaves a newer one marked.
LEMMA UnmarkedIsOld ==
  ASSUME IInv, [Next]_vars, NEW s \in Steps, disk[s].marked, ~disk'[s].marked
  PROVE  \E t \in Steps : t > s /\ disk'[t].marked
<1> USE DEF IInv, TypeOK
<1>1. CASE UNCHANGED disk
  BY <1>1
<1>2. CASE TrainStep
  BY <1>2, DirFacts DEF TrainStep
<1>3. CASE Saved \/ OnSave
  BY <1>3, DirFacts DEF Saved, OnSave
<1>4. ASSUME NEW u \in doomed, RemoveSome(u) \/ Removed(u)
      PROVE  \E t \in Steps : t > s /\ disk'[t].marked
  <2>1. \A t \in Steps \ {u} : disk'[t] = disk[t]
    BY <1>4 DEF RemoveSome, Removed
  <2>2. PICK t \in Steps : t > s /\ disk[t].marked
    BY <1>4, <2>1 DEF DoomInv
  <2>3. s = u /\ t # u
    BY <2>1, <2>2, CheckpointsAssumption DEF Steps
  <2>4. QED
    BY <2>1, <2>2, <2>3
<1>5. CASE PowerLost
  BY <1>5, PowerLostFacts
<1>6. CASE WrittenBack
  BY <1>6 DEF WrittenBack, With, Dirs
<1>7. QED
  BY <1>1, <1>2, <1>3, <1>4, <1>5, <1>6 DEF Next, Work, vars, Launch, Resume, ResumeFails,
     Pruned, TrainEnds, FinalSaved, FinalMarked, Exit, Kill, RemoveSome, Removed, Turn

-----------------------------------------------------------------------------
\* Every reachable state of the worker and its disk is well formed
\* (checkpoints.py, train_worker.py).
THEOREM CheckpointsTyped == Spec => []TypeOK
  BY IInvHolds, PTL DEF IInv

\* What a restart resumes from never moves back, whatever is killed, pruned or
\* lost with the power (checkpoints.py, prune; train_worker.py, on_save).
THEOREM ProgressKept == Spec => NoProgressLost
<1>1. IInv /\ IInv' /\ [Next]_vars =>
        [\A s, t \in 0..MaxStep : IsLatest(disk, s) /\ IsLatest(disk', t) => s <= t]_vars
  <2> SUFFICES ASSUME IInv, IInv', [Next]_vars,
                      NEW s \in 0..MaxStep, NEW t \in 0..MaxStep,
                      IsLatest(disk, s), IsLatest(disk', t)
               PROVE  s <= t
    OBVIOUS
  <2>1. /\ \A u \in Steps : disk[u].marked => u <= s
        /\ s \in Steps => disk[s].marked
    BY LatestFacts DEF IInv, TypeOK, NoStray
  <2>2. \A u \in Steps : disk'[u].marked => u <= t
    BY LatestFacts DEF IInv, TypeOK, NoStray
  <2>3. CASE s = 0
    BY <2>3, CheckpointsAssumption
  <2>4. CASE s \in Steps
    BY <2>1, <2>2, <2>4, LatestStays
  <2>5. QED
    BY <2>3, <2>4, CheckpointsAssumption DEF Steps
<1>2. QED
  BY <1>1, IInvHolds, PTL DEF Spec, NoProgressLost

\* However kills, removals and power losses fall, the newest marked checkpoint
\* is one whose save returned: no run is resumed from a half-written or
\* half-deleted one (checkpoints.py, latest and prune).
THEOREM ResumeIsSafe == Spec => []LatestWasSaved
<1>1. Init => LatestWasSaved
  BY DEF Init, LatestWasSaved, IsLatest, Complete, AllCheckpoints, Nothing, Steps
<1>2. IInv /\ IInv' /\ LatestWasSaved /\ [Next]_vars => LatestWasSaved'
  <2> SUFFICES ASSUME IInv, IInv', LatestWasSaved, [Next]_vars,
                      NEW s \in Steps, IsLatest(disk', s)
               PROVE  disk'[s].data \in Saves
    BY DEF LatestWasSaved
  <2>1. disk'[s].marked /\ \A t \in Steps : disk'[t].marked => t <= s
    BY LatestFacts, CheckpointsAssumption DEF IInv, TypeOK, NoStray, Steps
  <2>2. CASE ~disk[s].marked
    BY <2>1, <2>2, MarkedWas DEF Saves
  <2>3. CASE disk[s].marked
    <3>1. \A t \in Steps : disk[t].marked => t <= s
      BY <2>1, UnmarkedIsOld, CheckpointsAssumption DEF Steps
    <3>2. IsLatest(disk, s)
      BY <2>3, <3>1 DEF IsLatest, Complete, AllCheckpoints, IInv, NoStray
    <3>3. QED
      BY <2>3, <3>1, <3>2, LatestStays DEF LatestWasSaved
  <2>4. QED
    BY <2>2, <2>3
<1>3. QED
  BY <1>1, <1>2, IInvHolds, PTL DEF Spec

-----------------------------------------------------------------------------
(* How many directories there are.  The removals that fail are not counted, *)
(* so every prune that comes to its end leaves at most Keep, and only one   *)
(* save can begin before the next prune.                                    *)

Loose(d, u) == AllCheckpoints(d) \ u

BoundInv ==
  /\ doomed \subseteq AllCheckpoints(disk)
  /\ at \in Pruning => Cardinality(Loose(disk, stuck) \ doomed) <= Keep
  /\ at = "training" => Cardinality(Loose(disk, stuck)) <= Keep
  /\ Cardinality(Loose(disk, stuck)) <= Keep + 1

LEMMA FiniteSteps ==
  /\ IsFiniteSet(Steps)
  /\ \A S \in SUBSET Steps : IsFiniteSet(S) /\ Cardinality(S) \in Nat
<1>1. IsFiniteSet(Steps)
  BY FS_Interval, CheckpointsAssumption DEF Steps
<1>. QED  BY <1>1, FS_Subset, FS_CardinalityType

LEMMA FewerSteps ==
  ASSUME NEW S \in SUBSET Steps, NEW T \in SUBSET S
  PROVE  Cardinality(T) <= Cardinality(S)
  BY FiniteSteps, FS_Subset

\* At most Keep numbers have fewer than Keep greater ones.
LEMMA NewestAreFew ==
  ASSUME NEW C \in SUBSET Steps
  PROVE  Cardinality({s \in C : Cardinality({t \in C : t > s}) < Keep}) <= Keep
<1> DEFINE After(s) == {t \in C : t > s}
           N == {s \in C : Cardinality(After(s)) < Keep}
<1>1. N \in SUBSET Steps /\ N \in SUBSET Nat
  <2>1. N \subseteq C /\ \A s \in Steps : s \in Nat
    BY CheckpointsAssumption DEF Steps
  <2>. QED  BY <2>1
<1>2. CASE N = {}
  <2> HIDE DEF N
  <2>1. Cardinality(N) <= Keep
    BY <1>2, FS_EmptySet, CheckpointsAssumption
  <2>. QED  BY <2>1 DEF N
<1>3. CASE N # {}
  <2>1. PICK m \in N : \A n \in N : m <= n
    <3> HIDE DEF N
    <3>. QED  BY <1>1, <1>3, LeastOfSet
  <2>2. Cardinality(After(m)) < Keep /\ After(m) \in SUBSET Steps
    OBVIOUS
  <2>3. N \ {m} \in SUBSET After(m)
    BY <1>1, <2>1
  <2> HIDE DEF N, After
  <2>4. Cardinality(N \ {m}) <= Cardinality(After(m))
    BY <2>2, <2>3, FewerSteps
  <2>5. Cardinality(N \ {m}) = Cardinality(N) - 1
    BY <1>1, <2>1, FiniteSteps, FS_RemoveElement
  <2>6. Cardinality(N) \in Nat /\ Cardinality(After(m)) \in Nat
    BY <1>1, <2>2, FiniteSteps
  <2>. QED  BY <2>2, <2>4, <2>5, <2>6, CheckpointsAssumption DEF N, After
<1>. QED  BY <1>2, <1>3

\* What a prune means to keep.
LEMMA PruneKeepsFew ==
  ASSUME NEW d, NEW u
  PROVE  /\ Prunable(d) \subseteq AllCheckpoints(d)
         /\ Cardinality(Loose(d, u) \ Prunable(d)) <= Keep
<1> DEFINE C == Complete(d)
           N == {s \in C : Cardinality({t \in C : t > s}) < Keep}
<1>1. C \in SUBSET Steps /\ N \in SUBSET Steps
  BY DEF Complete, AllCheckpoints
<1>2. ASSUME NEW s \in Loose(d, u) \ Prunable(d)
      PROVE  s \in N
  <2>1. s \in C /\ ~(Cardinality({t \in C : t > s}) >= Keep)
    BY DEF Prunable, Loose, Complete
  <2>2. Cardinality({t \in C : t > s}) \in Nat
    BY <1>1, FiniteSteps
  <2>. QED  BY <2>1, <2>2, CheckpointsAssumption
<1>3. Cardinality(N) <= Keep
  BY <1>1, NewestAreFew
<1>4. Cardinality(Loose(d, u) \ Prunable(d)) <= Cardinality(N)
  <2> HIDE DEF N
  <2>. QED  BY <1>1, <1>2, FewerSteps
<1>5. Cardinality(N) \in Nat /\ Cardinality(Loose(d, u) \ Prunable(d)) \in Nat
  <2>1. Loose(d, u) \ Prunable(d) \in SUBSET Steps
    BY DEF Loose, AllCheckpoints
  <2>. QED  BY <1>1, <2>1, FiniteSteps
<1>. QED  BY <1>3, <1>4, <1>5, CheckpointsAssumption DEF Prunable

\* A step that adds no directory, and none to those a prune does not remove.
LEMMA BoundStays ==
  ASSUME BoundInv,
         Loose(disk, stuck)' \subseteq Loose(disk, stuck),
         (Loose(disk, stuck) \ doomed)' \subseteq Loose(disk, stuck) \ doomed,
         doomed' \subseteq AllCheckpoints(disk'),
         at' \in Pruning => at \in Pruning,
         at' = "training" => at = "training" \/ (at \in Pruning /\ doomed = {})
  PROVE  BoundInv'
<1> DEFINE L == Loose(disk, stuck)
           K == Loose(disk, stuck) \ doomed
<1>1. L \in SUBSET Steps /\ L' \in SUBSET Steps /\ K \in SUBSET Steps /\ K' \in SUBSET Steps
  BY DEF Loose, AllCheckpoints
<1>2. Cardinality(L') <= Cardinality(L) /\ Cardinality(K') <= Cardinality(K)
  BY <1>1, FewerSteps
<1>3. /\ Cardinality(L) \in Nat /\ Cardinality(L') \in Nat
      /\ Cardinality(K) \in Nat /\ Cardinality(K') \in Nat
  BY <1>1, FiniteSteps
<1>4. doomed = {} => K = L
  OBVIOUS
<1> HIDE DEF L, K
<1>. QED  BY <1>2, <1>3, <1>4, CheckpointsAssumption DEF BoundInv, L, K

LEMMA NextBound == IInv /\ BoundInv /\ [Next]_vars => BoundInv'
<1> SUFFICES ASSUME IInv, BoundInv, [Next]_vars PROVE BoundInv'
  OBVIOUS
<1> USE DEF IInv, TypeOK
<1>1. CASE Launch
  <2>1. Loose(disk, stuck)' = Loose(disk, stuck) /\ doomed' = Prunable(disk')
        /\ at' = "starting"
    BY <1>1 DEF Launch, Loose, AllCheckpoints
  <2>. QED  BY <2>1, PruneKeepsFew DEF BoundInv
<1>2. CASE OnSave
  <2>1. step \in Steps /\ disk[step].data \in Written
    BY <1>2 DEF OnSave, Moves, SaveInv
  <2>2. \A s \in Steps : disk'[s].data = disk[s].data
    BY <1>2, <2>1, DirFacts DEF OnSave
  <2>3. Loose(disk, stuck)' = Loose(disk, stuck) /\ doomed' = Prunable(disk')
        /\ at' = "pruning"
    BY <1>2, <2>2 DEF OnSave, Moves, Loose, AllCheckpoints
  <2>. QED  BY <2>3, PruneKeepsFew DEF BoundInv
<1>3. CASE TrainStep
  <2>1. step' \in Steps
    BY <1>3, CheckpointsAssumption DEF TrainStep, Steps
  <2>2. CASE at' = "training" /\ UNCHANGED disk
    BY <1>3, <2>2, BoundStays DEF TrainStep, BoundInv, Loose, Pruning
  <2>3. CASE at' = "saving" /\ disk' = [disk EXCEPT ![step'] = StartSave(@)]
    <3> DEFINE L == Loose(disk, stuck)
    <3>1. /\ AllCheckpoints(disk') = AllCheckpoints(disk) \cup {step'}
          /\ L' \subseteq L \cup {step'}
      BY <1>3, <2>1, <2>3, DirFacts DEF TrainStep, Loose, AllCheckpoints
    <3>2. L \in SUBSET Steps /\ L \cup {step'} \in SUBSET Steps /\ L' \in SUBSET Steps
      BY <2>1 DEF Loose, AllCheckpoints
    <3>3. Cardinality(L) <= Keep /\ doomed' = doomed
      BY <1>3 DEF TrainStep, BoundInv
    <3>4. doomed' \subseteq AllCheckpoints(disk')
      BY <3>1, <3>3 DEF BoundInv
    <3> HIDE DEF L
    <3>5. Cardinality(L') <= Cardinality(L \cup {step'})
      BY <3>1, <3>2, FewerSteps
    <3>6. Cardinality(L \cup {step'}) <= Cardinality(L) + 1
      <4>1. IsFiniteSet(L) /\ Cardinality(L) \in Nat
        BY <3>2, FiniteSteps
      <4>2. Cardinality(L \cup {step'})
              = IF step' \in L THEN Cardinality(L) ELSE Cardinality(L) + 1
        BY <4>1, FS_AddElement
      <4>. QED  BY <4>1, <4>2
    <3>7. /\ Cardinality(L) \in Nat /\ Cardinality(L') \in Nat
          /\ Cardinality(L \cup {step'}) \in Nat
      BY <3>2, FiniteSteps
    <3>8. Cardinality(L') <= Keep + 1
      BY <3>3, <3>5, <3>6, <3>7, CheckpointsAssumption
    <3>. QED  BY <2>3, <3>4, <3>8 DEF BoundInv, Pruning, L
  <2>. QED  BY <1>3, <2>2, <2>3 DEF TrainStep
<1>4. ASSUME NEW s \in Steps, RemoveSome(s) \/ Removed(s) PROVE BoundInv'
  <2>1. at \in Pruning /\ s \in doomed /\ s \in AllCheckpoints(disk) /\ at' = at
    BY <1>4 DEF RemoveSome, Removed, Turn, BoundInv
  <2>2. CASE RemoveSome(s)
    <3>1. AllCheckpoints(disk') = AllCheckpoints(disk) /\ UNCHANGED <<doomed, stuck>>
      BY <2>1, <2>2, RemainsFacts DEF RemoveSome, AllCheckpoints
    <3>2. Loose(disk, stuck)' = Loose(disk, stuck)
      BY <3>1 DEF Loose
    <3>. QED  BY <2>1, <3>1, <3>2, BoundStays DEF BoundInv, Pruning
  <2>3. CASE Removed(s)
    <3>1. doomed' = doomed \ {s}
      BY <2>3 DEF Removed
    <3>2. /\ Loose(disk, stuck)' = Loose(disk, stuck) \ {s}
          /\ AllCheckpoints(disk) \ {s} \subseteq AllCheckpoints(disk')
      <4>1. CASE disk' = [disk EXCEPT ![s] = Nothing] /\ stuck' = stuck \ {s}
        <5>1. AllCheckpoints(disk') = AllCheckpoints(disk) \ {s}
          BY <4>1 DEF AllCheckpoints, Nothing
        <5>. QED  BY <4>1, <5>1 DEF Loose
      <4>2. CASE UNCHANGED disk /\ stuck' = stuck \cup {s}
        BY <4>2 DEF Loose
      <4>. QED  BY <2>3, <4>1, <4>2 DEF Removed
    <3>3. doomed' \subseteq AllCheckpoints(disk')
      BY <3>1, <3>2 DEF BoundInv
    <3>. QED  BY <2>1, <3>1, <3>2, <3>3, BoundStays DEF Pruning
  <2>. QED  BY <1>4, <2>2, <2>3
<1>5. ASSUME \A s \in Steps : disk'[s].data = "none" <=> disk[s].data = "none",
             stuck' = stuck, doomed' = doomed \/ (doomed' = {} /\ at' \notin Pruning),
             at' \in Pruning => at \in Pruning,
             at' = "training" => at = "training" \/ (at \in Pruning /\ doomed = {})
      PROVE  BoundInv'
  <2>1. AllCheckpoints(disk') = AllCheckpoints(disk)
    BY <1>5 DEF AllCheckpoints
  <2>2. Loose(disk, stuck)' = Loose(disk, stuck)
    BY <1>5, <2>1 DEF Loose
  <2>3. doomed' \subseteq AllCheckpoints(disk')
    BY <1>5, <2>1 DEF BoundInv
  <2>4. CASE doomed' = doomed
    BY <1>5, <2>2, <2>3, <2>4, BoundStays
  <2>5. CASE doomed' = {} /\ at' \notin Pruning
    <3>1. at' = "training" => Cardinality(Loose(disk, stuck)) <= Keep
      <4>1. doomed = {} => Loose(disk, stuck) \ doomed = Loose(disk, stuck)
        OBVIOUS
      <4>. QED  BY <1>5, <4>1 DEF BoundInv
    <3>. QED  BY <2>2, <2>3, <2>5, <3>1 DEF BoundInv
  <2>. QED  BY <1>5, <2>4, <2>5
<1>6. CASE Saved
  <2>1. step \in Steps /\ disk[step].data = "part"
    BY <1>6 DEF Saved, Moves, SaveInv
  <2>2. \A s \in Steps : disk'[s].data = "none" <=> disk[s].data = "none"
    BY <1>6, <2>1, DirFacts DEF Saved
  <2>. QED  BY <1>5, <1>6, <2>2 DEF Saved, Moves, Pruning
<1>7. CASE PowerLost
  BY <1>5, <1>7, PowerLostFacts DEF PowerLost, Gone, Pruning
<1>8. CASE WrittenBack
  <2>1. \A s \in Steps : disk'[s].data = "none" <=> disk[s].data = "none"
    BY <1>8 DEF WrittenBack, With
  <2>2. stuck' = stuck /\ doomed' = doomed /\ at' = at
    BY <1>8 DEF WrittenBack
  <2>. QED  BY <1>5, <2>1, <2>2
<1>9. CASE Kill
  BY <1>5, <1>9 DEF Kill, Gone, Pruning
<1>10. CASE Resume \/ Pruned \/ ResumeFails \/ TrainEnds \/ FinalSaved \/ FinalMarked \/ Exit
  <2>1. /\ UNCHANGED <<disk, doomed, stuck>> /\ at' \notin Pruning
        /\ at' = "training" => at \in Pruning /\ doomed = {}
    BY <1>10 DEF Resume, Pruned, ResumeFails, TrainEnds, FinalSaved, FinalMarked, Exit, Moves, Pruning
  <2>. QED  BY <1>5, <2>1
<1>11. CASE UNCHANGED vars
  <2>1. disk' = disk /\ stuck' = stuck /\ doomed' = doomed /\ at' = at
    BY <1>11 DEF vars
  <2>. QED  BY <1>5, <2>1
<1>. QED
  BY <1>1, <1>2, <1>3, <1>4, <1>6, <1>7, <1>8, <1>9, <1>10, <1>11 DEF Next, Work

\* However often the worker is killed, and whatever a prune leaves when it is
\* interrupted, there is never more than one directory beyond those kept, not
\* counting those that rmtree could not remove (checkpoints.py, prune).
THEOREM DebrisIsBounded == Spec => []DiskBounded
<1>1. Init => BoundInv
  <2> SUFFICES ASSUME Init PROVE BoundInv
    OBVIOUS
  <2>1. Loose(disk, stuck) = {} /\ doomed = {} /\ at = "off"
    BY DEF Init, Loose, AllCheckpoints, Nothing
  <2>. QED  BY <2>1, FS_EmptySet, CheckpointsAssumption DEF BoundInv, Pruning
<1>2. BoundInv => DiskBounded
  BY DEF BoundInv, DiskBounded, Loose
<1>. QED  BY <1>1, <1>2, IInvHolds, NextBound, PTL DEF Spec
=============================================================================
