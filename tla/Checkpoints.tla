----------------------------- MODULE Checkpoints -----------------------------
(***************************************************************************)
(* What a training run leaves on disk: lora-training/checkpoints.py, and    *)
(* the worker of train_worker.py that saves, marks, prunes and resumes.     *)
(* The worker is killed without warning on every handover and started       *)
(* again by its supervisor, so every action is one that a kill can follow.  *)
(*                                                                         *)
(* A directory's data is                                                   *)
(*   none    not there                                                     *)
(*   part    half written, or half deleted                                 *)
(*   cached  all written, some of it only in the page cache                *)
(*   whole   all written and on the disk                                   *)
(*   lost    all written once, but the power went before it was on the disk *)
(* and it may hold the COMPLETE marker.  A save does not remove a marker   *)
(* that is there.                                                          *)
(***************************************************************************)
EXTENDS Integers, FiniteSets

CONSTANTS
  MaxStep,   \* the step at which training ends
  Keep       \* keep_checkpoints

ASSUME CheckpointsAssumption ==
  /\ MaxStep \in Nat \ {0}
  /\ Keep \in Nat \ {0}

VARIABLES
  disk,     \* <output_dir>/checkpoint-<step>, by step
  final,    \* <output_dir>/final
  at,       \* where the worker is
  step,     \* the Trainer's global_step
  doomed,   \* the directories that the prune under way has still to remove
  stuck     \* history: the directories that rmtree could not remove

vars == <<disk, final, at, step, doomed, stuck>>

Steps   == 1..MaxStep
Written == {"cached", "whole"}
Saves   == Written \cup {"lost"}
Dirs    == [data : {"none", "part"} \cup Saves, marked : BOOLEAN]
Nothing == [data |-> "none", marked |-> FALSE]

Pruning == {"starting", "pruning"}
Places  == Pruning \cup {"off", "training", "saving", "marking",
                         "savingFinal", "markingFinal", "leaving", "done"}

TypeOK ==
  /\ disk \in [Steps -> Dirs]
  /\ final \in Dirs
  /\ at \in Places
  /\ step \in 0..MaxStep
  /\ doomed \in SUBSET Steps
  /\ stuck \in SUBSET Steps

Init ==
  /\ disk = [s \in Steps |-> Nothing]
  /\ final = Nothing
  /\ at = "off"
  /\ step = 0
  /\ doomed = {}
  /\ stuck = {}

-----------------------------------------------------------------------------
(* checkpoints.py                                                          *)

AllCheckpoints(d) == {s \in Steps : d[s].data # "none"}
Complete(d)       == {s \in AllCheckpoints(d) : d[s].marked}

\* latest: the step of the newest complete checkpoint, 0 to start from scratch.
IsLatest(d, s) ==
  \/ s = 0 /\ Complete(d) = {}
  \/ s \in Complete(d) /\ \A t \in Complete(d) : t <= s

\* Seeded fault: prune leaves debris where it is.
PrunableOld(d) ==
  {s \in Complete(d) : Cardinality({t \in Complete(d) : t > s}) >= Keep}

\* Seeded fault: prune keeps the oldest ones.
PrunableNew(d) ==
  {s \in AllCheckpoints(d) :
     \/ ~d[s].marked
     \/ Cardinality({t \in Complete(d) : t < s}) >= Keep}

\* What prune removes: debris, and all complete ones but the newest Keep.
Prunable(d) ==
  {s \in AllCheckpoints(d) :
     \/ ~d[s].marked
     \/ Cardinality({t \in Complete(d) : t > s}) >= Keep}

\* mark_complete: the marker is fsynced, the data it vouches for is not.
Mark(dir) == [data |-> dir.data, marked |-> TRUE]

With(dir, d) == [data |-> d, marked |-> dir.marked]

\* Seeded fault: the marker is written when the save starts.
StartSaveMarked(dir) == [data |-> "part", marked |-> TRUE]

StartSave(dir) == With(dir, "part")

FinishSave(dir) == With(dir, "cached")

\* What rmtree may have left of a directory when it is interrupted: it unlinks
\* in no particular order, so the marker can outlive the data it vouches for.
Remains(dir) == {With(dir, "part"), With(Nothing, "part")}

-----------------------------------------------------------------------------
(* train_worker.py                                                         *)

Moves(here, next) == at = here /\ at' = next

\* main: prune before anything else.  After an exit the run may be submitted
\* again, with the same output directory.
Launch ==
  /\ at \in {"off", "done"}
  /\ at' = "starting"
  /\ step' = 0
  /\ doomed' = Prunable(disk)
  /\ UNCHANGED <<disk, final, stuck>>

\* prune removes debris first, then the oldest.
Turn(s) ==
  /\ at \in Pruning /\ s \in doomed
  /\ \A t \in doomed \ {s} :
       IF disk[s].marked = disk[t].marked THEN s < t ELSE disk[t].marked

RemoveSome(s) ==
  /\ Turn(s)
  /\ \E r \in Remains(disk[s]) : disk' = [disk EXCEPT ![s] = r]
  /\ UNCHANGED <<final, at, step, doomed, stuck>>

\* rmtree returns.  It ignores errors, so it may have removed nothing.
Removed(s) ==
  /\ Turn(s)
  /\ doomed' = doomed \ {s}
  /\ \/ disk' = [disk EXCEPT ![s] = Nothing] /\ stuck' = stuck \ {s}
     \/ UNCHANGED disk /\ stuck' = stuck \cup {s}
  /\ UNCHANGED <<final, at, step>>

Resume ==
  /\ doomed = {}
  /\ Moves("starting", "training")
  /\ \E s \in 0..MaxStep : IsLatest(disk, s) /\ step' = s
  /\ UNCHANGED <<disk, final, doomed, stuck>>

\* A checkpoint that the power loss damaged may not load: train raises, and the
\* supervisor gives up until the run is submitted again.
ResumeFails ==
  /\ doomed = {}
  /\ Moves("starting", "off")
  /\ \E s \in Steps : IsLatest(disk, s) /\ disk[s].data \notin Written
  /\ UNCHANGED <<disk, final, step, doomed, stuck>>

\* Seeded fault: training goes one step too far.
TrainBeyond ==
  /\ at = "training" /\ step <= MaxStep
  /\ step' = step + 1
  /\ UNCHANGED <<disk, at, final, doomed, stuck>>

\* A step of training, after which on_step_end may ask for a save.
TrainStep ==
  /\ at = "training" /\ step < MaxStep
  /\ step' = step + 1
  /\ \/ at' = "training" /\ UNCHANGED disk
     \/ at' = "saving" /\ disk' = [disk EXCEPT ![step'] = StartSave(@)]
  /\ UNCHANGED <<final, doomed, stuck>>

Saved ==
  /\ Moves("saving", "marking")
  /\ disk' = [disk EXCEPT ![step] = FinishSave(@)]
  /\ UNCHANGED <<final, step, doomed, stuck>>

\* on_save: mark, then prune.
OnSave ==
  /\ Moves("marking", "pruning")
  /\ disk' = [disk EXCEPT ![step] = Mark(@)]
  /\ doomed' = Prunable(disk')
  /\ UNCHANGED <<final, step, stuck>>

Pruned ==
  /\ doomed = {}
  /\ Moves("pruning", "training")
  /\ UNCHANGED <<disk, final, step, doomed, stuck>>

\* Seeded fault: the end of training waits for a checkpoint of the last step.
TrainEndsSaved ==
  /\ step = MaxStep /\ disk[MaxStep].marked
  /\ Moves("training", "savingFinal")
  /\ final' = StartSave(final)
  /\ UNCHANGED <<disk, step, doomed, stuck>>

TrainEnds ==
  /\ step = MaxStep
  /\ Moves("training", "savingFinal")
  /\ final' = StartSave(final)
  /\ UNCHANGED <<disk, step, doomed, stuck>>

FinalSaved ==
  /\ Moves("savingFinal", "markingFinal")
  /\ final' = FinishSave(final)
  /\ UNCHANGED <<disk, step, doomed, stuck>>

FinalMarked ==
  /\ Moves("markingFinal", "leaving")
  /\ final' = Mark(final)
  /\ UNCHANGED <<disk, step, doomed, stuck>>

\* Exit status 0, after which the supervisor starts no other worker.
Exit ==
  /\ Moves("leaving", "done")
  /\ UNCHANGED <<disk, final, step, doomed, stuck>>

Work ==
  \/ Launch \/ Resume \/ ResumeFails \/ TrainStep \/ Saved \/ OnSave \/ Pruned
  \/ TrainEnds \/ FinalSaved \/ FinalMarked \/ Exit
  \/ \E s \in Steps : RemoveSome(s) \/ Removed(s)

-----------------------------------------------------------------------------
(* The world.                                                              *)

Running == at \notin {"off", "done"}

\* The process is gone, and with it all that it had in memory.
Gone == at' = "off" /\ step' = 0 /\ doomed' = {} /\ UNCHANGED stuck

\* SIGKILL, from the supervisor or from the kernel.
Kill ==
  /\ Running
  /\ Gone
  /\ UNCHANGED <<disk, final>>

\* What was only in the page cache is there after a power loss, or it is not.
Survives(dir, kept) ==
  IF dir.data = "cached" THEN With(dir, IF kept THEN "whole" ELSE "lost") ELSE dir

PowerLost ==
  /\ Gone
  /\ \E kept \in SUBSET {s \in Steps : disk[s].data = "cached"} :
       disk' = [s \in Steps |-> Survives(disk[s], s \in kept)]
  /\ \E kept \in BOOLEAN : final' = Survives(final, kept)

WrittenBack ==
  /\ \/ /\ \E s \in Steps :
             disk[s].data = "cached" /\ disk' = [disk EXCEPT ![s] = With(@, "whole")]
        /\ UNCHANGED final
     \/ /\ final.data = "cached" /\ final' = With(final, "whole")
        /\ UNCHANGED disk
  /\ UNCHANGED <<at, step, doomed, stuck>>

Next == Work \/ Kill \/ PowerLost \/ WrittenBack

Spec == Init /\ [][Next]_vars

\* A worker that is not killed keeps going, and the supervisor starts another
\* one after a kill.
FairSpec == Spec /\ WF_vars(Work)

-----------------------------------------------------------------------------
(* Properties.                                                             *)

\* No kill, wherever it falls, and no removal that fails or is interrupted makes
\* a run resume from a half-written or half-deleted checkpoint: only a power loss
\* can damage the newest marked directory (checkpoints.py, latest and prune).
LatestWasSaved == \A s \in Steps : IsLatest(disk, s) => disk[s].data \in Saves

\* No kill and no prune costs a checkpoint that was marked: what a restart would
\* resume from never moves back (checkpoints.py, prune; train_worker.py, on_save).
NoProgressLost ==
  [][\A s, t \in 0..MaxStep : IsLatest(disk, s) /\ IsLatest(disk', t) => s <= t]_vars

\* Kills leave debris, but never more than one directory beyond those kept,
\* besides what rmtree could not remove (checkpoints.py, prune).
DiskBounded == Cardinality(AllCheckpoints(disk) \ stuck) <= Keep + 1

\* The checkpoint that a restart would resume from was damaged by a power loss.
Damaged == \E s \in Steps : IsLatest(disk, s) /\ disk[s].data = "lost"

\* Once the kills and the power losses stop the run finishes, from whatever they
\* left on the disk short of a damaged checkpoint (train_worker.py, main).
TrainingFinishes ==
  <>[][~Kill /\ ~PowerLost]_vars /\ <>[]~Damaged => <>(at = "done")

\* While no worker runs, a marked adapter is one whose save returned: that is
\* what the export trusts (train_worker.py, main; checkpoints.py, mark_complete).
FinalWasSaved == final.marked /\ ~Running => final.data \in Saves
=============================================================================
