------------------------------ MODULE MCArbiter ------------------------------
(***************************************************************************)
(* Instances of Arbiter for TLC, after arbiter/jobs.yaml: the LLM, two     *)
(* cooperative jobs below it, a container job, and a name that is not in   *)
(* the file.                                                               *)
(***************************************************************************)
EXTENDS Arbiter, TLC

CONSTANTS llm, video, trainer, box, bench

AllNames == {llm, video, trainer, box, bench}

MCKind == [n \in AllNames |->
  IF n \in {video, trainer} THEN "cooperative" ELSE
  IF n = box THEN "container" ELSE "none"]

MCPriority == [n \in AllNames |->
  IF n = llm THEN 100 ELSE IF n \in {trainer, box} THEN -10 ELSE 0]

MCRequiresRoom == [n \in AllNames |-> n \in {video, trainer}]

TaskSymmetry == Permutations(Tasks)

\* One job of each kind, and an unknown name.
MCNames == {llm, video, box, bench}
MCOrder == <<llm, video, box>>
MCKindOf == [n \in MCNames |-> MCKind[n]]
MCPriorityOf == [n \in MCNames |-> MCPriority[n]]
MCRoomOf == [n \in MCNames |-> MCRequiresRoom[n]]

\* The kinds that are deployed, for liveness.
LiveNames == {llm, trainer, bench}
LiveOrder == <<llm, trainer>>
LiveKind == [n \in LiveNames |-> MCKind[n]]
LivePriority == [n \in LiveNames |-> MCPriority[n]]
LiveRoom == [n \in LiveNames |-> MCRequiresRoom[n]]
=============================================================================
