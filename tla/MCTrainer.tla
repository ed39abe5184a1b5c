------------------------------ MODULE MCTrainer ------------------------------
(***************************************************************************)
(* Instances of Trainer for TLC: the LLM over the trainer, as in jobs.yaml. *)
(***************************************************************************)
EXTENDS Trainer

CONSTANT llm

MCNames == {llm, trainer}
MCOrder == <<llm, trainer>>
MCKind == [n \in MCNames |-> IF n = trainer THEN "cooperative" ELSE "none"]
MCPriority == [n \in MCNames |-> IF n = llm THEN 100 ELSE -10]
MCRoom == [n \in MCNames |-> n = trainer]

MCFaults == {{"shutdown", "oom"}, {"restart", "crash", "lose", "slow"}}
=============================================================================
