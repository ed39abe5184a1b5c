------------------------------ MODULE MCHistory ------------------------------
(***************************************************************************)
(* Instances of History for TLC.  Two calls of the same endpoint are alike.*)
(***************************************************************************)
EXTENDS History

CONSTANTS c1, c2

MCChannel == [m \in Msgs |-> IF m = 2 THEN c2 ELSE c1]

PipelineSymmetry == Permutations(Pipelines)
=============================================================================
