------------------------------- MODULE MCAgent -------------------------------
(***************************************************************************)
(* An instance of Agent for TLC: two searches whose hits overlap, each with *)
(* its own wording for a miss.                                              *)
(***************************************************************************)
EXTENDS Agent

CONSTANTS a, b, c, n1, n2, s1, s2

MCTexts == {a, b, c, n1, n2}
MCHits == [s \in {s1, s2} |-> IF s = s1 THEN {a, b} ELSE {b, c}]
MCMiss == [s \in {s1, s2} |-> IF s = s1 THEN n1 ELSE n2]
=============================================================================
