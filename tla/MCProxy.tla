------------------------------- MODULE MCProxy -------------------------------
(***************************************************************************)
(* Instances of Proxy for TLC.                                             *)
(***************************************************************************)
EXTENDS Proxy

MCNoFaults == {{}}
MCFaults == {{}, {"lose", "raise"}}
=============================================================================
