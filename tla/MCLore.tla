------------------------------- MODULE MCLore -------------------------------
(***************************************************************************)
(* Lore for TLC: the constants are given in the configurations.             *)
(***************************************************************************)
EXTENDS Lore
=============================================================================
