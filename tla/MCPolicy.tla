------------------------------ MODULE MCPolicy ------------------------------
(***************************************************************************)
(* Three check ids, so that a failed, a missing and a passed gate can meet *)
(* in one input, and one or two bad facts.                                 *)
(***************************************************************************)
EXTENDS Policy, TLC

Symmetry == Permutations(Gates)
=============================================================================
