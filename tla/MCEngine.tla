------------------------------- MODULE MCEngine -------------------------------
(* Small instances of the closed loop.                                       *)
EXTENDS Engine, TLC

CONSTANTS e1, e2           \* engine processes

Symmetry == Permutations(Engines)
===============================================================================
