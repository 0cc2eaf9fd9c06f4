------------------------------- MODULE MCLease -------------------------------
(* Small instances of the lease service.                                    *)
EXTENDS Lease, TLC

CONSTANTS a, b, c          \* controllers

Symmetry == Permutations(Controllers)
===============================================================================
