------------------------------ MODULE MCOutbox ------------------------------
(***************************************************************************)
(* Workers are interchangeable; messages are not (they have an order).     *)
(***************************************************************************)
EXTENDS Outbox, TLC

Symmetry == Permutations(Workers)
=============================================================================
