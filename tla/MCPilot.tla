-------------------------------- MODULE MCPilot --------------------------------
(* Three tasks, the last to run out of its budget, an owner and an operator. *)
EXTENDS Pilot
===============================================================================
