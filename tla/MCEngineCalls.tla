----------------------------- MODULE MCEngineCalls -----------------------------
(* A small instance of the closed loop with its agent calls.                 *)
EXTENDS EngineCalls, TLC

CONSTANTS e1               \* an engine process
===============================================================================
