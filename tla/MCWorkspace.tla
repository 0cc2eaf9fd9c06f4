------------------------------ MODULE MCWorkspace ------------------------------
(* Small instances of a worktree's life.                                     *)
EXTENDS Workspace, TLC

CONSTANTS a, b, i, x       \* approved: tracked, new, new and ignored; not approved
===============================================================================
