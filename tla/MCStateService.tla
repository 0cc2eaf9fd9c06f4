--------------------------- MODULE MCStateService ---------------------------
(* Small instances of the state service, with the ledger's own replay.      *)
EXTENDS EventLedger

CONSTANTS c1, c2,          \* connections
          t1, t2,          \* tasks
          e1, e2, e3, e4   \* event ids
=============================================================================
