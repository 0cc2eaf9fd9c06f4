SPECIFICATION Spec
CONSTANTS
  c1 = c1
  c2 = c2
  t1 = t1
  t2 = t2
  e1 = e1
  e2 = e2
  e3 = e3
  e4 = e4
  NoConn = NoConn
  Conns = {c1, c2}
  Tasks = {t1}
  EventIds = {e1, e2, e3, e4}
  UnrecordableIds = {e4}
  Keepers = {c1}
  KeeperIds = {e1, e2, e3, e4}
  Targets = {"BASELINING", "PLAN_READY", "SAFE_HALT", "CANCELLED"}
  Reasons = {"ok", "blank"}
INVARIANTS
  LedgerTellsRows
