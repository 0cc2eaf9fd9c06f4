SPECIFICATION Spec
CONSTANTS
  e1 = e1
  e2 = e2
  Free = Free
  Other = Other
  Engines = {e1, e2}
  MaxStarts = 3
  OtherWriters = TRUE
  Unlisted = TRUE
  Baselines = {TRUE, FALSE}
CHECK_DEADLOCK FALSE
SYMMETRY Symmetry
INVARIANTS
  TypeOK
  AskedOnce
  PhaseIsBacked
  EditsAreApproved
  ReturnsFinal
PROPERTIES
  ReadyIsEarned
