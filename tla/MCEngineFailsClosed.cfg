SPECIFICATION Spec
CONSTANTS
  e1 = e1
  e2 = e2
  Free = Free
  Other = Other
  Engines = {e1}
  MaxStarts = 1
  OtherWriters = FALSE
  Unlisted = TRUE
  Baselines = {TRUE}
CHECK_DEADLOCK FALSE
INVARIANTS
  FailsClosed
