SPECIFICATION Spec
CONSTANTS
  Count = 3
  Faulty = {3}
  Interactive = TRUE
  MaxCommits = 2
CHECK_DEADLOCK FALSE
INVARIANTS
  CriteriaTellMain
PROPERTIES
  MainIsTested
