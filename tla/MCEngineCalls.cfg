SPECIFICATION CFairSpec
CONSTANTS
  e1 = e1
  Free = Free
  Other = Other
  Engines = {e1}
  MaxStarts = 2
  OtherWriters = TRUE
  Unlisted = TRUE
  Baselines = {TRUE, FALSE}
  Channels = {"sdk", "cli", "custom"}
  Budgets = {0, 1}
  Costs = {0, 1, 2}
  CliTimeout = 2
  DeadlineAt = 1
  MaxClock = 3
  MaxRetries = 2
CHECK_DEADLOCK FALSE
INVARIANTS
  AnswerIsEarned
  PaidOnce
PROPERTIES
  EngineEnds
  CallsEnd
