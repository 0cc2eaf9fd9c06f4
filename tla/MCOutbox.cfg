SPECIFICATION FairSpec
CONSTANTS
  Workers = {w1, w2}
  Msgs = {1, 2}
  MaxAttempts = 2
  BaseDelay = 1
  MaxCrashes = 1
INVARIANTS TableIsTruthful DuplicatesNeedACrash
PROPERTIES SettledIsFinal Settles
CHECK_DEADLOCK FALSE
