SPECIFICATION Spec
CONSTANTS
  a = a
  b = b
  i = i
  x = x
  Files = {a, b, i, x}
  Tracked = {a, x}
  Ignored = {i}
  Allowed = {a, b, i}
  MaxStrays = 2
  StrayActs = {"write", "stage", "commit"}
  DiffMayFail = TRUE
  Binary = {x}
  Checks = {"unit"}
CHECK_DEADLOCK FALSE
INVARIANTS
  TypeOK
  DeltaInScope
  DeltaIsTheBatch
  TestedIsReviewed
  PromotedIsReviewed
  BundleIsOwn
  SidecarIsTrue
  OnlyIgnoredIsLost
PROPERTIES
  RefusedLeavesNothing
