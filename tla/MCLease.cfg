SPECIFICATION Spec
CONSTANTS
  a = a
  b = b
  c = c
  NoController = NoController
  Controllers = {a, b, c}
  Durations = {1, 2}
  MaxTime = 3
  MaxVersion = 2
SYMMETRY Symmetry
INVARIANTS
  TypeOK
  MutualExclusion
  TokensRise
  TakenOverIsFenced
