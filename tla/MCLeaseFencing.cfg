SPECIFICATION Spec
CONSTANTS
  a = a
  b = b
  c = c
  NoController = NoController
  Controllers = {a, b, c}
  Durations = {1, 2}
  MaxTime = 4
  MaxVersion = 4
SYMMETRY Symmetry
INVARIANTS
  SupersededIsFenced
