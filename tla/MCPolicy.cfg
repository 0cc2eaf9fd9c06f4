SPECIFICATION Spec
CONSTANTS
  Gates = {g1, g2, g3}
  MaxBad = 1
SYMMETRY Symmetry
PROPERTIES LessNeverRaises FailureIsNotBuried
CHECK_DEADLOCK FALSE
