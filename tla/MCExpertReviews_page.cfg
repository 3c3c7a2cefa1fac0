CONSTANTS
  n1 = n1  w1 = w1  w2 = w2
  Batches = {1}
  Names = {n1}
  Web = {w1}
  Environments <- OnlyEarly
SPECIFICATION Spec
INVARIANTS PageNeverRaises
CHECK_DEADLOCK FALSE
