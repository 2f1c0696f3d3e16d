SPECIFICATION Spec
CONSTANTS
  d1 = d1
  d2 = d2
  c1 = c1
  c2 = c2
  b1 = b1
  b2 = b2
  a1 = a1
  a2 = a2
  Driver = {d1, d2}
  Clip = {c1, c2}
  Batch = {b1, b2}
  BatchOf <- TwoBatches
  ActionOf <- TwoActions
  Threshold = 2
  Attempts = 2
  Releases = 1
  Deaths = 1
INVARIANT RowsAreBacked
INVARIANT RunAccounts
INVARIANT OnceForEachRival
SYMMETRY DriverSymmetry
CHECK_DEADLOCK FALSE
