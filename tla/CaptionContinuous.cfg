SPECIFICATION FairSpec
CONSTANTS
  a = a
  b = b
  e = e
  a1 = a1
  a2 = a2
  b1 = b1
  b2 = b2
  Input = {a, b, e}
  Window = {a1, a2, b1, b2}
  Owner <- Owners
  TwoStage = {a1}
  Blank = {b1}
  Limit = 1
  Retries = 2
  Burst = 1
INVARIANT NothingRunsAfterFree
INVARIANT FailuresContained
INVARIANT StopDrains
PROPERTY ImplementsContract
PROPERTY StopEnds
PROPERTY RegisteredIsAnswered
CHECK_DEADLOCK FALSE
