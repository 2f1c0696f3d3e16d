SPECIFICATION FairSpec
CONSTANTS
  d = d
  n = n
  profiling = profiling
  traces = traces
  big = big
  small = small
  root = root
  span = span
  Node = {d, n}
  Driver = d
  Kind = {profiling, traces}
  File = {big, small, root, span}
  Flushed = {root}
  Home <- MCHome
  Of <- MCOf
  Length <- MCLength
  Order <- MCOrder
  Modes <- MCModes
  Window = 2
  Growth = 1
  Faults = 1
  Calls = 1
INVARIANT OkIsWhole
INVARIANT RemovedWasDelivered
INVARIANT ShutdownDelivers
PROPERTY DeliveredIsFinal
PROPERTY ShutdownEnds
CHECK_DEADLOCK FALSE
