SPECIFICATION FairSpec
CONSTANTS
  d1 = d1
  d2 = d2
  c1 = c1
  c2 = c2
  b1 = b1
  b2 = b2
  a1 = a1
  a2 = a2
  Driver = {d1}
  Clip = {c1, c2}
  Batch = {b1}
  BatchOf <- OneBatch
  ActionOf <- OwnActions
  Threshold = 2
  Attempts = 2
  Releases = 2
  Deaths = 2
INVARIANT EachClipOnce
INVARIANT OneContract
INVARIANT ReportIsCurrent
PROPERTY ImplementsTable
PROPERTY AllPublished
CHECK_DEADLOCK FALSE
