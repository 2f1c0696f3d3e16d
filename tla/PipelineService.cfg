SPECIFICATION FairSpec
CONSTANTS
  w1 = w1
  w2 = w2
  r1 = r1
  r2 = r2
  Worker = {w1, w2}
  Request = {r1, r2}
  Direct = {r1}
  Route <- MCRoute
  Faults = 1
INVARIANT OnePipeline
INVARIANT HonestVerdict
PROPERTY VerdictStays
PROPERTY AcceptedIsJudged
PROPERTY MarkerGoes
CHECK_DEADLOCK FALSE
