CONSTANTS
  LaneJob = {j1, j2}
  Scaler = {c1}
  Launcher = launcher
  HeadJob = headjob
  Stopper = {}
  InitialLanes = 1
  Targets = {0, 2}
  Faults = {"squeue", "kill", "fence", "read", "write"}
SPECIFICATION FairSpec
INVARIANT
  RayDownBeforePublished
PROPERTIES
  RecordedRunSettles
  LanesFollowHead
CHECK_DEADLOCK FALSE
