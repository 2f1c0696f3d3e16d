CONSTANTS
  LaneJob = {j1}
  Scaler = {}
  Launcher = launcher
  HeadJob = headjob
  Stopper = {}
  InitialLanes = 0
  Targets = {}
  Faults = {"submit"}
SPECIFICATION FairSpec
PROPERTIES
  FailedSubmissionSettles
CHECK_DEADLOCK FALSE
