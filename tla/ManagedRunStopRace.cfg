CONSTANTS
  LaneJob = {j1}
  Scaler = {}
  Launcher = launcher
  HeadJob = headjob
  Stopper = {s1}
  InitialLanes = 1
  Targets = {}
  Faults = {}
SYMMETRY Interchangeable
VIEW Relevant
SPECIFICATION Spec
INVARIANTS
  TerminalMeansReleased
CHECK_DEADLOCK FALSE
