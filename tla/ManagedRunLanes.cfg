CONSTANTS
  LaneJob = {j1, j2, j3}
  Scaler = {c1}
  Launcher = launcher
  HeadJob = headjob
  Stopper = {s1}
  InitialLanes = 1
  Targets = {0, 2}
  Faults = {"sbatch", "stop", "kill", "oom", "teardown", "write"}
SYMMETRY Interchangeable
VIEW Relevant
SPECIFICATION Spec
INVARIANTS
  ReleasedBeforePublished
  OutcomeIsEarned
  NoOrphanLane
  StopBeatsActivation
PROPERTIES
  ImplementsLifecycle
CHECK_DEADLOCK FALSE
