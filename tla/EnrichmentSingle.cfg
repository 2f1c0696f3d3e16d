SPECIFICATION Spec
CONSTANTS
  d1 = d1
  Driver = {d1}
  Initial = 1
  MaxFragment = 2
  Edits = 1
  Limits = {1, 2}
  Attempts = 2
  Crashes = 1
  Faults = {"lost", "cleanup", "prune", "overwrite", "duplicate"}
INVARIANT OneUnfinished
INVARIANT EvidenceIsTrue
PROPERTY ImplementsTable
PROPERTY WorkspaceOutlivesPublication
CHECK_DEADLOCK FALSE
