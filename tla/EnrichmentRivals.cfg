SPECIFICATION Spec
CONSTANTS
  d1 = d1
  d2 = d2
  Driver = {d1, d2}
  Initial = 1
  MaxFragment = 2
  Edits = 0
  Limits = {2}
  Attempts = 2
  Crashes = 0
  Faults = {"lost", "relayout"}
SYMMETRY Interchangeable
INVARIANT ResultsAccepted
PROPERTY ImplementsTable
CHECK_DEADLOCK FALSE
