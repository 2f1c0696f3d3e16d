SPECIFICATION FairSpec
CONSTANTS
  d1 = d1
  Driver = {d1}
  Initial = 1
  MaxFragment = 2
  Edits = 1
  Limits = {1, 2}
  Attempts = 2
  Crashes = 1
  Faults = {"lost", "refused", "latest", "marker", "cleanup"}
PROPERTY EverythingEnriched
PROPERTY WorkspacesRemoved
CHECK_DEADLOCK FALSE
