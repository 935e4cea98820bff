CONSTANTS
  File = {"small", "big", "missing"}
  Stored = {"small", "big"}
  Big = {"big"}
  MaxCount = 2
  MaxDrop = 2
SPECIFICATION FairSpec
INVARIANTS InStep AccessTruthful CleanupIsDue
PROPERTIES Returns
CHECK_DEADLOCK FALSE
