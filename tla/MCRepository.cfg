CONSTANTS
  d1 = d1
  d2 = d2
  d3 = d3
  None = None
  Dir = {d1, d2, d3}
  Made <- AsMade
  MaxCount = 3
  Known <- Locations
  Media <- MixedMedia
SPECIFICATION RepSpec
INVARIANTS MountedWhileStarted NothingLeft ReadOnlyAsAsked OwnStartsHold FindsAllOrYum
CHECK_DEADLOCK FALSE
