CONSTANTS
  e1 = e1
  e2 = e2
  Entry = {e1, e2}
  MaxList = 2
  Lists <- MCLists
  Files <- MCFiles
SPECIFICATION Spec
INVARIANTS LoadsWhatWasSaved
