CONSTANTS
  Target = {0, 1}
  Value <- Values
  Files <- Written2
  Given <- Installer
  States <- Machines
  None = None
  MaxGen = 1
SPECIFICATION Spec
INVARIANTS SavedIsLoaded
PROPERTIES LastLineWins OrderFree
