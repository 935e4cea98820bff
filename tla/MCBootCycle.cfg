CONSTANTS
  p1 = p1
  p2 = p2
  p3 = p3
  None = None
  Mac = {1, 2, 3}
  Pci <- MCPci
  TempNum = {1}
  Inputs = {}
  Knamed = {}
  Machines <- ThreeSlots
  UserRules <- OneRule
  MaxFail = 1
  MaxBoot = 3
SYMMETRY Slots
SPECIFICATION BootSpec
INVARIANTS MemoryAccepted StableNames OthersKeepNames
PROPERTIES NeverMisnamed
CHECK_DEADLOCK FALSE
