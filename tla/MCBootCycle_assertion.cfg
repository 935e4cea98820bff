CONSTANTS
  p1 = p1
  p2 = p2
  p3 = p3
  None = None
  Mac = {1, 2, 3}
  Pci <- MCPci
  TempNum = {1}
  Inputs = {}
  Knamed = {}
  Machines <- ThreeSlots
  UserRules <- NoRules
  MaxFail = 0
  MaxBoot = 3
SPECIFICATION BootSpec
INVARIANTS AssertionMeansInvalid
CHECK_DEADLOCK FALSE
