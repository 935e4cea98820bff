CONSTANTS
  p1 = p1
  p2 = p2
  p3 = p3
  None = None
  Mac = {1, 2, 3, 4, 5}
  Pci <- MCPci
  TempNum = {1, 2}
  Inputs <- AllInputs
  Knamed <- WithKname
SPECIFICATION Spec
INVARIANTS NamesDistinct StaticPriority NoAssertion RemembersName InheritsName NumberedByMac ReplacedByMac
PROPERTIES NamedForGood PlanSpec
CHECK_DEADLOCK FALSE
