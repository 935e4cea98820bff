CONSTANTS
  l1 = l1
  l2 = l2
  l3 = l3
  Links = {l1, l2, l3}
  Names <- MCNames
  MaxPlan = 3
  MaxFail = 1
SPECIFICATION FairSpec
INVARIANTS NeverRefused Arrives
PROPERTIES Ends
CHECK_DEADLOCK FALSE
