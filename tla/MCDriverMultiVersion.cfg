CONSTANTS
  k1 = k1
  k2 = k2
  m1 = m1
  m2 = m2
  v1 = v1
  v2 = v2
  None = None
  Kernel = {k1, k2}
  Module = {m1, m2}
  Variant = {v1, v2}
  Trees <- MCTrees
  MaxSwitch = 2
SPECIFICATION Spec
INVARIANTS AllLinked
PROPERTIES SelectedIsWanted NeverUnlinked LoadsWanted
