CONSTANTS
  Disks <- AllDisks
  Kernels = {"k1", "k2"}
  Version <- OneVersion
  Others = {"linux", "memtest"}
  Added <- Upgrade
  None = None
  MaxMenu = 3
  MaxAdded = 2
SPECIFICATION MenuSpec
INVARIANTS OverrideOnce BackupKept
PROPERTIES DefaultStays
