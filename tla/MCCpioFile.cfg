CONSTANTS
  Tree <- Files
  Archive <- Itself
  Foreign <- AsCpioWrites
  Bases <- Targets
  MaxMembers = 2
  MaxCells = 4
  MaxOpens = 2
  MaxCalls = 2
  MaxCallsTorn = 1
  MaxIters = 1
SPECIFICATION Spec
INVARIANTS KeepsWhatWasWritten IteratesAll ExtractsRightData ExtractsAll
CHECK_DEADLOCK FALSE
