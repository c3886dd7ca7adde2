SPECIFICATION Spec
CONSTANTS
  QueueSize = 8
  Nodes <- AllNodes
  Primaries <- LowPrimary
  Restartable <- AllNodes
  MaxAddress = 3
  InitialStores <- Clashing
  MaxBuffer = 1
  MaxLosses = 1
  MaxRestarts = 0
  MaxSaveFailures = 0
INVARIANTS SettledConflict
PROPERTIES WithdrawsForLower LowestKeepsAddress
CHECK_DEADLOCK FALSE
