SPECIFICATION Spec
CONSTANTS
  QueueSize = 8
  Nodes <- AllNodes
  Primaries <- LowPrimary
  Restartable <- AllNodes
  MaxAddress = 5
  InitialStores <- EmptyFlash
  MaxBuffer = 1
  MaxLosses = 0
  MaxRestarts = 1
  MaxSaveFailures = 0
INVARIANTS OffersUnused
CHECK_DEADLOCK FALSE
