SPECIFICATION Spec
CONSTANTS
  QueueSize = 8
  Nodes <- AllNodes
  Primaries <- LowPrimary
  Restartable <- Peers
  MaxAddress = 4
  InitialStores <- EmptyFlash
  MaxBuffer = 1
  MaxLosses = 1
  MaxRestarts = 1
  MaxSaveFailures = 1
INVARIANTS TypeOK UniqueAddresses OffersUnused BootstrapReserved PersistedBeforeUse
CHECK_DEADLOCK FALSE
