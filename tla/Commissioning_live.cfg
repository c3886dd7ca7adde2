SPECIFICATION FairSpec
CONSTANTS
  QueueSize = 8
  Nodes <- TwoNodes
  Primaries <- LowPrimary
  Restartable <- TwoNodes
  MaxAddress = 3
  InitialStores <- TwoAny
  MaxBuffer = 1
  MaxLosses = 1
  MaxRestarts = 0
  MaxSaveFailures = 0
PROPERTIES AllCommissioned ConflictsEnd
CHECK_DEADLOCK FALSE
