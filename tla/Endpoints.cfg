SPECIFICATION FairSpec
CONSTANTS
  TableSize = 2
  Nodes <- ThreeNodes
  Layouts <- AllLayouts
  QueueSize = 1
  MaxBuffer = 1
  MaxInputs = 2
  MaxFaults = 1
INVARIANTS TypeOK TablesAgree TablesComplete MirrorsFollow TogglesAgree
PROPERTIES MirrorsSettle
CHECK_DEADLOCK FALSE
