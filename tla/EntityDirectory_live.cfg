SPECIFICATION FairSpec
CONSTANTS
  light = light
  button = button
  cover = cover
  NoEntity = NoEntity
  Sources <- TwoSources
  Endpoints <- OneEndpoint
  Entities <- TwoEntities
  Observed <- TwoEntities
  Ownerships <- FixedOwnership
  Capacity = 2
  Timeout = 2
  MaxBoots = 4
  MaxCuts = 0
  MaxLosses = 0
PROPERTIES Resolved
CHECK_DEADLOCK FALSE
