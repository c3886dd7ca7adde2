SPECIFICATION Spec
CONSTANTS
  light = light
  button = button
  cover = cover
  NoEntity = NoEntity
  Sources <- TwoSources
  Endpoints <- OneEndpoint
  Entities <- ThreeEntities
  Observed <- TwoEntities
  Ownerships <- AnyOwnership
  Capacity = 2
  Timeout = 2
  MaxBoots = 2
  MaxCuts = 1
  MaxLosses = 1
INVARIANTS TypeOK OneEntryPerEntity OnlineEntries AnnouncedExactly LatestClaim
CHECK_DEADLOCK FALSE
SYMMETRY Symmetry
