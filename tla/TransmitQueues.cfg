SPECIFICATION Spec
CONSTANTS
  home = home
  away = away
  NoAddress = NoAddress
  Endpoints <- TwoEndpoints
  Addresses <- TwoAddresses
  MayRefuse = TRUE
  QueueSize = 2
  MaxStates = 2
  MaxEvents = 3
INVARIANTS TypeOK OneStatePerEndpoint EventsIntact
PROPERTIES Registers
SYMMETRY Symmetry
