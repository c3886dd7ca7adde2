SPECIFICATION FairSpec
CONSTANTS
  home = home
  away = away
  NoAddress = NoAddress
  Endpoints <- OneEndpoint
  Addresses <- TwoAddresses
  MayRefuse = FALSE
  QueueSize = 2
  MaxStates = 3
  MaxEvents = 3
PROPERTIES StatesArrive
