SPECIFICATION FairSpec
CONSTANTS
  Width = 10
  Heartbeat = 3
  Retries <- Backoff
  Longest = 3
  StartDelay = 1
  Interval = 1
  ResponseDelays <- Windows
  Owned = 2
  Observed = 1
  MaxStep = 2
  MaxRequests = 1
  MaxMoves = 2
INVARIANTS TypeOK InTime QueuesDrained
PROPERTIES EntitiesAnnounced
