SPECIFICATION MCSpec
CONSTANTS
  NoObject = NoObject
  MaxDelayed = 1
  MaxBatch = 2
  MaxMessages = 2
  MaxSessions = 2
  Clients = {"a", "b"}
  Ports = {1, 2}
  Alive <- Conversations
  MaxSent = 3
  Size <- ThreeFragments
  FieldBits = 7
  MaxResends = 1
INVARIANTS
  PeersAreServed
  
  DeliveredIsWhole
  StatusFits
  LatestIsKept
  LeasesAreListed
  
  SamSocketsServe
  
CHECK_DEADLOCK FALSE
