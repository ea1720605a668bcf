SPECIFICATION MCSpec
CONSTANTS
  Payload = 1003
  Messages <- RealMessages
  Length <- RealLengths
  Instructions <- RealHeaders
  MaxRepeats = 1
  NumTunnels = 1
  CreationTimeout = 1
  Expiration = 4
  Recreation = 2
  Threshold = 1
  MaxTunnels = 3
  MaxTime = 6
  NumTags = 1
  OutExpiry = 2
  InExpiry = 3
  TagsTimeout = 2
  LeaseSetTimeout = 0
  MaxMessages = 3
  MaxLeaseSets = 1
  MaxClock = 4
INVARIANTS
  CutExactly
  FragmentNumberFits
  MessagesArriveWhole
  
  PoolIsSound
  TagsDecrypt
PROPERTIES
  FailureLeavesLeaseSet
CHECK_DEADLOCK FALSE
