SPECIFICATION MCSpec
CONSTANTS
  Instances <- Streams
  MaxWrites <- TwoOut
  MinWindow = 1
  WindowSize = 2
  MaxWindow = 2
  MaxResendAttempts = 1
  MaxNacks = 5
  MaxReady = 1
  Closers <- Outgoing
  Pushers <- Incoming
  socket1 = socket1
  socket2 = socket2
  peer1 = peer1
  peer2 = peer2
  server = server
  Requests <- OneRequest
  MaxBacklog = 1
  MaxStreams = 1
  MaxSaved = 0
  MaxTimers = 0
  MaxAccepts = 0
INVARIANTS
  ReceivedIsPrefixOfSent
  InOrderDelivery
  NothingIsStuck
  AckedWasReceived
PROPERTIES
  ImplementsService
CHECK_DEADLOCK FALSE
