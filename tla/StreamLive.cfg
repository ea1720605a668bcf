SPECIFICATION MCFairSpec
CONSTANTS
  Instances <- Both
  MaxWrites <- OneOut
  MinWindow = 1
  WindowSize = 1
  MaxWindow = 2
  MaxResendAttempts = 1
  MaxNacks = 5
  MaxReady = 0
  Closers <- Ends
  Pushers <- NoEnd
  socket1 = socket1
  socket2 = socket2
  peer1 = peer1
  peer2 = peer2
  server = server
  Requests <- OneRequest
  MaxBacklog = 1
  MaxStreams = 3
  MaxSaved = 1
  MaxTimers = 1
  MaxAccepts = 0
INVARIANTS
  GracefulCloseDeliversAll
  SavedBeforeStream
PROPERTIES
  StreamsEnd
  
CHECK_DEADLOCK FALSE
