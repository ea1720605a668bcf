SPECIFICATION MCSpec
CONSTANTS
  Instances <- Streams
  MaxWrites <- OneTwo
  MinWindow = 1
  WindowSize = 2
  MaxWindow = 2
  MaxResendAttempts = 0
  MaxNacks = 5
  MaxReady = 2
  Closers <- NoEnd
  Pushers <- Incoming
  socket1 = socket1
  socket2 = socket2
  peer1 = peer1
  peer2 = peer2
  server = server
  Requests <- OneRequest
  MaxBacklog = 1
  MaxStreams = 1
  MaxSaved = 0
  MaxTimers = 0
  MaxAccepts = 0
PROPERTIES
  SynTimeoutIsWaitedFor
CHECK_DEADLOCK FALSE
