SPECIFICATION MCSpec
CONSTANTS
  Instances <- Both
  MaxWrites <- FiveOut
  MinWindow = 1
  WindowSize = 1
  MaxWindow = 1
  MaxResendAttempts = 1
  MaxNacks = 4
  MaxReady = 1
  Closers <- NoEnd
  Pushers <- NoEnd
  socket1 = socket1
  socket2 = socket2
  peer1 = peer1
  peer2 = peer2
  server = server
  Requests <- TwoRequests
  MaxBacklog = 2
  MaxStreams = 4
  MaxSaved = 0
  MaxTimers = 0
  MaxAccepts = 2
SYMMETRY Symmetry
INVARIANTS
  NacksFit
  StreamsAreHandedOn
CHECK_DEADLOCK FALSE
