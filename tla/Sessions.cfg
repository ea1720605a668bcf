SPECIFICATION SessionsSpec

  
PROPERTIES
  HandshakesEnd
  SessionsEnd
  SessionsSettle
CHECK_DEADLOCK FALSE
