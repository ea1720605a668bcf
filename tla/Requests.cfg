SPECIFICATION RequestsSpec
INVARIANTS
  RequestsAreKept
PROPERTIES
  RequestsEnd
  LastIsPublished
CHECK_DEADLOCK FALSE
