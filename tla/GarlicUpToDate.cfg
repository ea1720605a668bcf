SPECIFICATION GarlicSpec
CONSTANTS
  NumTags = 1
  OutExpiry = 2
  InExpiry = 3
  TagsTimeout = 2
  LeaseSetTimeout = 0
  MaxMessages = 3
  MaxLeaseSets = 2
  MaxClock = 4
INVARIANTS
  UpToDateIsKnown
CHECK_DEADLOCK FALSE
