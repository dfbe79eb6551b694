SPECIFICATION FairSpec
CONSTANT MaxSyncs = 8
INVARIANTS
  PreviousDurable
  NothingLost
PROPERTIES
  CallsReturn
  EventuallyDurable
CHECK_DEADLOCK FALSE
