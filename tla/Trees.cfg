SPECIFICATION Spec
CONSTANTS
  FanOut = 2
  LastNr = 9
  Keys = {1, 2, 3}
  Values = {1, 2}
  Order = 2
  MaxPage = 6
  MaxSnapshots = 2
  MaxOpens = 1
INVARIANTS
  HoldsEntries
PROPERTIES
  StoreKept
CHECK_DEADLOCK FALSE
