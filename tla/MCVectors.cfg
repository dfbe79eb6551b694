SPECIFICATION Spec
CONSTANTS
  FanOut = 2
  LastNr = 16
  Vecs = {0}
  Elements = {a, b}
  PerPage = 1
  Reused = FALSE
  MaxLen = 3
  MaxPage = 8
  MaxSnapshots = 2
  MaxOpens = 1
SYMMETRY Symmetry
INVARIANTS
  HoldsItems
  LookupTrue
  SnapshotReadable
  PagesShared
CHECK_DEADLOCK FALSE
