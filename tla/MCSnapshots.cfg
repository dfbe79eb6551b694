SPECIFICATION Spec
CONSTANTS
  zero = zero
  one = one
  node = node
  Values <- MCValues
  Zero <- MCZero
  Node <- MCNode
  MaxPage = 5
  MaxVersion = 3
  MaxOpens = 1
  MaxGrow = 1
INVARIANTS
  PagesAccounted
  SnapshotsProtected
  AlwaysRecoverable
PROPERTIES
  ImplementsStore
CHECK_DEADLOCK FALSE
