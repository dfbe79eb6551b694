SPECIFICATION MirrorFairSpec
CONSTANTS
  Users = {1, 2}
  Size = 3
  StaticDistance = 1
  FullDistance = 0
  Start = {0, 3}
  MaxRequests = 4
  MaxStep = 3
  Self = 1
INVARIANTS
  LeadsToCenter
  Counted
  AppliedWhereFound
  MovesWhereFound
  SameWorld
  OneBodyEach
  ClientGoesOn
PROPERTIES
  Settles
CHECK_DEADLOCK FALSE
