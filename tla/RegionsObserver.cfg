SPECIFICATION Spec
CONSTANTS
  Users = {1}
  Size = 3
  StaticDistance = 1
  FullDistance = 0
  Start = {3}
  MaxRequests = 4
  MaxStep = 0
INVARIANTS
  ObserverFound
CHECK_DEADLOCK FALSE
