SPECIFICATION Spec
CONSTANTS
  FanOut = 2
  MaxDepth = 2
  MaxPage = 7
  MaxBack = 4
  Slack = 9
  MaxEpoch = 3
INVARIANTS
  OneOwner
PROPERTIES
  ImplementsSets
CHECK_DEADLOCK FALSE
