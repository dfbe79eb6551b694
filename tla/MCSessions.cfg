SPECIFICATION MCSpec
CONSTANTS
  Connections = {1, 2}
  Users = {1}
  UserOf <- MCUserOf
  ActionBuffer = 1
  RequestBuffer = 1
  NotifyBuffer = 1
  MaxSent = 1
  MaxBacklog = 1
INVARIANTS
  InOrder
  NoGhosts
  InGameTogether
PROPERTIES
  StopEnds
  LeavingEnds
CHECK_DEADLOCK FALSE
