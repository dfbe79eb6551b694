SPECIFICATION FairAppSpec
CONSTANTS
  Connections = {1}
  Users = {1}
  UserOf <- MCUserOf
  Own = 1
  ActionBuffer = 2
  RequestBuffer = 1
  NotifyBuffer = 2
  MaxSent = 2
  MaxBacklog = 2
  MaxPauses = 2
INVARIANTS
  PlaceSaved
  FailsForAReason
PROPERTIES
  LeavingDone
  AskAnswered
CHECK_DEADLOCK FALSE
