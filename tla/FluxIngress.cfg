CONSTANTS
  End = 3
  N = 3
  TsbSize = 1
  DataCap = 1
  AckCap = 1
  Routed = {0}
  Mortal = {0, 1}
SPECIFICATION Spec
INVARIANTS
  CopyIsPrefix
  FreedIsProcessed
  CursorsInOrder
  WaitsOnlyWhenRecovered
  NotificationNotLost
CHECK_DEADLOCK FALSE
