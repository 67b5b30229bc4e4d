SPECIFICATION Spec
CONSTANTS
  f1 = f1
  f2 = f2
  Frontends = {f1, f2}
  NumQueues = 2
  PlanCap = 2
  ControlCap = 2
  ResultCap = 1
  MaxBatch = 2
  Cancels = {f1}
  Cursors = {f1}
  Exits = {f1}
  Explainers = {f1, f2}
  WrapperErrors = TRUE
\* after a shutdown the eddy has ended and frontends may wait for ever
CHECK_DEADLOCK FALSE
INVARIANT RemovalOnlyOfEndedQuery
INVARIANT FreeNumberIsFresh
INVARIANT LineageIsLive
PROPERTY OrphanedOnlyBy
