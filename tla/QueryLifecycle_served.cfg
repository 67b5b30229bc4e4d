SPECIFICATION FairSpec
CONSTANTS
  f1 = f1
  f2 = f2
  Frontends = {f1, f2}
  NumQueues = 2
  PlanCap = 2
  ControlCap = 2
  ResultCap = 1
  MaxBatch = 2
  Cancels = {f1}
  Cursors = {f1}
  Exits = {f1}
  Explainers = {}
  WrapperErrors = FALSE
\* after a shutdown the eddy has ended and frontends may wait for ever
CHECK_DEADLOCK FALSE
PROPERTY ShutdownCompletes
PROPERTY EndedQueryReclaimed
