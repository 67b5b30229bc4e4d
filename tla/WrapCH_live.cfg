SPECIFICATION FairSpec
CONSTANTS
  NumSlots = 3
  P = P
  D = D
  Names = {P, D}
  c1 = c1
  c2 = c2
  Conns = {c1, c2}
  MaxScans = 2
  PullNames = {P}
  ArchivedNames = {}
  GenNames = {}
  SleepNames = {}
  MaxConn = 2
  ArraySize = 1
  QueueCap = 1
  ProbeCap = 1
  ControlCap = 1
  CheckIter = 2
  MaxTuples = 0
  MaxAnswers = 1
\* the process may end: it shuts down, or its wrapper fails
CHECK_DEADLOCK FALSE
INVARIANTS
  CountsHolders
  NextHasProbe
PROPERTIES
  ShutdownServed
  DoneCloses
  HeldTupleSent
