SPECIFICATION WSpec
CONSTANTS
  NumSlots = 2
  P = P
  A = A
  Names = {P, A}
  c1 = c1
  c2 = c2
  c3 = c3
  Conns = {c1, c2, c3}
  MaxScans = 1
  PullNames = {P}
  ArchivedNames = {A}
  GenNames = {}
  SleepNames = {A}
  MaxConn = 2
  ArraySize = 2
  QueueCap = 1
  ProbeCap = 1
  ControlCap = 1
  CheckIter = 1
  MaxTuples = 3
  MaxAnswers = 0
\* the process may end: it shuts down, or its wrapper fails
CHECK_DEADLOCK FALSE
INVARIANTS
  NoTupleLost
  PollResultsCurrent
  TableIsOpenConns
  InitBeforeUse
PROPERTY NothingLostAtClose
