SPECIFICATION WSpec
CONSTANTS
  NumSlots = 1
  D = D
  Names = {D}
  c1 = c1
  Conns = {c1}
  MaxScans = 1
  PullNames = {}
  ArchivedNames = {}
  GenNames = {D}
  SleepNames = {}
  MaxConn = 1
  ArraySize = 1
  QueueCap = 1
  ProbeCap = 1
  ControlCap = 1
  CheckIter = 2
  MaxTuples = 3
  MaxAnswers = 0
\* the process may end: it shuts down, or its wrapper fails
CHECK_DEADLOCK FALSE
INVARIANT PunctuationKeepsComing
