SPECIFICATION Spec
CONSTANTS
  UnderPast = {}
  UnderLast = {}
  QLen = 3
  EpochLen = 2
  Delay = 3
  AggTime = 1
  FullTime = 1
  DisableKept = FALSE
  NoBegin = NoBegin
  NoStart = MinusDblMax
  None = None
  OtherTs = {}
  Settings = {None}
  Horizon = 6
  MaxTuples = 4
INVARIANT EveryTupleInWindow
CHECK_DEADLOCK FALSE
