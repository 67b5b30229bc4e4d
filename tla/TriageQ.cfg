SPECIFICATION FairSpec
CONSTANTS
  UnderPast = {}
  UnderLast = {}
  QLen = 3
  EpochLen = 2
  Delay = 3
  AggTime = 1
  FullTime = 1
  DisableKept = FALSE
  NoBegin = NoBegin
  NoStart = NoBegin
  None = None
  OtherTs = {4}
  Settings = {None, 2}
  Horizon = 6
  MaxTuples = 4
INVARIANTS FailsOnlyWhen SummariesComplete ShedWindowAnnounced Accounted
PROPERTIES SentInOrder DrainEnds
CHECK_DEADLOCK FALSE
