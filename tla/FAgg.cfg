SPECIFICATION Spec
CONSTANTS
  R = R
  S = S
  Streams = {R, S}
  RangeExprs <- MCRangeExprs
  SliceExprs <- MCSliceExprs
  AggPlans <- MCAggPlans
  UnderPast = {2, 3}
  UnderLast = {}
  Horizon = 5
  MaxConsumed = 2
  MaxGroups = 2
\* a failed Assert ends the backend
CHECK_DEADLOCK FALSE
INVARIANTS
  AssertsFailOnlyFor
  DeactivationCoversLive
  PunctuationTrue
PROPERTIES
  ImplementsSlideEvents
  EverySlideAnswered
