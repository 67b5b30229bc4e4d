SPECIFICATION Spec
CONSTANTS
  Producers = {be}
  Consumers = {fe}
  MayBlock = {fe}
  MayTry = {be}
  Mortal = {fe}
  Clearers = {be}
  Empties = 3
  Tries = 2
  MinSlots = 0
  MaxSlots = 3
\* whoever waits behind a terminated holder of the mutex waits for ever
CHECK_DEADLOCK FALSE
INVARIANTS
  MutualExclusion
  BlockingDequeueDelivers
