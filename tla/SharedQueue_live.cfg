SPECIFICATION FairSpec
CONSTANTS
  Producers = {p1, p2}
  Consumers = {be}
  MayBlock = {p1, p2, be}
  MayTry = {be}
  Mortal = {}
  Clearers = {}
  Empties = 4
  Tries = 3
  MinSlots = 2
  MaxSlots = 2
INVARIANTS
  NoLostWakeup
  BlockingEnqueueNeverGivesUp
PROPERTIES
  WaitingConsumerServed
  BlockingEnqueueReturns
