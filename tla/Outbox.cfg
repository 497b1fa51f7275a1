SPECIFICATION FairSpec
CONSTANTS
  e1 = e1
  e2 = e2
  e3 = e3
  w1 = w1
  w2 = w2
  Events <- ThreeEvents
  Workers <- TwoWorkers
  BatchSize = 2
  MaxTime = 2
  MaxFaults = 2
  MaxLost = 1
CHECK_DEADLOCK FALSE
INVARIANTS DuplicatesNeedFailure
PROPERTIES ImplementsAtLeastOnce EventuallySent
