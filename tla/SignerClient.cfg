CONSTANTS
  c1 = c1
  c2 = c2
  c3 = c3
  Call = {c1, c2, c3}
  MaxRetries = 2
  MaxFaults = 1
SPECIFICATION FairSpec
CHECK_DEADLOCK FALSE
INVARIANTS
  TypeOK
  ExecutedOnce
  FailureIsClean
  OnlyContentionFails
PROPERTIES
  EveryCallEnds
