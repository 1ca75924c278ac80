CONSTANTS
  c1 = c1
  c2 = c2
  c3 = c3
  None = None
  Call = {c1, c2, c3}
  Once = {c1, c2}
  Refused = {c2}
  MaxRetry = 2
  MaxNonce = 6
  MaxFaults = 1
SPECIFICATION FairSpec
CHECK_DEADLOCK FALSE
INVARIANTS
  TypeOK
  NothingLeftBehind
  OnlyContentionFails
  OneEffect
PROPERTIES
  ImplementsChainCall
  EveryCallEnds
