CONSTANTS
  r1 = r1
  r2 = r2
  r3 = r3
  v1 = v1
  Transfer = {r1, r2, r3}
  Validation = {v1}
  Keygen <- Keys
  Address = {1, 2, 3}
  Retention = 2
  MaxSigs = 3
  MaxFaults = 1
SPECIFICATION Spec
CHECK_DEADLOCK FALSE
SYMMETRY Symmetry
INVARIANTS
  TypeOK
  QuorumPossible
  QuorumSigned
PROPERTIES
  TrueMeansCurrent
  ExpiresAfterRetention
  EpochsAreFinal
  LoneTransferApplies
