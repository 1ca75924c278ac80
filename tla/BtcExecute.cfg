CONSTANTS
  m1 = m1
  m2 = m2
  m3 = m3
  p1 = p1
  p2 = p2
  op = op
  Msg = {m1, m2, m3}
  Psbt = {p1, p2}
  PsbtOf <- Repeating
  OtherCmd = {op}
  NoTx = NoTx
  MaxFaults = 2
SPECIFICATION FairSpec
CHECK_DEADLOCK FALSE
INVARIANTS
  TypeOK
  OneWithdrawalPerMark
  BurnAccounted
PROPERTIES
  EveryBurnMarked
