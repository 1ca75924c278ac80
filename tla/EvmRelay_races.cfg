CONSTANTS
  m1 = m1
  m2 = m2
  t1 = t1
  p1 = p1
  p2 = p2
  Msg = {m1, m2}
  Tx = {t1}
  Payload = {p1, p2}
  TxOf <- OneTx
  PayloadOf <- OnePayload
  Completing = {m1}
  OtherRelayers = TRUE
  Reorgs = FALSE
  MaxFaults = 0
SPECIFICATION Spec
CHECK_DEADLOCK FALSE
INVARIANTS
  TypeOK
  SuccessMeansExecuted
  FailedHasCause
PROPERTIES
  ImplementsMessageLife
