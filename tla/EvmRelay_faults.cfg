CONSTANTS
  m1 = m1
  m2 = m2
  t1 = t1
  p1 = p1
  p2 = p2
  Msg = {m1, m2}
  Tx = {t1}
  Payload = {p1, p2}
  TxOf <- OneTx
  PayloadOf <- PayloadEach
  Completing = {m1}
  OtherRelayers = FALSE
  Reorgs = TRUE
  MaxFaults = 1
SPECIFICATION FairSpec
CHECK_DEADLOCK FALSE
INVARIANTS
  NoCommandStranded
  ConfirmedIsRecorded
PROPERTIES
  EventuallyExecuted
