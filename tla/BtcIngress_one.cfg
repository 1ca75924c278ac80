CONSTANTS
  m1 = m1
  again = again
  twin = twin
  high = high
  bad = bad
  k1 = k1
  k2 = k2
  k3 = k3
  k4 = k4
  p1 = p1
  p2 = p2
  p3 = p3
  Msg = {m1, again, twin, high, bad}
  Key = {k1, k2, k3, k4}
  Payload = {p1, p2, p3}
  KeyOf <- KeyOfMC
  PayloadOf <- PayloadOfMC
  TooHigh = {high}
  Bad = {bad}
  MaxFaults = 0
SPECIFICATION Spec
CHECK_DEADLOCK FALSE
INVARIANTS
  OneMessageAtATime
