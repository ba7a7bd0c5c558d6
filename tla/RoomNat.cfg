\* A client behind a NAT.
CONSTANTS
  c1 = c1
  c2 = c2
  c3 = c3
  lan = lan
  Conns = {c1, c2}
  Endpoints <- MCEndpoints
  Claimed <- Translated
  MaxFrames = 1
  Resettable <- Nobody
  Sends <- WholeOnly
SPECIFICATION Spec
INVARIANT NoEcho
CHECK_DEADLOCK FALSE
