\* Three well-behaved peers: one acts while the two others receive.
CONSTANTS
  c1 = c1
  c2 = c2
  c3 = c3
  lan = lan
  Conns = {c1, c2, c3}
  Endpoints <- MCEndpoints
  Claimed <- Direct
  MaxFrames = 1
  Resettable <- Nobody
  Sends <- WholeOnly
SPECIFICATION Spec
INVARIANT OneOrder
SYMMETRY Peering
\* A server that nobody connects to any more has nothing to do.
CHECK_DEADLOCK FALSE
