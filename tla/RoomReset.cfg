\* One peer may reset its connection.
CONSTANTS
  c1 = c1
  c2 = c2
  c3 = c3
  lan = lan
  Conns = {c1, c2}
  Endpoints <- MCEndpoints
  Claimed <- Direct
  MaxFrames = 1
  Resettable <- OnlyC1
  Sends <- AllKinds
SPECIFICATION Spec
PROPERTY RemovalRemoves
\* A server that nobody connects to any more has nothing to do.
CHECK_DEADLOCK FALSE
