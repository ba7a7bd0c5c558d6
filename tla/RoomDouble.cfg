\* A member is removed by its read handler with a write outstanding.
CONSTANTS
  c1 = c1
  c2 = c2
  c3 = c3
  lan = lan
  Conns = {c1, c2}
  Endpoints <- MCEndpoints
  Claimed <- Direct
  MaxFrames = 1
  Resettable <- Nobody
  Sends <- AllKinds
SPECIFICATION Spec
INVARIANT RemovedOnce
\* A server that nobody connects to any more has nothing to do.
CHECK_DEADLOCK FALSE
