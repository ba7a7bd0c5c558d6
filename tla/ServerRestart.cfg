\* A server that is stopped and started again.
CONSTANTS
  p = p
  q = q
  MaxServers = 3
  Conns = {p, q}
  Object <- MCObject
  Resettable = {q}
  MayFail = TRUE
SPECIFICATION Spec
INVARIANT RestartForgetsTheStopped
CHECK_DEADLOCK FALSE
