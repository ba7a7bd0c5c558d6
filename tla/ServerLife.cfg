\* Two connections, three servers one after the other.
CONSTANTS
  p = p
  q = q
  MaxServers = 3
  Conns = {p, q}
  Object <- MCObject
  Resettable = {q}
  MayFail = TRUE
SPECIFICATION LiveSpec
INVARIANT TypeOK
INVARIANT ServedWhileStarted
INVARIANT StopLeavesHandlers
PROPERTY StopReturns
\* The program may have ended.
CHECK_DEADLOCK FALSE
