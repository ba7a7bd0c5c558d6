\* Two clients, one after the other; two messages, of which the last is a file
\* that may turn out gone or unreadable; one frame of any kind on the first
\* connection.
CONSTANTS
  MaxSessions = 2
  Object = {1, 2}
  MaxTexts = 2
  MaxFrames = 1
  Frames <- FirstOnly
  Unreadable = {2}
  Ports = {"valid", "too large"}
SPECIFICATION LiveSpec
INVARIANT TypeOK
INVARIANT OperationDiscipline
INVARIANT TypedInOrder
INVARIANT ClosesForAReason
INVARIANT ServedWhileConnected
PROPERTY TypedIsSent
PROPERTY DisconnectReturns
PROPERTY EndIsNoticed
\* The program may have ended.
CHECK_DEADLOCK FALSE
