\* Two clients, one after the other; three messages, of which the last is a
\* file that may turn out gone or unreadable.
CONSTANTS
  MaxSessions = 2
  Object = {1, 2}
  MaxTexts = 3
  MaxFrames = 1
  Frames <- AllKinds
  Unreadable = {3}
  Ports = {"valid", "too large"}
SPECIFICATION Spec
INVARIANT TypeOK
INVARIANT OperationDiscipline
INVARIANT TypedInOrder
INVARIANT ClosesForAReason
INVARIANT ServedWhileConnected
\* The program may have ended.
CHECK_DEADLOCK FALSE
