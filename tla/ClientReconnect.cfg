\* Connect, disconnect and connect again.
CONSTANTS
  MaxSessions = 2
  Object = {1, 2}
  MaxTexts = 1
  MaxFrames = 1
  Frames <- WholeOnly
  Unreadable = {}
  Ports = {"valid"}
SPECIFICATION Spec
INVARIANT NothingStale
CHECK_DEADLOCK FALSE
