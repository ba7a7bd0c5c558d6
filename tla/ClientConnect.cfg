\* A connection that is reset as soon as it is made.
CONSTANTS
  MaxSessions = 1
  Object = {1}
  MaxTexts = 1
  MaxFrames = 1
  Frames <- WholeOnly
  Unreadable = {}
  Ports = {"valid"}
SPECIFICATION Spec
PROPERTY ConnectingIsHarmless
CHECK_DEADLOCK FALSE
