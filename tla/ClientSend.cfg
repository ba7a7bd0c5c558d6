\* A message is typed while the server ends the connection.
CONSTANTS
  MaxSessions = 1
  Object = {1}
  MaxTexts = 1
  MaxFrames = 1
  Frames <- WholeOnly
  Unreadable = {}
  Ports = {"valid"}
SPECIFICATION Spec
PROPERTY SendingIsHarmless
CHECK_DEADLOCK FALSE
