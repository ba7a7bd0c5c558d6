\* A file that cannot be opened any more.
CONSTANTS
  BUFFER_SIZE = 2
  HEADER_SIZE = 3
  MAX_DATA_LENGTH = 5
  U8 = 4
  U32 = 10
  U64 = 60
  Origin <- MCOrigin
  Texts <- MCTexts
  Paths <- MCPaths
  Contents <- MCContents
  checksum <- MCchecksum
  MaxChanges = 2
SPECIFICATION Spec
INVARIANT ReadyToSend
CHECK_DEADLOCK FALSE
