\* Files around the limit of 2, names that do and do not fit a header of 3.
CONSTANTS
  BUFFER_SIZE = 2
  HEADER_SIZE = 3
  MAX_DATA_LENGTH = 5
  U8 = 4
  U32 = 10
  U64 = 60
  Origin <- MCOrigin
  Texts <- MCTexts
  Paths <- MCPaths
  Contents <- MCContents
  checksum <- MCchecksum
  MaxChanges = 2
SPECIFICATION Spec
INVARIANT TypeOK
INVARIANT ArrivesIntact
INVARIANT RefusedForLength
INVARIANT StaysInside
INVARIANT ChecksumsAgree
\* A message ends somewhere.
CHECK_DEADLOCK FALSE
