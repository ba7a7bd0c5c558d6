\* The log of either program: two threads append, one draws.
CONSTANTS
  io = io
  shell = shell
  NL = NL
  Threads = {io, shell}
  Shell = shell
  Letters <- MCLetters
  Programs <- MCPrograms
  m_width = 1
  m_height = 3
SPECIFICATION LiveSpec
INVARIANT TypeOK
INVARIANT KeepsTheLatest
INVARIANT CallsAreNotMixed
INVARIANT DrawnInOrder
PROPERTY EverythingIsAppended
PROPERTY ScreenCatchesUp
PROPERTY DrawingEnds
\* When everything is appended the threads only wait.
CHECK_DEADLOCK FALSE
