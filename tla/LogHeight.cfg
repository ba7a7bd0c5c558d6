\* A log that is higher than its height.
CONSTANTS
  io = io
  shell = shell
  NL = NL
  Threads = {io, shell}
  Shell = shell
  Letters <- MCLetters
  Programs <- MCPrograms
  m_width = 1
  m_height = 3
SPECIFICATION Spec
INVARIANT KeepsToTheHeight
CHECK_DEADLOCK FALSE
