\* A process that ends because its log is shown while it is appended to.
CONSTANTS
  io = io
  shell = shell
  NL = NL
  Threads = {io, shell}
  Shell = shell
  Letters <- MCLetters
  Programs <- MCPrograms
  m_width = 1
  m_height = 3
SPECIFICATION Spec
PROPERTY ShowingIsHarmless
CHECK_DEADLOCK FALSE
