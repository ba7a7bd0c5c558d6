\* A log whose last line, or another, never comes to the screen.
CONSTANTS
  io = io
  shell = shell
  NL = NL
  Threads = {io, shell}
  Shell = shell
  Letters <- MCLetters
  Programs <- MCPrograms
  m_width = 1
  m_height = 3
SPECIFICATION LiveSpec
PROPERTY ScreenShowsTheLog
CHECK_DEADLOCK FALSE
