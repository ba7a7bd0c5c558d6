\* A line that split_args throws on.
CONSTANTS
  Keyboards <- MCKeyboards
  MaxLength <- MCMaxLength
  m_commands <- MCCommands
  INT_MAX = 32767
SPECIFICATION Spec
INVARIANT EveryLineIsSplit
CHECK_DEADLOCK FALSE
