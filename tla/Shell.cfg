\* Every line of up to six or nine keys from five small keyboards, and the
\* smallest INT_MAX that C++ allows, which five digits exceed.
CONSTANTS
  Keyboards <- MCKeyboards
  MaxLength <- MCMaxLength
  m_commands <- MCCommands
  INT_MAX = 32767
SPECIFICATION Spec
INVARIANT TypeOK
INVARIANT SplitsAtSpaces
INVARIANT AcceptsQuads
INVARIANT ChecksAreWeaker
\* The program ends with quit or with an exception.
CHECK_DEADLOCK FALSE
