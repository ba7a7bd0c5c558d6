\* An address check that ends without an answer.
CONSTANTS
  Keyboards <- MCKeyboards
  MaxLength <- MCMaxLength
  m_commands <- MCCommands
  INT_MAX = 32767
SPECIFICATION Spec
INVARIANT AddressesGetAnAnswer
CHECK_DEADLOCK FALSE
