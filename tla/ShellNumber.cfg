\* An integer without a digit.
CONSTANTS
  Keyboards <- MCKeyboards
  MaxLength <- MCMaxLength
  m_commands <- MCCommands
  INT_MAX = 32767
SPECIFICATION Spec
INVARIANT IntegersHaveDigits
CHECK_DEADLOCK FALSE
