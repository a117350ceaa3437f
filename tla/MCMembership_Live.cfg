CONSTANTS
  s1 = s1
  s2 = s2
  NULL = NULL
  GARBAGE = GARBAGE
  MaxLives = 2
  MaxLosses = 3
  Server <- MCOneServer
SPECIFICATION Spec
CHECK_DEADLOCK FALSE
PROPERTIES RequestRegisters
