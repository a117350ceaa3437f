CONSTANTS
  s1 = s1
  s2 = s2
  NULL = NULL
  GARBAGE = GARBAGE
  MaxLives = 2
  MaxLosses = 1
  Server <- MCServer
SPECIFICATION Spec
SYMMETRY Symmetry
CHECK_DEADLOCK FALSE
INVARIANTS TypeOK ConnectedIsRegistered NodePathIsOwn RestartSupersedes NoServerInChain
