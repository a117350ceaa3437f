CONSTANTS
  s1 = s1
  s2 = s2
  c1 = c1
  v1 = v1
  NULL = NULL
  NONE = NONE
  GARBAGE = GARBAGE
  NSlots = 1
  MaxSent = 1
  MaxLives = 2
  MaxStarts = 2
  MaxLosses = 0
  Key <- MCKey
  Value <- MCValue
  Hash <- MCHash
  Server <- MCServer
  Client <- MCClient
  Op <- MCPut
SPECIFICATION Spec
CHECK_DEADLOCK FALSE
INVARIANT AckedPutReplicated
