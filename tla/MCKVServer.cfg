CONSTANTS
  s1 = s1
  c1 = c1
  c2 = c2
  v1 = v1
  NULL = NULL
  NONE = NONE
  NSlots = 1
  MaxSent = 2
  Key <- MCKey
  Value <- MCValue
  Hash <- MCHash
  Server <- MCServer
  Client <- MCClient
  Killable <- MCServer
  Op <- MCPutDel
SYMMETRY Symmetry
SPECIFICATION Spec
INVARIANTS TypeOK WellFormed FoundKeyHeld AnsweredPutHeld LastPutHeld Pipeline ConnectedCountsThreads
