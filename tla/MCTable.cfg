CONSTANTS
  NULL = NULL
  NSlots = 2
  MaxCalls = 5
  Key <- MCKey
  Value <- MCValue
  Hash <- MCHash
SPECIFICATION OwnSpec
CHECK_DEADLOCK FALSE
INVARIANTS TypeOK WellFormed SizeAgrees KeysAgree PutNeverReplacesInPlace NoDangling OnlyCopiesLeak
PROPERTIES ImplementsMap
