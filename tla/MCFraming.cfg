CONSTANTS
  MaxSent = 4
  SizeLen = 2
  Capacity = 3
  BodyLen <- MCBodyLen
  Garbage <- MCGarbage
SPECIFICATION Spec
CHECK_DEADLOCK FALSE
INVARIANTS TypeOK
PROPERTIES ImplementsWire CallsEnd
