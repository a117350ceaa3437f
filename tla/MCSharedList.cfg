CONSTANTS
  t1 = t1
  t2 = t2
  NULL = NULL
  NSlots = 1
  OLD = OLD
  Thread <- MCThread
  Key <- MCKey
  Value <- MCValue
  Hash <- MCHash
SPECIFICATION Spec
CHECK_DEADLOCK FALSE
INVARIANTS TypeOK InsertsKeepSettled LookupsFindSettled ChainEnds
PROPERTIES SoloCallsAtomic OverlapsAsAssumed CallsReturn
