SPECIFICATION FairSpec
CONSTANTS
  Keys = {0, 1, 2}
  STAMPS = 3
  Ttls <- MCTtls
  LastTime = 2
  MaxDepth = 2
  ABSENT = ABSENT
  FreeInUnset = FALSE
  Types <- MCTypes
  NONE = NONE
INVARIANTS
  TypeOK
  CountIsRaw
  PruneSweeps
  NothingSkipped
PROPERTIES
  PruneSparesVisible
  MovesForward
  ServesVisible
  CacheReturns
