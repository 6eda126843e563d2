SPECIFICATION Spec
CONSTANTS
  Keys = {0}
  STAMPS = 3
  Ttls <- MCTtls
  LastTime = 2
  MaxDepth = 0
  ABSENT = ABSENT
  FreeInUnset = FALSE
  Types = {"STRING_TO_ENTRY"}
  NONE = NONE
PROPERTY AllExpiredIsEmpty
