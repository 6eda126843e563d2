SPECIFICATION Spec
CONSTANTS
  Keys = {0}
  Words = {0, 1}
  NONE = NONE
  Types = {"INT_TO_INT"}
  LongKeys = {}
  Bytes <- MCBytes
  AllocFails = FALSE
INVARIANT OtherOverwrites
CHECK_DEADLOCK FALSE
