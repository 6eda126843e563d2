SPECIFICATION FairSpec
CONSTANTS
  Keys = {0, 1, 2}
  Words = {0, 1}
  NONE = NONE
  Types = {"BITSET", "INT_TO_INT", "STRING_TO_INT", "STRING_TO_INT_HASH", "STRING_TO_INT_ADAPTIVE", "INT_TO_MIXED", "STRING_TO_ENTRY", "STRING_TO_MIXED_HASH", "STRING_TO_MIXED_ADAPTIVE"}
  LongKeys = {2}
  Bytes <- MCBytes
  AllocFails = TRUE
INVARIANTS
  TypeOK
  ReturnedIsExact
  ResultAgrees
  CopiesOwned
PROPERTIES
  CallEnds
CHECK_DEADLOCK FALSE
