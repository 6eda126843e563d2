SPECIFICATION FairSpec
CONSTANTS
  WORD_MAX = 3
  Types <- IntegerTypes
  MaxDepth = 2
  AllocFails = TRUE
  NestedAppend = FALSE
  DirectInserts = FALSE
  Reloads = FALSE
  ReplaceInUnset = FALSE
INVARIANTS
  TypeOK
  WatermarkAbove
  CounterAgrees
PROPERTIES
  AppendIsFresh
  HandlersReturn
