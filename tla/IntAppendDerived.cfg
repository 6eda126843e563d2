SPECIFICATION Spec
CONSTANTS
  WORD_MAX = 2
  Types <- IntegerTypes
  MaxDepth = 0
  AllocFails = FALSE
  NestedAppend = FALSE
  DirectInserts = TRUE
  Reloads = FALSE
  ReplaceInUnset = FALSE
PROPERTIES
  AppendIsFresh
