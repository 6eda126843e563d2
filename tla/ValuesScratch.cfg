SPECIFICATION Spec
CONSTANTS
  Keys = {0, 1}
  Values = {v1, v2}
  NONE = NONE
  Types = {"STRING_TO_MIXED"}
  MaxDepth = 2
  AllocFails = FALSE
  ScratchReentry = TRUE
  DataReentry = FALSE
INVARIANT
  RefsAgree
