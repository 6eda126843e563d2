SPECIFICATION Spec
CONSTANTS
  Keys = {0, 1}
  Values = {v1, v2}
  NONE = NONE
  Types = {"INT_TO_MIXED", "STRING_TO_MIXED"}
  MaxDepth = 2
  AllocFails = TRUE
  ScratchReentry = FALSE
  DataReentry = FALSE
SYMMETRY MCValueSymmetry
INVARIANTS
  TypeOK
  RefsAgree
  FreedWhenUnheld
