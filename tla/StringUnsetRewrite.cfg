SPECIFICATION Spec
CONSTANTS
  Keys = {0, 1}
  KeyLength <- MCTwoLengths
  WordMax = 0
  ABSENT = ABSENT
  NULL = NULL
  Types = {"STRING_TO_MIXED_ADAPTIVE"}
  MaxDepth = 2
  AllocFails = FALSE
  DeletesFail = FALSE
  OwnKeyReentry = TRUE
INVARIANT StoredIsListed
