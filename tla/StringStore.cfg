SPECIFICATION Spec
CONSTANTS
  Keys = {0, 1, 2}
  KeyLength <- MCKeyLength
  WordMax = 1
  ABSENT = ABSENT
  NULL = NULL
  Types <- StringTypes
  MaxDepth = 3
  AllocFails = TRUE
  DeletesFail = FALSE
  OwnKeyReentry = FALSE
INVARIANTS
  TypeOK
  IndexAgrees
  CounterAgrees
  MirrorAgrees
  BytesAgree
PROPERTIES
  ImplementsMap
