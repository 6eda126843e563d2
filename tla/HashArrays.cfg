SPECIFICATION Spec
CONSTANTS
  WORDSIZE = 2
  HashRange = 2
  Strings <- MCStrings
  Pools <- MCPools
  Probes <- MCProbes
  Budgets = {0, 1, 2, 3, 4, 40}
  FailAnywhere = FALSE
INVARIANTS
  WalksAgree
  Accounted
  NoDeadEnds
PROPERTIES
  ImplementsMap
  FailedSetKeeps
