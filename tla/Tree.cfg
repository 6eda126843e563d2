SPECIFICATION Spec
CONSTANTS
  Base = 8
  Levels = 4
  LeafWMaxPop1 = 3
  LeafMaxOf <- MCLeafMax
  ImmedMaxOf <- MCImmedMax
  BranchLMaxJPs = 2
  BranchLMaxPop = 6
  BtoUIncrement = 1
  BranchBMinPop = 3
  BranchBMaxPop = 4
  SubExpanse = 4
  Pools <- TreePools
  Budgets <- TreeBudgets
  FailAtRoot = FALSE
INVARIANTS
  WellFormed
  Accounted
  NextAgrees
  EmptyAgrees
  CountAgrees
PROPERTIES
  AnswersTell
  ImplementsMap
