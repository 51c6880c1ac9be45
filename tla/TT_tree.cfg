SPECIFICATION Spec
CONSTANTS
  MaxDepth = 2
  MaxChildren = 3
  MaxTotalTasks = 5
  MaxAlternatives = 1
INVARIANTS
  TreeBounded
  DependenciesDoneFirst
  DoneOverDone
  IndependentChildrenRun
  CountsMatchLedger
PROPERTIES
  TreeReturns
CHECK_DEADLOCK FALSE
