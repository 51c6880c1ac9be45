SPECIFICATION Spec
CONSTANTS
  MaxDepth = 2
  MaxChildren = 3
  MaxTotalTasks = 5
  MaxAlternatives = 1
INVARIANTS
  RefusedSplitNeverRuns
CHECK_DEADLOCK FALSE
