CONSTANTS
  Legal <- AllLegal
  Targets <- TwoFiles
  Goal = "goal"
  Budget = 5
  SearchLimit = 2
  Floor = 1
  FailLimit = 3
  StagnationLimit = 1
SPECIFICATION Spec
INVARIANTS OfferedFollowsStrategy
PROPERTIES AdaptationsAreEarned
CHECK_DEADLOCK FALSE
