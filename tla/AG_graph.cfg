CONSTANTS
  N = 2
  Paths <- TwoPaths
  Contents = {"a", "b"}
  Approved <- AsApproved
  Plans <- SmallPlans
SPECIFICATION Spec
INVARIANTS PromotedChangesAreApproved
PROPERTIES WorkersStartFromApproval PromotedWorkStands LifecycleEnds
CHECK_DEADLOCK FALSE
