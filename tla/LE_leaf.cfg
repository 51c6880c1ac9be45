CONSTANTS
  Kinds <- BothKinds
  Checks <- TwoChecks
  Web = "browser"
  Texts <- TwoTexts
  Meaning <- TwoMeanings
  StepBudget = 3
  FalsifierBudget = 1
  MaxRepairs = 2
  FailedEditLimit = 2
  StagnationLimit = 2
  MaxEdits = 1
SPECIFICATION Spec
INVARIANTS ResultMatchesTransaction ProviderFailureEndsLeaf RefutationBlocksCommit CommitHasSufficientContext
PROPERTIES LeafReturns VisualFailureTriggersNoEdit
CHECK_DEADLOCK FALSE
