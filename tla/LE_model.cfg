CONSTANTS
  Kinds <- Implementation
  Checks <- TwoChecks
  Web = "browser"
  Texts <- OneText
  Meaning <- OneMeaning
  StepBudget = 3
  FalsifierBudget = 1
  MaxRepairs = 1
  FailedEditLimit = 2
  StagnationLimit = 2
  MaxEdits = 1
SPECIFICATION Spec
PROPERTIES ModelFailureTriggersNoEdit
CHECK_DEADLOCK FALSE
