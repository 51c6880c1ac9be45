CONSTANTS
  Paths <- OnePath
  Versions = {v1, v2}
  Children <- TwoChildren
  Mutates <- FirstFile
  Reads <- SecondReads
  Topics = {"owner"}
  Claims = {"A", "B"}
  Test = "test"
  Contracts <- Owners
  MaxTasks = 2
  MaxRecords = 4
  MaxCurrent = 2
  NoChange = NoChange
SYMMETRY SameVersions
SPECIFICATION Spec
INVARIANTS OneActivePerSemantic NeverContradictory CompletionBacked
PROPERTIES AuthorityChangesOnlyByApproval EvidenceStandsOnCurrentBytes
CHECK_DEADLOCK FALSE
