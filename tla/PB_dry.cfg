CONSTANTS
  Paths <- Files
  Mapped <- MappedFiles
  Generated = {"g1"}
  Edited = {"mine"}
  Absent = "absent"
  Units = {"a", "b", "c"}
  Targets <- UnitFiles
  Plans = {"free", "chain", "cut", "lost"}
  Given <- GivenUnits
  Planned <- PlannedUnits
  Deps <- Dependencies
  MaxProviderCalls <- ProviderCalls
  MaxCheckpoints <- CheckpointsOf
  MaxRuns = 2
  MaxEdits = 1
  None = None
SPECIFICATION Spec
INVARIANT AppliedProjectExists
CHECK_DEADLOCK FALSE
