CONSTANTS
  Files = {f1, f2}
  Versions = {v1}
  UserMoments <- BetweenRuns
  Absent = Absent
  Uncaptured = Uncaptured
  None = None
SPECIFICATION Spec
INVARIANTS UserTextRecoverable RollbackRestores
PROPERTIES VerifiedRowKept ImplementsAtomicLeaf
