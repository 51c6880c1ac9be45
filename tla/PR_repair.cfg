CONSTANTS
  Files <- FileSet
  Texts <- TextSet
  Original <- OldProject
  UserTexts = {"mine", "old"}
  Broken = {"bad"}
  Patches = {"both", "twice", "wide"}
  Ops <- Operations
  Scope = {"f", "g", "h"}
  Dnt = {"h"}
  ProblemScope = {"f", "g", "h"}
  MaxStages = 16
  MaxAttempts = 2
  MaxRounds = 1
  MaxRequests = 1
  MaxFeedback = 1
  MaxCandidates = 2
  MaxDeterministic = 0
  MaxModel = 1
  MaxGates = 2
  MaxFinalists = 2
  MaxValid = 2
  MaxRuns = 2
  MaxEdits = 1
  None = None
SPECIFICATION Spec
INVARIANTS TypeOK RepairedTreeIsVerified BrainIsFaithful VerificationIsReserved BoundPatchLandsOnItsBase ResultMatchesPhase
PROPERTIES ProjectWritesAreVerified
CHECK_DEADLOCK FALSE
