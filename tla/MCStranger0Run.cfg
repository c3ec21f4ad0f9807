CONSTANTS
  None = None
  Miss = Miss
  Runs <- MCRuns
SPECIFICATION Spec
CHECK_DEADLOCK FALSE
INVARIANTS
  CaseVerdictIndependentOfOthers
  PassIsEarned
  NothingRunsAfterExit
PROPERTY
  Terminates
