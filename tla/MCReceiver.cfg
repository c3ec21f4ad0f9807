CONSTANTS
  None = None
  Batches <- MCBatches
  TrustInputs <- MCTrustInputs
SPECIFICATION Spec
INVARIANTS
  AtMostOnceReliance
  StrictDependency
  LedgeredAdmissionForecloses
  StrictOrderIndependent
  RecordsOfThisRun
