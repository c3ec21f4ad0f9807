CONSTANTS
  Inputs <- MCInputs
  Altered <- MCAltered
  MaxFaults = 1
SPECIFICATION Spec
INVARIANTS
  PassIsTheIssuers
  NoDowngrade
  CapturedIsReplacement
  ComparisonIndependent
CHECK_DEADLOCK FALSE
