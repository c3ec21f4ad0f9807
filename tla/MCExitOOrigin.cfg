CONSTANTS
  Inputs <- MCInputs
  Altered <- MCAltered
  MaxFaults = 1
SPECIFICATION Spec
INVARIANTS
  AuthenticatedByOwnKey
  HonestReceiptAuthenticates
PROPERTIES
  FailureIsTerminal
CHECK_DEADLOCK FALSE
