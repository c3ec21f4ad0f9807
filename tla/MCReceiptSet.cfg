CONSTANTS
  None = None
  Workflows <- MCWorkflows
SPECIFICATION SetSpec
INVARIANTS
  SetPassSound
  LinkageAsDefined
CHECK_DEADLOCK FALSE
