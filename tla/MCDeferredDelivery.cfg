CONSTANTS
  Stray <- MCStray
  Alterations <- MCAlterations
  MaxGaps = 1
  MaxFaults = 2
  MaxAlterations = 1
SPECIFICATION Spec
INVARIANTS
  HonestPasses
  DeliveryFaultsCaught
  OutcomeRestsOnAdmission
CHECK_DEADLOCK FALSE
