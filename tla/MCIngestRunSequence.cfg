CONSTANTS
  Produced <- MCProduced
  Edited <- MCEdited
  MaxFaults = 2
SPECIFICATION Spec
INVARIANTS
  HonestRunPasses
  PassMeansLinked
  OccurrencesAnswered
CHECK_DEADLOCK FALSE
