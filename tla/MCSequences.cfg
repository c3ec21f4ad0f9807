CONSTANTS
  Bundles <- MCBundles
  AlteredBundles <- MCAlteredBundles
  Events <- MCEvents
  Evidence <- MCEvidence
  AlteredEvidence <- MCAlteredEvidence
  MaxFaults = 1
SPECIFICATION EitherSpec
INVARIANTS
  HonestReadPasses
  ExchangedReadCaught
  HonestSessionPasses
  SingleLineage
  PassIsRecomputed
  GroundedInVisibleText
CHECK_DEADLOCK FALSE
