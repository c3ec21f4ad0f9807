SPECIFICATION Spec
CONSTANTS
  Inputs <- MCInputs
  Altered <- MCAltered
  NativeReport <- MCNativeReport
  Contents <- MCContents
  MaxFaults = 1
  MaxEdits = 1
  MaxNow = 2
INVARIANTS
  CompletedIsCorroborated
  AgreementGrounded
  HonestNotAccused
  DigestNamesRunBytes
  CheckerAgrees
  HonestObservationConfirmed
PROPERTY
  Terminates
