CONSTANTS
  MCP = MCP
  ACPS = ACPS
  PUB = PUB
  V020 = V020
  V021 = V021
  OtherSchema = OtherSchema
  K1 = K1
  K2 = K2
  I1 = I1
  I2 = I2
  D1 = D1
  D2 = D2
  None = None
  Registry <- MCRegistry
  ACPS_SDK_ENFORCEMENT_PROFILE = ACPS
  PUBLIC_PUBLICATION_PROFILE = PUB
  ACCEPTED_SCHEMA_SHA256 <- MCAccepted
  Inputs <- MCInputs
SPECIFICATION Spec
INVARIANTS
  PassIffNoCodes
PROPERTIES
  RefinesReceiptVerdict
CHECK_DEADLOCK FALSE
