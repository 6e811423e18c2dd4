SPECIFICATION AppSpec
CONSTANTS
  Names = {n1}
  Machines <- SomeMachines
  MaxUsers = 2
  Workers = {w1}
  MaxCerts = 2
  None = None
INVARIANTS AppTypeOK ClosedIsQuiet RegisteredServes CertPairMatches
PROPERTY WaitsEnd
CHECK_DEADLOCK FALSE
