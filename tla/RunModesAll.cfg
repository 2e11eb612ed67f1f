CONSTANTS
  FileChoices <- SomeFiles
  FreshLife = 4000
  ConfigChoices <- SomeConfigs
  FlagChoices <- AllFlags
  ScopeChoices <- SomeScopes
  OcmChoices <- SomeOcm
  MaxFound = 1
SPECIFICATION Spec
CHECK_DEADLOCK FALSE
INVARIANTS
  RenewedWhenDue
  ElevationIsGranted
  TypeOK
  EnvMatchesUrl
