CONSTANTS
  NJobs = 3
  HiveNames <- OneHive
  IdOf <- RepeatedIds
  Ids <- MCIds
  Parallel = 2
  NManagedOps = 2
  NHiveOps = 1
  MaxCalls = 1
  None = None
  h1 = h1
SPECIFICATION HangSpec
INVARIANTS
  TypeOK
  AtMostParallel
  ReportComplete
  AuditExact
  OpsAttributed
PROPERTIES
  KeepsBook
  RunEnds
  WindowIsBounded
