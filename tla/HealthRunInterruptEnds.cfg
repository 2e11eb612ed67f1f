CONSTANTS
  NJobs = 2
  HiveNames <- NoHive
  IdOf <- DistinctIds
  Ids <- MCIds
  Parallel = 1
  NManagedOps = 1
  NHiveOps = 0
  MaxCalls = 0
  None = None
  h1 = h1
SPECIFICATION HangSpec
PROPERTY
  InterruptEnds
