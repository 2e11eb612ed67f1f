SPECIFICATION Spec
CONSTANTS
  Suites <- MCSuites
  Facts <- MCFacts
  Healthy <- MCHealthy
  Changes <- MCChanges
  Worse <- MCWorse
  MaxFaults <- MCMaxFaults
CHECK_DEADLOCK FALSE
INVARIANTS
  SummaryAgrees
  ReportIsWhole
  UnreadHidesNothing
  RefusalIsNoFailure
  WorseNeverBetter
  OneVerdictOnDeployment
  PeakReachesLimits
PROPERTIES
  AlarmHasCause
