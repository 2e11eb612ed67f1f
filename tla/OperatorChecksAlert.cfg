SPECIFICATION Spec
CONSTANTS
  Suites <- MCSuites
  Facts <- MCFacts
  Healthy <- MCHealthy
  Changes <- MCChanges
  Worse <- MCWorse
  MaxFaults <- MCNoFaults
CHECK_DEADLOCK FALSE
INVARIANTS
  CriticalAlertFails
