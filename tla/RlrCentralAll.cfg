SPECIFICATION Spec
CONSTANTS
  m1 = m1
  m2 = m2
  Clusters <- MCClusters
  Pipelines <- MCPipelines
  HealthyOnes <- MCHealthy
  Turns <- MCTurns
  Vectors <- MCVectors
  MaxFaults = 1
CHECK_DEADLOCK FALSE
INVARIANTS
  OneStory
  QuietWhenHealthy
PROPERTIES
  EveryoneReports
