CONSTANTS
  c1 = c1
  c2 = c2
  c3 = c3
  h1 = h1
  h2 = h2
  Clusters <- MCClusters
  Stranger = Stranger
  Hives <- MCHives
  HiveOf <- MCHiveOf
  SectorOf <- MCSectorOf
  FleetHasId <- MCFleetHasId
  Owned <- MCOwned
  NameExcluded <- MCNameExcluded
  Lists <- AllLists
  Options <- MCOptions
SPECIFICATION Spec
CHECK_DEADLOCK FALSE
INVARIANTS
  IDsAreResolved
  FiltersNarrow
  TypeOK
  ListAndHive
