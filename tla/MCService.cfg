SPECIFICATION FairSpec
CONSTANTS
  Configs <- MCConfigs
  Migrations = 2
  GracePeriod = 90
  MaxStarts = 2
INVARIANTS
  TypesAndMetrics
  ReleasesOnce
  RunsOnLatestSchema
  ClosedAfterUse
  StopsWithoutError
  WithinGrace
PROPERTIES
  Stops
CHECK_DEADLOCK FALSE
