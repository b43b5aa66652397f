SPECIFICATION FairSpec
CONSTANTS
  Paths <- MCPaths2
  Faults = {"kill", "stop", "drift", "wipe", "io"}
  MaxFaults = 4
INVARIANTS
  ConfigNeverPartial
  StopUnroutes
  RoutedIsConfigured
  OriginalKept
PROPERTIES
  Repaired
CHECK_DEADLOCK FALSE
