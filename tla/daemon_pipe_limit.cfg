SPECIFICATION Spec
CONSTANTS
  Paths <- MCPaths1
  Faults = {"kill", "stop"}
  MaxFaults = 2
INVARIANTS
  LimitRestored
CHECK_DEADLOCK FALSE
