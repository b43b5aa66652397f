SPECIFICATION FairSpec
CONSTANTS
  Captures <- MCCaptures2
  PodOf <- MCPodOf
  NoManifest = NoManifest
  NoEvent = NoEvent
  MaxBudget = 1
  Budget <- MCBudgetMixed
  Window = 1
  MaxClock = 0
  MaxLag = 1
  Unreliable = TRUE
  PipeLimit = 1
  HasDeadline = TRUE
  HasTimeout = TRUE
  PutsFail = TRUE
  Kills = TRUE
  LateComplete = TRUE
CHECK_DEADLOCK FALSE
INVARIANTS
  
  EventTruthful
PROPERTIES
  EveryCaptureReported
