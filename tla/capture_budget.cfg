SPECIFICATION Spec
CONSTANTS
  Captures <- MCCaptures2
  PodOf <- MCPodOf
  NoManifest = NoManifest
  NoEvent = NoEvent
  MaxBudget = 1
  Budget <- MCBudget1
  Window = 3
  MaxClock = 3
  MaxLag = 1
  Unreliable = FALSE
  PipeLimit = 2
  HasDeadline = TRUE
  HasTimeout = TRUE
  PutsFail = TRUE
  Kills = TRUE
  LateComplete = FALSE
CHECK_DEADLOCK FALSE
INVARIANTS
  CoresWithinBudget
  SlotOnlyIfStored
