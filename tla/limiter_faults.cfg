SPECIFICATION FairSpec
CONSTANTS
  Captures <- MCCaptures3
  PodOf <- MCPodOf
  MaxBudget = 1
  Budget <- MCBudgetMixed
  Window = 1
  MaxClock = 1
  MaxLag = 1
  Unreliable = TRUE
  NoOne = 0
INVARIANTS
  MutualExclusion
PROPERTIES
  ImplementsLedger
  Answered
CHECK_DEADLOCK FALSE
