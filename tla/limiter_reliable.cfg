SPECIFICATION Spec
CONSTANTS
  Captures <- MCCaptures3
  PodOf <- MCPodOf
  MaxBudget = 1
  Budget <- MCBudget1
  Window = 3
  MaxClock = 5
  MaxLag = 1
  Unreliable = FALSE
  NoOne = 0
INVARIANTS
  TypeOK
  BudgetHeld
  WindowBudget
  SuppressedJustified
PROPERTIES
  ImplementsLedger
CHECK_DEADLOCK FALSE
