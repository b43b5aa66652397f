SPECIFICATION FairSpec
CONSTANTS
  Dirs = {"run", "other"}
  DefaultDir = "run"
  Values <- MCValues
  MaxOps = 4
INVARIANTS
  ReadyUsesConfig
  
  
  UninstallClean
PROPERTIES
  Settles
CHECK_DEADLOCK FALSE
