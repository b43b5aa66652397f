SPECIFICATION Spec
CONSTANTS
  Dirs = {"run", "other"}
  DefaultDir = "run"
  Values <- MCValuesOther
  MaxOps = 1
INVARIANTS
  HandlerReadsRunDir
CHECK_DEADLOCK FALSE
