SPECIFICATION FairSpec
CONSTANTS
  Processes <- MCProcesses
  Images <- MCImages
  MAX_FILE_BYTES = 6
  MAX_FD_ENTRIES = 2
  MaxPrefix = 600
  MaxWord = 1000
  UsizeMod = 4000
INVARIANTS
  
  
  TruncatedExact
  WholeIfHeld
  
  BuildIdRight
  ScanBounded
PROPERTIES
  SnapshotTaken
CHECK_DEADLOCK FALSE
