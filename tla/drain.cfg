SPECIFICATION DrainFairSpec
CONSTANTS
  MaxBlocks = 5
  MaxChunk = 2
  Caps <- MCCaps
  HasDeadline = TRUE
INVARIANTS
  StoredPrefix
  TruncationHonest
  
PROPERTIES
  KeepsContract
  DrainEnds
CHECK_DEADLOCK FALSE
