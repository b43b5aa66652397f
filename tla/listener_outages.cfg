SPECIFICATION FairSpec
CONSTANTS
  NoPost = NoPost
  Reports <- MCReports1
  TTL = 2
  EventTTL = 2
  MaxKeys = 1
  QueueCap = 2
  MaxLag = 1
  MaxClock = 2
  MaxPayloads = 4
  MaxRestarts = 1
  Outages = TRUE
INVARIANTS
  NoOvercount
PROPERTIES
  QueueDrains
  StaleDropped
CHECK_DEADLOCK FALSE
