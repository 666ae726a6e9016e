SPECIFICATION FairSpec
CONSTANTS
  inf = inf
  me = me
  other = other
  INFINITY = inf
  MyId = me
  Ids = {me, other}
  UnitsPerMs = 2
  PING_POLL_MAX_MS = 3
  PING_INTERVAL = 3
  PING_FLOOD_INTERVAL = 2
  Second = 4
  PING_TS_RING = 2
  MaxQueue = 2
  StartClock = 1
  MaxClock = 7
  LastClock = 21
  MinProbes = 0
  FlagChoices <- TimeoutOnly
  StrayWires <- ForeignOnly
  EndlessStrays = TRUE
  Budget <- NoBudget
CHECK_DEADLOCK FALSE
PROPERTY
  DeadlineHonoured
