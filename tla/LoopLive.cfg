SPECIFICATION FairSpec
CONSTANTS
  inf = inf
  me = me
  other = other
  INFINITY = inf
  MyId = me
  Ids = {me, other}
  UnitsPerMs = 2
  PING_POLL_MAX_MS = 3
  PING_INTERVAL = 3
  PING_FLOOD_INTERVAL = 2
  Second = 3
  PING_TS_RING = 2
  MaxQueue = 2
  StartClock = 1
  MaxClock = 4
  LastClock = 18
  MinProbes = 2
  FlagChoices <- LiveFlags
  StrayWires <- ForeignOnly
  EndlessStrays = FALSE
  Budget <- LiveBudget
CHECK_DEADLOCK FALSE
PROPERTIES
  StopHonoured
  DeadlineHonoured
  KeepsSending
  ImplementsFairSession
