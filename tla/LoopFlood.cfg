SPECIFICATION Spec
CONSTANTS
  inf = inf
  me = me
  other = other
  INFINITY = inf
  MyId = me
  Ids = {me, other}
  UnitsPerMs = 2
  PING_POLL_MAX_MS = 3
  PING_INTERVAL = 3
  PING_FLOOD_INTERVAL = 2
  Second = 4
  PING_TS_RING = 2
  MaxQueue = 2
  StartClock = 1
  MaxClock = 4
  LastClock = 19
  MinProbes = 0
  FlagChoices <- FloodFlags
  StrayWires <- Strangers
  EndlessStrays = FALSE
  Budget <- FloodBudget
CHECK_DEADLOCK FALSE
INVARIANTS
  OnePerReply
  RttExact
  StatsCoherent
  CountsExplained
  StopBoundsSends
PROPERTY
  ImplementsSession
