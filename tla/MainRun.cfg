SPECIFICATION FairSpec
CONSTANTS
  INT_MAX = 1023
  MaxSent = 3
  MaxRecv = 4
  MaxNow = 2
  CommandChoices <- AllCommands
  SessionChoices <- AllSessions
CHECK_DEADLOCK FALSE
INVARIANTS
  TypeOK
  ReleasedAtExit
  SessionIsEquipped
  SummaryOrDiagnostic
  StatusTellsReachability
  ReportIsTrue
PROPERTY
  InterruptEndsCleanly
