SPECIFICATION Spec
CONSTANTS
  INT_MAX = 127
  MaxSent = 3
  MaxRecv = 1
  MaxNow = 2
  CommandChoices <- NoOptions
  SessionChoices <- PacedOnly
CHECK_DEADLOCK FALSE
INVARIANT
  ReportIsTrue
