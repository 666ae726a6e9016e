SPECIFICATION FairSpec
CONSTANTS
  INT_MAX = 131071
  LONG_MAX = 524287
  ArgvChoices <- AllArgv
CHECK_DEADLOCK FALSE
INVARIANTS
  FlagsUsable
  ReadAsWritten
PROPERTY
  ParseEnds
