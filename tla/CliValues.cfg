SPECIFICATION Spec
CONSTANTS
  INT_MAX = 131071
  LONG_MAX = 524287
  ArgvChoices <- FewArgv
CHECK_DEADLOCK FALSE
INVARIANT ArgumentsKept
