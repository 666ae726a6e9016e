SPECIFICATION FairSpec
CONSTANTS
  Byte = 4
  Lengths = {4, 5, 6, 7}
CHECK_DEADLOCK FALSE
INVARIANTS
  SumFits
  SentAsRFC1071
  AcceptsExactlyIntact
  BufferRestored
PROPERTY
  ChecksumEnds
