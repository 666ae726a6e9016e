SPECIFICATION Spec
CONSTANTS
  me = me
  other = other
  MyId = me
  Ids = {me, other}
  Wires <- AllWires
  FlagChoices <- AllFlags
INVARIANTS
  ReadsReceivedBytes
  StepsGiveVerdict
  OwnReplyCounted
  OwnErrorShown
