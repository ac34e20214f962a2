SPECIFICATION Spec
CONSTANTS
  f1 = f1
  f2 = f2
  none = none
  Id = {f1, f2}
  NoId = none
  Timeout = 4
  Wrap = 10
  W = 2
  TEsc = 2
  ByteMax = 3
  Period = 2
  Delay = 2
  MaxIdle = 6
  MaxClock = 18
  MaxCount = 6
INVARIANTS
  FlagEarned
  CountsOfOwner
  ThresholdMatchesSum
PROPERTIES
  EscalationHolds
