SPECIFICATION WindowSpec
CONSTANTS
  f1 = f1
  f2 = f2
  none = none
  a = a
  b = b
  Id = {f1, f2}
  NoId = none
  Timeout = 2
  Wrap = 6
  W = 2
  TEsc = 1
  ByteMax = 3
  Period = 2
  Delay = 1
  MaxIdle = 4
  MaxClock = 12
  MaxCount = 3
  Ev = {a, b}
  NoEv = none
INVARIANTS
  WindowIsLatest
  WindowInv
PROPERTIES
  ClassifiedFromWindow
  OwnerKeepsEntry
