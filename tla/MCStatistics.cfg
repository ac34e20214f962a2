SPECIFICATION MonitorSpec
CONSTANTS
  Cycle = 8
  Num = 1
  Den = 2
  MaxPackets = 10
  MaxUnderWay = 2
  MaxWatched = 4
INVARIANTS
  WithinBudget
  EveryPacketCounted
  LoadNotUnderstated
  ReportSound
CHECK_DEADLOCK FALSE
