SPECIFICATION StatsSpec
CONSTANTS
  Json <- MCJson
  Nic <- MCNic
  MaxCores = 9
  MaxBurst = 1
  MaxPackets = 3
INVARIANTS
  PlacedAsConfigured
  PipelinesComplete
  QueuesPolledOnce
  CountersExact
  ReportCoversRun
CHECK_DEADLOCK FALSE
