CONSTANTS
  Proto = {"tcp"}
  L4Words = {5}
  Payloads = {300}
  PacketsPerFlow = 5
  HdrBytes = 80
  PayloadBytes = 240
SPECIFICATION Spec
INVARIANT InputAsTrained
CHECK_DEADLOCK FALSE
