\* One queue for two parsers: the second has none.  Nine queues of three ports:
\* five and four.
CONSTANTS
  f1 = f1
  f2 = f2
  p1 = p1
  p2 = p2
  b1 = b1
  e1 = e1
  e2 = e2
  e3 = e3
  Batch <- MCBatch
  Parser <- MCParser
  Buffer <- MCBuffer
  Devices <- MCDevices
SPECIFICATION FairSpec
INVARIANTS
  NoInputRace
  BatchWhole
  LoopsOverBeforeReport
PROPERTIES
  NoBatchLost
  EveryCallAnswered
  InterruptEnds
CHECK_DEADLOCK FALSE
