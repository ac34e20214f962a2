SPECIFICATION FairSpec
CONSTANTS
  f1 = f1
  f2 = f2
  Flow = {f1, f2}
  PktType = {1}
  MetaNum = 2
  BatchSize = 2
  BufferSizePerFlow = 2
  MetadataCap = 1
  PktCap = 2
  ResultCap = 2
  MetadataFetch = 1
  PktFetch = 2
  ResultFetch = 1
  MaxSeq = 3
  Mark = 100
  IdxAtBirth = {0}
  Asserting = FALSE
INVARIANTS
  WaitsForResult
  BufferCountExact
PROPERTIES
  ImplementsForwarder
  AnalyzedAdvances
  EveryPacketLeaves
