SPECIFICATION Spec
CONSTANTS
  f1 = f1
  f2 = f2
  Flow = {f1, f2}
  PktType = {1}
  MetaNum = 2
  BatchSize = 2
  BufferSizePerFlow = 3
  MetadataCap = 3
  PktCap = 3
  ResultCap = 3
  MetadataFetch = 1
  PktFetch = 2
  ResultFetch = 1
  MaxSeq = 3
  Mark = 100
  IdxAtBirth = {0}
  Asserting = TRUE
INVARIANT TimeRecordMatches
CHECK_DEADLOCK FALSE
