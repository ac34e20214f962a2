SPECIFICATION Spec
CONSTANTS
  f1 = f1
  f2 = f2
  Flow = {f1, f2}
  MetaNum = 3
  BatchSize = 2
  MaxSeq = 6
  Mark = 100
  MaxFetch = 2
SYMMETRY FlowSymmetry
INVARIANTS
  PriorityExact
  NothingStranded
  CountExact
PROPERTIES
  ReportsAdvance
  LongestWaitingFirst
