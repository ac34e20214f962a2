\* Three results until the sums start again, with probabilities 0, 1 or 2: sums
\* reach 6 of 7 = 2^3 - 1; the count wraps after two periods and a flow goes on.
CONSTANTS
  KeyBits = 3
  QuantNum = 3
  Vectors <- MCVectors
  Period = 3
  CntMod = 6
  CprMod = 16
  TConf <- MCTConf
  Den = 4
  MaxSegs = 7
SPECIFICATION EgressSpec
INVARIANTS
  SumsFitKey
  ClassIsArgMax
  LowIsBelowThreshold
PROPERTY
  ImplementsAggregator
