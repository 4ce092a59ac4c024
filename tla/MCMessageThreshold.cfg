SPECIFICATION Spec
CONSTANTS
  VarN = 2
  Value <- MCValue
  DerThreshold = 2
  Capacity = 3
INVARIANT MinDifference
