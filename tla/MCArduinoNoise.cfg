SPECIFICATION Spec
CONSTANTS
  VarN = 1
  BuffSize = 16
  MbCapacity = 2
  Inputs <- NoisyInputs
CHECK_DEADLOCK FALSE
INVARIANT DiscardsIllegalSendsLegal
