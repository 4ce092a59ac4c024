SPECIFICATION Spec
CONSTANTS
  VarN = 1
  BuffSize = 16
  MbCapacity = 2
  Inputs <- MCInputs
INVARIANT TypeOK
INVARIANT RoomForMessage
INVARIANT BufferIsSuffix
INVARIANT ReadingsComplete
CHECK_DEADLOCK FALSE
