SPECIFICATION Spec
CONSTANTS
  Content = {c1, c2, c3}
  Sizes <- MCSizes
  BufferSize = 4
  MaxElemSize = 2
  NULL = NULL
INVARIANT TypeOK
INVARIANT LiveSlotsWritten
PROPERTY ImplementsFifo
