SPECIFICATION FairSpec
CONSTANTS
  MsgSizes <- MCMsgSizes
  BundleMaxSize = 4
  HeaderLen = 1
  BundleTTL = 1
  ULongRange = 16
  RingCapacity = 2
  MaxMsg = 4
INVARIANT TypeOK
INVARIANT WireIsFramed
INVARIANT InOrder
INVARIANT ExactlyOnePlace
INVARIANT LostAreOldest
INVARIANT BundlesFit
PROPERTY EveryMessageLeaves
PROPERTY ImplementsChannel
CHECK_DEADLOCK FALSE
