SPECIFICATION StartSpec
CONSTANTS
  Letter <- MCLetter
  Space <- MCSpace
  Strings <- MCStrings
  Path <- MCPath
  Count <- MCCount
  Device <- MCDevice
  Bauds <- MCBauds
  BuffSize = 256
  MaxFds = 3
  Trials = 3
INVARIANT StartTypeOK
INVARIANT FindsAllWords
INVARIANT RoomForNull
INVARIANT LoopServesAll
INVARIANT ServedAsSent
INVARIANT DevicesFit
CHECK_DEADLOCK FALSE
