SPECIFICATION FairSpec
CONSTANTS
  MaxFds = 2
  Fds <- MCFds
INVARIANT TypeOK
INVARIANT SlotsOwnTheirMemory
INVARIANT SelectAsksForAll
INVARIANT TurnServesAll
PROPERTY CallbacksDoNotBlock
PROPERTY NobodyStarves
