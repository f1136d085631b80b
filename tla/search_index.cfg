SPECIFICATION FairSpec
CONSTANTS
  Icaos <- ThreeIcaos
  PageSize = 2
  MaxVersion = 2
  MaxFaults = 2
INVARIANT StaleOnlyIfLost
PROPERTY LagsBehind
PROPERTY AnnouncedReachesIndex
CHECK_DEADLOCK FALSE
