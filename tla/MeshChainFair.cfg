SPECIFICATION FairSpec
CONSTANTS
  d0 = d0
  d110 = d110
  d120 = d120
  d210 = d210
  Device <- ChainDevice
  Root = d0
  Attach <- ChainAttach
  Depth <- ChainDepth
  Proto = {tcp}
  TopoPrintHops = 4
  PingPrintHops = 4
  MaxPending = 0
  MaxKills = 1
  MaxLosses = 0
  Copies = FALSE
INVARIANTS PathsDescend DistanceTrue PrintedOnlyIfDeep
PROPERTIES RoutesStay RoutesFound RootSeesMesh OneEndsAll
CHECK_DEADLOCK FALSE
