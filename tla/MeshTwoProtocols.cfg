SPECIFICATION Spec
CONSTANTS
  d0 = d0
  d110 = d110
  d120 = d120
  d210 = d210
  Device <- PairDevice
  Root = d0
  Attach <- PairAttach
  Depth <- PairDepth
  Proto = {tcp, udp}
  TopoPrintHops = 1
  PingPrintHops = 200
  MaxPending = 1
  MaxKills = 0
  MaxLosses = 1
  Copies = TRUE
INVARIANTS LinksReal
CHECK_DEADLOCK FALSE
