SPECIFICATION WiFiSpec
CONSTANTS
  near = near
  far = far
  stranger = stranger
  AP = {near, far, stranger}
  Valid = {near, far}
  Rssi <- MCRssi
  Channel <- MCChannel
  MaxIndexed = 2
  MaxClients = 2
INVARIANTS
  WiFiTypeOK
  Selection
PROPERTIES
  NoNeedlessJoin
  ApOnLeasedChannel
  Reconnects
CHECK_DEADLOCK FALSE
