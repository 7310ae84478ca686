SPECIFICATION FairSpec
CONSTANTS
  Packet = {p1, p2}
  Server = {tcp, udp}
  NoTuple = NoTuple
  MaxQueue = 3
PROPERTIES ImplementsInbox Drained
