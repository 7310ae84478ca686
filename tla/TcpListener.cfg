SPECIFICATION Spec
CONSTANTS
  short = short
  long = long
  Packet = {short, long}
  Size <- PacketSizes
  SizeBytes = 2
  MaxRecv = 9
  MaxTries = 2
  MaxBytes = 11
INVARIANTS WholePackets ChunkServed
CHECK_DEADLOCK FALSE
