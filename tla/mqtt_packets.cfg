SPECIFICATION FairSpec
CONSTANTS
  LengthBase = 3
  WordBase = 16
  MaxTopics = 3
  RecvCap = 14
  MaxPackets = 2
  Incoming <- MCIncoming
  Strays <- MCStrays
  Requests <- MCRequests
  Rooms <- MCRooms
INVARIANTS
  TypeOK
  PackedIsRead
  PackedFits
PROPERTIES
  ImplementsPacketStream
  AllReceived
CHECK_DEADLOCK FALSE
