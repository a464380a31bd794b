INIT Init
NEXT Next
CONSTANTS
  Kinds = {"enum", "login", "move", "query", "logout", "ack", "cancel"}
  PassLimit = 1
  MaxPackets = 5
INVARIANTS
  TypeOK
  NoPacketLost
PROPERTIES
  InOrder
  NoStalePacket
