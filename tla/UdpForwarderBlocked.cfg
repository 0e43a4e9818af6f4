SPECIFICATION FwdFairSpec
CONSTANTS
  Visitors = {v1}
  SendqSize = 1
  MaxForwarders = 2
  MaxPackets = 2
  MaxReplies = 2
PROPERTY PacketHandedOver
CHECK_DEADLOCK FALSE
