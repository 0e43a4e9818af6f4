SPECIFICATION FwdFairSpec
CONSTANTS
  Visitors = {v1, v2}
  SendqSize = 1
  MaxForwarders = 3
  MaxPackets = 3
  MaxReplies = 2
INVARIANTS FwdTypeOK OwnEntry FoundStays EntryReceives
PROPERTY AllEnd
CHECK_DEADLOCK FALSE
