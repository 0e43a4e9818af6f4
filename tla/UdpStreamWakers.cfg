SPECIFICATION FairSpec
CONSTANTS
  d1 = d1
  d2 = d2
  None = None
  Data = {d1}
  Service = "Tcp"
  Cap = 1
  FrameChunks = 2
  Window = 1
  MaxRetransmits = 1
  MaxWrites <- OneWay
  Pingers = {}
  MaxStreams = 1
CHECK_DEADLOCK FALSE
INVARIANTS ParkedReader ParkedWriter
PROPERTIES ChunksSettle CloseWakesReader
