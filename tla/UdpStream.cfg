SPECIFICATION DifferentSpec
CONSTANTS
  d1 = d1
  d2 = d2
  None = None
  Data = {d1, d2}
  Service = "Tcp"
  Cap = 2
  FrameChunks = 2
  Window = 2
  MaxRetransmits = 0
  MaxWrites <- OneWay
  Pingers = {}
  MaxStreams = 2
CHECK_DEADLOCK FALSE
SYMMETRY Sym
INVARIANTS InOrder AckedIsReceived
