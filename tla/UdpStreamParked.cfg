SPECIFICATION Spec
CONSTANTS
  d1 = d1
  d2 = d2
  None = None
  Data = {d1}
  Service = "Udp"
  Cap = 1
  FrameChunks = 2
  Window = 1
  MaxRetransmits = 1
  MaxWrites <- Reply
  Pingers = {}
  MaxStreams = 1
CHECK_DEADLOCK FALSE
INVARIANT ParkedWriter
