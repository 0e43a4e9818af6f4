SPECIFICATION Spec
CONSTANTS
  d1 = d1
  d2 = d2
  None = None
  Data = {d1, d2}
  Service = "Udp"
  Cap = 2
  FrameChunks = 1
  Window = 2
  MaxRetransmits = 0
  MaxWrites <- Greeting
  Pingers = {"acc"}
  MaxStreams = 1
CHECK_DEADLOCK FALSE
SYMMETRY Sym
INVARIANT TypeOK
PROPERTY StreamSpec
