SPECIFICATION FairSpec
CONSTANTS
  n1 = n1  n2 = n2  u1 = u1  t1 = t1  t2 = t2  b1 = b1  b2 = b2
  None = None
  Default = Default
  Garbage = Garbage
  Invalid = Invalid
  Contents <- MCContents
  CommandLines = {{}, {"server"}, {"client"}, {"server", "client"}}
  UpdateCap = 1
  MaxEdits = 2
INVARIANTS TypeOK Applied OptionsFilled
PROPERTIES EditsHandled ShutdownEnds
CHECK_DEADLOCK FALSE
