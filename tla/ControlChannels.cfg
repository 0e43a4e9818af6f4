SPECIFICATION FairSpec
CONSTANTS
  Conns = {c1, c2}
  Services = {s1}
  VisitorKeys = {v1}
  MaxReloads = 2
CHECK_DEADLOCK FALSE
INVARIANTS TypeOK MapSound InsertSucceeds RefusedOnlyIfDisplaced
PROPERTIES ImplementsRegistry LockGranted ShutdownCompletes
