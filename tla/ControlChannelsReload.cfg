SPECIFICATION Spec
CONSTANTS
  Conns = {c1}
  Services = {s1}
  VisitorKeys = {v1}
  MaxReloads = 1
CHECK_DEADLOCK FALSE
INVARIANT RemovedNotServed
