SPECIFICATION FairSpec
CONSTANTS
  PoolSize = 1
  ChanSize = 3
  MaxVisitors = 6
  MaxBroken = 2
INVARIANTS TypeOK Conservation NeverFullUnderLock
PROPERTIES
  VisitorsServed
  DropEndsTasks
CHECK_DEADLOCK FALSE
