SPECIFICATION FairSpec
CONSTANTS
  Conns = {1, 2, 3}
  PoolSize = 1
  MaxTasks = 2
  MaxEvents = 2
INVARIANTS Accounted DataChannelsOwned Settled
PROPERTIES OneMoreSession Recovers ToldEnds ComesToRest
CHECK_DEADLOCK FALSE
