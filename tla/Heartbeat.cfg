SPECIFICATION HBSpec
CONSTANTS
  Intervals = {0, 1, 3}
  Timeouts = {0, 6, 8}
  MaxDelay = 2
  MaxInFlight = 3
  Horizon = 12
INVARIANTS NoFalseTimeout SilenceNoticed
CHECK_DEADLOCK FALSE
