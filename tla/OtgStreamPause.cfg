SPECIFICATION Spec
CONSTANTS
  Sizes = {1}
  Rates = {8}
  Intervals = {}
  Grain = 1
  SleepRange = 8
  MaxTime = 3
  MaxPkts = 3
  MaxOpts = 3
CHECK_DEADLOCK FALSE
PROPERTY PauseHoldsPackets
