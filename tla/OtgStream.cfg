SPECIFICATION FairSpec
CONSTANTS
  Sizes = {3}
  Rates <- SignedRates
  Intervals = {3}
  Grain = 2
  SleepRange = 2
  MaxTime = 2
  MaxPkts = 2
  MaxOpts = 4
CHECK_DEADLOCK FALSE
INVARIANTS TypeOK SeqInOrder VirtualClock NeverEarly InstantStored
PROPERTIES ClockRefines Progress
