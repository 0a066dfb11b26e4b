SPECIFICATION FairSpec
CONSTANTS
  Lens = {0, 3, 31}
  CaptureUnits = 6
  MappedUnits = 7
  MaxPackets = 2
CHECK_DEADLOCK FALSE
INVARIANT WalkOnHeaders
