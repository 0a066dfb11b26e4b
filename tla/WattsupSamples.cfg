SPECIFICATION Spec
CONSTANTS
  CommandLines <- HeaderFirst
  LeftLogging = FALSE
  MaxCount = 2
  MaxRecords = 3
  MaxLine = 2
INVARIANTS OnlySamples
CHECK_DEADLOCK FALSE
