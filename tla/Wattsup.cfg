SPECIFICATION FairSpec
CONSTANTS
  CommandLines <- AllCommandLines
  LeftLogging = TRUE
  MaxCount = 2
  MaxRecords = 2
  MaxLine = 2
INVARIANTS TypeOK MeterLeftQuiet CountHonoured GivesUpAfterReset
CHECK_DEADLOCK FALSE
PROPERTY Finishes
