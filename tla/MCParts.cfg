SPECIFICATION Spec
CONSTANTS
  Procs = {p1, p2}
  MaxStarts = 3
  MaxEvents = 3
  Ifs = {eth0, wlan0}
  Word = 2
  Steps = {1}
  MaxRounds = 3
  MaxTraffic = 3
  Seconds = {0, 1, 2}
  MaxReads = 4
  MaxDatagrams = 4
  MaxErrors = 1
  Sizes = {0, 1, 2}
  Ontime = 16
  Offtime = 3
  RemWord = 256
  Samples = {0, 2}
  Unset = {0, 7}
  MaxPkts = 4
  MaxSets = 1
CHECK_DEADLOCK FALSE
INVARIANTS
  WpamonReportsChanges WpamonLeavesNoSocket
  GpsLoggerOneFixPerSecond RipwaveMonWholeReports RipwaveMonOneMoreReport
  ExpoRateKept ExpoBurstsWhole
PROPERTIES
  WpamonInterruptEnds NMetricsDeltaReported NMetricsQuitEnds GpsLoggerQuitEnds
