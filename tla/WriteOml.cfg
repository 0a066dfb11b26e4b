SPECIFICATION FairSpec
CONSTANTS
  Threads = {t1, t2}
  Names = {cpu, df}
  Main = Main
  Nobody = Nobody
  MaxWrites = 4
CHECK_DEADLOCK FALSE
INVARIANTS TypeOK UniqueNames InjectExclusive InjectWhileUp
PROPERTIES ClientRefines WritesReturn
