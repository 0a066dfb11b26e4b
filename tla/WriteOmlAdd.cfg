SPECIFICATION Spec
CONSTANTS
  Threads = {t1}
  Names = {cpu}
  Main = Main
  Nobody = Nobody
  MaxWrites = 1
CHECK_DEADLOCK FALSE
INVARIANT AddedWhileUp
