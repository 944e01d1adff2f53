CONSTANTS
  t1 = t1
  t2 = t2
  t3 = t3
  Threads = {t1, t2, t3}
  Main = t1
  FreeThreads <- FreeThree
  Conds = {}
  Scheduler = Scheduler
  Cleaner = Cleaner
  None = None
    TimerPoints <- AllPoints
SPECIFICATION Spec
INVARIANT WaitReturnsValue
CHECK_DEADLOCK FALSE
