CONSTANTS
  t1 = t1
  t2 = t2
  t3 = t3
  Threads = {t1, t2}
  Main = t1
  FreeThreads <- FreeTwo
  Conds = {c1}
  Scheduler = Scheduler
  Cleaner = Cleaner
  None = None
    TimerPoints <- AllPoints
SPECIFICATION FairSpec
PROPERTY SchedulerGetsLock
CHECK_DEADLOCK FALSE
