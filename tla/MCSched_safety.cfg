CONSTANTS
  t1 = t1
  t2 = t2
  t3 = t3
  Threads = {t1, t2, t3}
  Main = t1
  FreeThreads <- FreeThree
  Conds = {}
  Scheduler = Scheduler
  Cleaner = Cleaner
  None = None
    TimerPoints <- UpdatePoints
SPECIFICATION Spec
INVARIANTS TypeOK OneList ListsMatchStates WaitedThreadLives WaitReturnsValue
PROPERTY Lifecycle
\* A scheduler that spins on a lock held by a preempted thread stays there.
CHECK_DEADLOCK FALSE
