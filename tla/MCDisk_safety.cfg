CONSTANTS
  t1 = t1
  t2 = t2
  t3 = t3
  p1 = p1
  p2 = p2
  p3 = p3
  Null = Null
  Threads = {t1, t2, t3}
  Pages = {p1, p2, p3}
  FirstPage = p1
  PageSlots = 2
  MaxSectors = 2
  Blocks = {1, 3}
  Errors = TRUE
SPECIFICATION Spec
INVARIANTS TypeOK QueueInOrder ReadReturnsAll BufferStillLent
PROPERTIES CmdsReused
SYMMETRY Readers
\* After an error the driver waits for a portion that does not come.
CHECK_DEADLOCK FALSE
