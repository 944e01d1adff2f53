CONSTANTS
  t1 = t1
  t2 = t2
  Parts = {"vranges", "map", "heap", "boot", "process"}
  MemoryMaps <- TwoBlocks
  Programs <- SomeImages
  PageBytes = 4
  Sizes = {3, 4, 5, 12}
  FreeAtBoot <- TwoRanges
  BootCount = 2
  Cap = 12
  Uses = {"partial", "keep"}
  RangeCount = 2
  Base <- TwoBases
  PageCount <- TwoCounts
  UsedBeyond = {}
  Dirs = 2
  Slots = 2
  Lengths = {1, 2}
  Callers = {t1, t2}
  MaxLive = 2
  TablesAlone = TRUE
SPECIFICATION AllSpec
INVARIANTS
  TypesOK RangesRight PageListsRight AllocationsBacked
  ChunksRight BootMemoryRight ProcessPagesRight
PROPERTY AllocatorSpec
\* Memory may be used up where nothing is given back, and booting ends.
CHECK_DEADLOCK FALSE
