CONSTANTS
  Parts = {"copy", "cache", "volume", "pages", "mkfs"}
  BlockSize = 8
  Requests <- ServedReads
  Behind = 8
  Threads = {t1, t2}
  Blocks = 4
  BlocksPerEntry = 2
  MaxCount = 3
  MaxReads = 2
  Allocators = {t1, t2}
  BlockBytes = 2
  ByteBits = 2
  Wrap = 64
  Counts = {3, 8, 12, 13, 30, 40}
  MaxMounts = 2
  MaxAllocs = 3
  Pages = {1, 2, 3, 4}
  PerPage = 2
SPECIFICATION AllSpec
INVARIANTS
  TypesOK ServedRight ReadsAreRight BlocksAreOwners EntriesKept SessionRight
PROPERTIES
  ListStableWhileRead EveryReadEnds
\* A read and a session of mkfs come to their end.
CHECK_DEADLOCK FALSE
