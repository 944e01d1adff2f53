CONSTANTS
  BlockSize = 8
  Requests <- AnyRead
  Behind = 8
SPECIFICATION Spec
INVARIANT CallerTold
CHECK_DEADLOCK FALSE
