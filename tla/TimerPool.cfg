CONSTANTS
  Threads = {t1, t2}
  Keys <- OwnAndCommon
  None = None
  MaxTime = 2
SPECIFICATION Spec
INVARIANTS NeverTooLong PoolContents
PROPERTIES ExactReading
CHECK_DEADLOCK FALSE
