CONSTANTS
  NumThreads = 4
  MaxSpurious = 2
SPECIFICATION FairSpec
INVARIANTS ReadersAfterWriter
PROPERTIES MainReturns
