CONSTANTS
  NumThreads = 4
  MaxSpurious = 2
SPECIFICATION FairSpec
INVARIANTS DestroyedIdle
PROPERTIES ImplementsRing MainReturns
