CONSTANTS
  NumThreads = 2
  NumPartitions = 2
  NumIterations = 2
  MaxSpurious = 0
SPECIFICATION Spec
INVARIANTS PerRefDivisor
