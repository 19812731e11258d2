CONSTANTS
  NumThreads = 3
  NumPartitions = 3
  NumIterations = 3
  MaxSpurious = 2
SPECIFICATION FairSpec
INVARIANTS TypeOK RoundRobin CleanHandover NoLostWakeup NoLostUpdate TimedLaps ThreadsTogether
PROPERTIES ImplementsRing MainReturns
