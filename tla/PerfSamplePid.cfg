CONSTANTS
  RingWords = 12
  Periods = {0, 1, 2}
  MaxRecords = 4
SPECIFICATION Spec
INVARIANTS NeverAborts UnreadIntact EachSampleOnce PeriodInForce
