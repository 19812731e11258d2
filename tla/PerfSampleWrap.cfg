CONSTANTS
  RingWords = 12
  Periods = {0, 1}
  MaxRecords = 4
SPECIFICATION Spec
INVARIANTS SampleIntact
