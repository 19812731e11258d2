CONSTANTS
  NumCores = {0, 2, 3, 4, 6}
  GroupSize = 2
  Visits = 2
  RingWords = 10
  Margin = 4
  InitSleep = 2
  MaxSleep = 5
  Durations = {0, 3}
  MaxRecords = 4
SPECIFICATION Spec
INVARIANTS EachRecordOnce ReturnsComplete
PROPERTY SleepFollowsLoad
