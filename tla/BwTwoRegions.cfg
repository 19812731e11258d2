CONSTANTS
  Runs <- AllRuns
  Pointer = 2
  OsPage = 8
  Unroll = 2
  LoopSize = 4
  Step = 2
SPECIFICATION Spec
INVARIANT BwInsideRegions
