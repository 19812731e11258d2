CONSTANTS
  MaxSize = 5
  Unit = 2
  Word = 5
  Layouts <- AllLayouts
  Frames <- AllFrames
  Slots = {4}
  Garbage = {0, 5}
  GroupSize = 3
  NumPages = 3
  NumLines = 4
  Unroll = 2
  MaxMoves = 1
SPECIFICATION ContigSpec
INVARIANTS Permutation StartFirst GroupsContiguous LookupExact
PROPERTY Finishes
