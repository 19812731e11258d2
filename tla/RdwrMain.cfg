CONSTANTS
  MaxThreads = 9
  MaxCores = 6
  MaxStep = 7
  MaxStart = 15
  Word = 16
  Commands <- AllCommands
  Usual <- UsualCommand
  Kilo = 4
SPECIFICATION MainSpec
INVARIANTS Balanced RunComplete
PROPERTY MainEnds
