SPECIFICATION RunningSpec
CONSTANTS
  Robot = robot
  Coach = coach
  NoData = none
  Foreign = {"foreign"}
  Data <- MCData
  Size <- MCSize
  Sum <- MCSum
  Slots = 2
  Letters <- LettersTwoWay
  Tries = 1
  Intros = 0
  HeadSize = 1
  MaxData = 3
  MaxSize = 7
  MaxMesg = 5
  MaxNr <- NrOneOne
  MaxNet = 2
  Loss = TRUE
  Duplication = TRUE
  Corruption = TRUE
PROPERTY KeepsThePromise
PROPERTY SlotsAreReleased
INVARIANT ReceiptsAreTrue
CHECK_DEADLOCK FALSE
