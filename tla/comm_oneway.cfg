SPECIFICATION Spec
CONSTANTS
  Robot = robot
  Coach = coach
  NoData = none
  Foreign = {"foreign"}
  Data <- MCData
  Size <- MCSize
  Sum <- MCSum
  Slots = 3
  Letters <- LettersOneWay
  Tries = 1
  Intros = 1
  HeadSize = 1
  MaxData = 3
  MaxSize = 7
  MaxMesg = 5
  MaxNr <- NrTwoNone
  MaxNet = 1
  Loss = TRUE
  Duplication = TRUE
  Corruption = TRUE
INVARIANT TypeOK
INVARIANT ReceiptsAreTrue
INVARIANT ReliableNotLost
INVARIANT InboxIsGenuine
CHECK_DEADLOCK FALSE
