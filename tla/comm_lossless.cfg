SPECIFICATION FairSpec
CONSTANTS
  Robot = robot
  Coach = coach
  NoData = none
  Foreign = {"foreign"}
  Data <- MCData
  Size <- MCSize
  Sum <- MCSum
  Slots = 6
  Letters <- LettersPacking
  Tries = 1
  Intros = 0
  HeadSize = 1
  MaxData = 3
  MaxSize = 7
  MaxMesg = 6
  MaxNr <- NrThreeNone
  MaxNet = 1
  Loss = FALSE
  Duplication = FALSE
  Corruption = FALSE
PROPERTY ReliableArrives
PROPERTY DatagramIsFull
PROPERTY NoPriorityInversion
CHECK_DEADLOCK FALSE
