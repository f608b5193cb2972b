CONSTANTS
  c1 = c1
  m1 = m1
  ReadLen = 10
  Restarts = {"KickOff"}
  MaxWrites = 2
  Robots = {m1}
  Team <- MCTeam
  Balls <- MCNear
  Places <- MCHere
  PenaltyMarker <- MCPenaltyMarker
  Circle = 1000
  TenSeconds = 2
  Copies = 2
  Loss = TRUE
  Steady = FALSE
  Patient = FALSE
  MaxSent = 2
SPECIFICATION FairSpec
CHECK_DEADLOCK FALSE
PROPERTY RestartEnds
