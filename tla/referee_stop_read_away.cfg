CONSTANTS
  c1 = c1
  m1 = m1
  ReadLen = 10
  Restarts = {"KickOff"}
  MaxWrites = 3
  Robots = {c1, m1}
  Team <- MCTeam
  Balls <- MCBalls
  Places <- MCPlaces
  PenaltyMarker <- MCPenaltyMarker
  Circle = 1000
  TenSeconds = 2
  Copies = 1
  Loss = FALSE
  Steady = TRUE
  Patient = FALSE
  MaxSent = 3
SPECIFICATION Spec
CHECK_DEADLOCK FALSE
INVARIANT StopLeadsToStop
