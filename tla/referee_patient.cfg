CONSTANTS
  c1 = c1
  m1 = m1
  ReadLen = 10
  Restarts = {"KickOff", "Penalty"}
  MaxWrites = 4
  Robots = {c1, m1}
  Team <- MCTeam
  Balls <- MCBalls
  Places <- MCPlaces
  PenaltyMarker <- MCPenaltyMarker
  Circle = 1000
  TenSeconds = 2
  Copies = 2
  Loss = FALSE
  Steady = TRUE
  Patient = TRUE
  MaxSent = 4
SPECIFICATION Spec
CHECK_DEADLOCK FALSE
INVARIANT TypeOK
INVARIANT Agreement
INVARIANT GoalsAreCounted
PROPERTY AsDrawn
