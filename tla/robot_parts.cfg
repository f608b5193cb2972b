CONSTANTS
  Speeds <- MCSpeeds
  Acc = 1
  Deacc = 2
  KickCycles = 2
  PauseCycles = 2
  StartCycles = 2
  Keys = {"space", "g", "t", "q"}
  Digits = {2}
  Radio = {"in_game", "refbox", "joystick"}
  Pad = TRUE
  Blocking = FALSE
  Fails = FALSE
  Wheels = {1, 2, 3}
  Speed <- MCSpeed
  MaxVel = 3
  MaxAcc = 1
  MaxDeacc = 2
  Num = 4
  Slots = 4
  MaxCycles = 2
  MaxGiven = 4
  FirstNodes = 5
  MinBuffer = 3
  MaxBuffer = 4
SPECIFICATION PartsSpec
CHECK_DEADLOCK FALSE
INVARIANT TypeOK
INVARIANT BrakesInTime
INVARIANT KickerComesBack
INVARIANT SingleStepsCount
INVARIANT WithinLimits
INVARIANT KeepsThePath
INVARIANT SameAnswer
INVARIANT StartsFromImage
INVARIANT OldOnlyIfAskedBefore
INVARIANT BufferIsLatest
INVARIANT CalmBallIsKnown
PROPERTY RaisedNeedsObservations
