CONSTANTS
  Speeds <- MCSpeeds
  Acc = 1
  Deacc = 2
  KickCycles = 2
  PauseCycles = 2
  StartCycles = 2
  Keys = {"g", "q"}
  Digits = {}
  Radio = {}
  Pad = FALSE
  Blocking = FALSE
  Fails = FALSE
SPECIFICATION Spec
CHECK_DEADLOCK FALSE
INVARIANT KickerOffAtEnd
