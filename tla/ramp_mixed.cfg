SPECIFICATION RampSpec
CONSTANTS
  Wheels = {1, 2, 3}
  Speed = {0, 1, 2, 3, 4}
  MaxVel = 3
  MaxAcc = 1
  MaxDeacc = 2
CHECK_DEADLOCK FALSE
INVARIANT MixedBySmallest
