SPECIFICATION PartnersFairSpec
CONSTANTS
  Limit = 3
  Period = 3
  Max = 3
  Lag = 1
  Buffer = 4
  Late = 1
  MaxNoise = 3
  Clients = {"c1", "c2"}
  NumBodies = 2
  Patience = 2
  Delay = 4
  Kept = 15
  MaxReplies = 1
  MaxStarts = 2
INVARIANT TypeOK
INVARIANT CountedCommandsWait
INVARIANT InStep
PROPERTY OdometryGoesOn
INVARIANT SteersItself
PROPERTY WaitEnds
CHECK_DEADLOCK FALSE
