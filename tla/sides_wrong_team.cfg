CONSTANTS
  Loss = FALSE
  MaxNet = 2
  MaxSwitches = 2
  MaxClicks = 0
SPECIFICATION FairSpec
CHECK_DEADLOCK FALSE
PROPERTY TeamIsKept
