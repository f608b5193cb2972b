CONSTANTS
  Loss = TRUE
  MaxNet = 3
  MaxSwitches = 3
  MaxClicks = 2
  NumRobots = 2
  Roles <- MCRoles
  FirstRole = "attack"
  MaxPlayers = 2
  Policy <- MCPolicy
  Second = 1
  MaxUpsets = 1
SPECIFICATION TeamFairSpec
CHECK_DEADLOCK FALSE
INVARIANT TypeOK
INVARIANT ColorFollowsTeam
INVARIANT RolesTypeOK
PROPERTY PictureComesTrue
PROPERTY RolesSettle
 
