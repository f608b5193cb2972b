--------------------------- MODULE MCRobotControl ---------------------------
(***************************************************************************)
(* Small instances of RobotControl: forward, backward and standing still.  *)
(***************************************************************************)
EXTENDS RobotControl

MCSpeeds == {-2, 0, 3}
=============================================================================
