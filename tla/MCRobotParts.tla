---------------------------- MODULE MCRobotParts ----------------------------
(***************************************************************************)
(* Four parts of the program that runs on a robot, each with variables of  *)
(* its own: the control loop, the ramp of the wheel speeds, the short time *)
(* memory of locations and the buffer of the ball filter.  A behaviour is  *)
(* about one of them; the others rest.                                     *)
(***************************************************************************)
EXTENDS MCRobotControl, WheelRamp, LocationMemory, BallFilter

VARIABLE part

MCSpeed == -4..4

Parts == {"control", "ramp", "memory", "ball"}

(* The ramp has a state for each pair of speeds: only its own part starts  *)
(* with all of them.                                                       *)
AtRest == old = [w \in Wheels |-> 0] /\ new = old /\ done = FALSE /\ result = Over(old, 1)

(* latest_error without an initial value is a matter of the ball alone.    *)
PartsInit ==
  /\ part \in Parts
  /\ Init /\ MemoryInit /\ BallInit
  /\ IF part = "ramp" THEN RampInit ELSE AtRest
  /\ part = "ball" \/ ~latestError

PartsNext ==
  \/ part = "control" /\ Next /\ UNCHANGED <<part, rampVars, memoryVars, ballVars>>
  \/ part = "ramp" /\ Ramp /\ UNCHANGED <<part, vars, memoryVars, ballVars>>
  \/ part = "memory" /\ MemoryNext /\ UNCHANGED <<part, vars, rampVars, ballVars>>
  \/ part = "ball" /\ BallNext /\ UNCHANGED <<part, vars, rampVars, memoryVars>>

PartsSpec == PartsInit /\ [][PartsNext]_<<part, vars, rampVars, memoryVars, ballVars>>
=============================================================================
