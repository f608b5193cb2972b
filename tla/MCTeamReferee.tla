---------------------------- MODULE MCTeamReferee ----------------------------
(***************************************************************************)
(* A small instance of TeamReferee: one robot of each team, three ball     *)
(* positions (on its spot, rolled away, in the own penalty area) and two   *)
(* places of the robot (at the centre and far away).                       *)
(***************************************************************************)
EXTENDS TeamReferee
CONSTANTS c1, m1    \* a robot of the cyan and one of the magenta team
MCTeam == [r \in Robots |-> IF r = c1 THEN 1 ELSE -1]
MCBalls == {0, 900, -5000}
MCPlaces == {0, 5000}
MCNear == {0, 900}
MCHere == {0}
MCPenaltyMarker == -4000
=============================================================================
