--------------------------- MODULE MCTeamSettles ---------------------------
(***************************************************************************)
(* The two things on which teamcontrol and the robots come to agree, the   *)
(* sides they play for and their roles, each with its own variables.  A    *)
(* behaviour is about one of them; the other one rests.                    *)
(*                                                                         *)
(* There are two robots and two roles.  The policy is uneven: alone a      *)
(* robot attacks, two share the roles while the team defends and attack    *)
(* together else, so that a row has two equal places and roles of          *)
(* newcomers collide.                                                      *)
(***************************************************************************)
EXTENDS TeamSides, TeamRoles

VARIABLE part

MCRoles == {"defend", "attack"}
MCPolicy ==
  [d \in BOOLEAN |-> [n \in 1..2 |->
     IF n = 1 THEN <<"attack">> ELSE IF d THEN <<"defend", "attack">> ELSE <<"attack", "attack">>]]

TeamInit ==
  /\ part \in {"sides", "roles"}
  /\ Init /\ RolesInit
  /\ part = "roles" \/ \A r \in Robots : role[r] = FirstRole

TeamNext ==
  \/ part = "sides" /\ Next /\ UNCHANGED <<part, rolesVars>>
  \/ part = "roles" /\ RolesNext /\ UNCHANGED <<part, vars>>

TeamSpec == TeamInit /\ [][TeamNext]_<<part, vars, rolesVars>>

(* The part that the behaviour is about is treated fairly.                 *)
TeamFairSpec ==
  /\ TeamSpec
  /\ []<>(part = "roles") \/ Fairness
  /\ []<>(part = "sides") \/ RolesFairness
=============================================================================
