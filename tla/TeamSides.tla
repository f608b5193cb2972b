------------------------------ MODULE TeamSides ------------------------------
(***************************************************************************)
(* How teamcontrol and a robot agree on the half the robot plays for.      *)
(* RemoteRobotWidget knows which half and which colour the Tribots have    *)
(* and whether the robot belongs to them (team).  It sends the robot its   *)
(* half when something changes, once and without a receipt; the robot      *)
(* answers with its half whenever it is asked, which is in every cycle of  *)
(* teamcontrol.  An answer that does not fit makes the widget believe that *)
(* the robot has changed teams.                                            *)
(*                                                                         *)
(* The messages are datagrams: they may be lost and arrive in any order.   *)
(* Of those that arrive in the same cycle the last one counts.             *)
(***************************************************************************)
EXTENDS Integers

CONSTANTS
  Loss,         \* can datagrams be lost?
  MaxNet,       \* bound: datagrams on their way in each direction
  MaxSwitches,  \* bound: changes of half or colour
  MaxClicks     \* bound: changes of the robot's team

ASSUME SidesAssumption ==
  /\ Loss \in BOOLEAN
  /\ MaxNet \in Nat \ {0} /\ MaxSwitches \in Nat /\ MaxClicks \in Nat

VARIABLES
  ownHalf,   \* the robot's own_half: +1 yellow, -1 blue
  team,      \* RemoteRobotState.team
  tribots,   \* RemoteRobotState.tribots_team: [half, color]
  rsm,       \* the team colour set in the widget's RefereeStateMachine
  orders,    \* number of datagrams on their way to the robot, for each half
  answers,   \* the same on the way to teamcontrol
  switches, clicks

vars == <<ownHalf, team, tribots, rsm, orders, answers, switches, clicks>>

Sign == {1, -1}

(* The robot starts with the half of its config file, which the operators  *)
(* keep in step with that of teamcontrol.                                  *)
Init ==
  /\ ownHalf = 1 /\ team = 1
  /\ tribots = [half |-> 1, color |-> 1]
  /\ rsm = 1
  /\ orders = [h \in Sign |-> 0] /\ answers = [h \in Sign |-> 0]
  /\ switches = 0 /\ clicks = 0
-----------------------------------------------------------------------------
(* putOwnHalf without a receipt: a datagram beyond the bound is lost.      *)
Posted(net, half) ==
  IF net[1] + net[-1] < MaxNet THEN [net EXCEPT ![half] = @ + 1] ELSE net

(* What may be left when some datagrams arrive, one with half as the last. *)
Rests(net, half) ==
  {rest \in [Sign -> 0..MaxNet] : /\ \A h \in Sign : rest[h] <= net[h]
                                 /\ rest[half] < net[half]}

(* mutants: the robot's team is forgotten; the colour is cleared until the *)
(* robot answers                                                           *)
ColorAfterCleared(t, old, new) == IF old.color # new.color THEN 0 ELSE rsm
ColorAfterForgetful(t, old, new) == IF old.color # new.color THEN new.color ELSE rsm

(* set_team_color is called with the old colour's opposite.                *)
ColorAfter(t, old, new) == IF old.color # new.color THEN -t * old.color ELSE rsm

(* direction_of_play_changed: half, colour or both of them are new.        *)
DirectionChanges ==
  \E new \in [half : Sign, color : Sign] \ {tribots} :
    /\ switches < MaxSwitches
    /\ switches' = switches + 1
    /\ rsm' = ColorAfter(team, tribots, new)
    /\ tribots' = new
    /\ orders' = Posted(orders, team * new.half)
    /\ UNCHANGED <<ownHalf, team, answers, clicks>>

ChangeTeamClicked ==
  /\ clicks < MaxClicks
  /\ clicks' = clicks + 1
  /\ orders' = Posted(orders, -team * tribots.half)
  /\ UNCHANGED <<ownHalf, team, tribots, rsm, answers, switches>>

(* The key 's' of the robot's own terminal.                                *)
HalfKeyPressed ==
  /\ clicks < MaxClicks
  /\ clicks' = clicks + 1
  /\ ownHalf' = -ownHalf
  /\ UNCHANGED <<team, tribots, rsm, orders, answers, switches>>

(* mutant: the answer is compared with the half of the Tribots             *)
FitsAlways(half) == half = tribots.half

Fits(half) == half = team * tribots.half

(* communicate, when an answer has been received.                          *)
Communicate ==
  /\ \E half \in Sign :
       /\ answers' \in Rests(answers, half)
       /\ team' = IF Fits(half) THEN team ELSE -team
       /\ rsm' = IF Fits(half) THEN rsm ELSE -team * tribots.color
  /\ UNCHANGED <<ownHalf, tribots, orders, switches, clicks>>

(* processRequests, asked or not, answers with the half so far; then       *)
(* receive_all may hear of a new one.                                      *)
RobotCycle(asked, hears) ==
  /\ answers' = IF asked THEN Posted(answers, ownHalf) ELSE answers
  /\ IF hears
     THEN \E half \in Sign : orders' \in Rests(orders, half) /\ ownHalf' = half
     ELSE UNCHANGED <<orders, ownHalf>>
  /\ UNCHANGED <<team, tribots, rsm, switches, clicks>>

Lose ==
  /\ Loss
  /\ \E half \in Sign : \/ orders' \in Rests(orders, half) /\ UNCHANGED answers
                        \/ answers' \in Rests(answers, half) /\ UNCHANGED orders
  /\ UNCHANGED <<ownHalf, team, tribots, rsm, switches, clicks>>

Next ==
  \/ DirectionChanges \/ ChangeTeamClicked \/ HalfKeyPressed
  \/ Communicate
  \/ \E asked, hears \in BOOLEAN : RobotCycle(asked, hears)
  \/ Lose

Spec == Init /\ [][Next]_vars

(* Both programs run on, and of the answers sent again and again some      *)
(* arrive.                                                                 *)
Fairness ==
  /\ WF_vars(\E hears \in BOOLEAN : RobotCycle(TRUE, hears))
  /\ WF_vars(\E asked \in BOOLEAN : RobotCycle(asked, TRUE))
  /\ SF_vars(Communicate)
FairSpec == Spec /\ Fairness
-----------------------------------------------------------------------------
TypeOK ==
  /\ ownHalf \in Sign /\ team \in Sign /\ rsm \in Sign
  /\ tribots \in [half : Sign, color : Sign]
  /\ \A net \in {orders, answers} : net \in [Sign -> 0..MaxNet] /\ net[1] + net[-1] <= MaxNet
  /\ switches \in 0..MaxSwitches /\ clicks \in 0..MaxClicks

(* Signals are translated for the team the widget shows the robot in,      *)
(* however changes of colour, half and team and answers cross each other.  *)
ColorFollowsTeam == rsm = team * tribots.color

(* What the widget shows comes true: when nobody changes anything any      *)
(* more, the robot plays for the half the widget says and the signals are  *)
(* translated for the team of that half.                                   *)
PictureIsTrue ==
  /\ ownHalf = team * tribots.half
  /\ ownHalf * rsm = tribots.half * tribots.color
PictureComesTrue == <>[]PictureIsTrue

(* A robot whose team nobody changes ends up in its team, even if it looks *)
(* different for a while: team is +1 for a robot of the Tribots, says      *)
(* RemoteRobotState.h.                                                     *)
TeamIsKept == MaxClicks = 0 => <>[](team = 1)
=============================================================================
