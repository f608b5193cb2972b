---------------------------- MODULE RefereeStates ----------------------------
(***************************************************************************)
(* The transition graph of RefereeStateMachine, without its data: the      *)
(* phases of a match, the signals of the referee box and what a signal     *)
(* does to a phase.  A phase that concerns a restart is a triple           *)
(* <<stage, side, restart>>, so preOwnKickOff is <<"pre", "own",           *)
(* "KickOff">>; a signal is a pair, so SIGcyanKickOff is <<"cyan",         *)
(* "KickOff">> and SIGstop is <<"any", "stop">>.                           *)
(***************************************************************************)
EXTENDS Naturals

Side == {"own", "opponent"}
Color == {"cyan", "magenta"}
Restart == {"KickOff", "FreeKick", "GoalKick", "CornerKick", "ThrowIn", "Penalty"}

stopRobot == <<"stopRobot", "any", "any">>
freePlay == <<"freePlay", "any", "any">>
Pre(side, r) == <<"pre", side, r>>
Post(r) == <<"post", "opponent", r>>
Penalty(side) == <<"penalty", side, "Penalty">>

PreStates == {Pre(side, r) : side \in Side, r \in Restart}
PostStates == {Post(r) : r \in Restart}

(* errorState is left out: no signal leads to it.                          *)
RefereeState ==
  {stopRobot, freePlay} \cup PreStates \cup PostStates \cup {Penalty(side) : side \in Side}

General == {<<"any", s>> : s \in {"nop", "stop", "halt", "start", "ready"}}
Coloured == Color \X (Restart \cup {"GoalScored"})
Sided == Side \X (Restart \cup {"GoalScored"})
Signal == General \cup Coloured \cup Sided

(* The team of the cyan label (+1) calls a signal for cyan its own.        *)
OwnColor(team) == IF team > 0 THEN "cyan" ELSE "magenta"

(* mutant: the goals are not translated                                    *)
TranslatedWithoutGoals(team, sig) ==
  IF sig[1] \in Color /\ sig[2] \in Restart
  THEN <<IF sig[1] = OwnColor(team) THEN "own" ELSE "opponent", sig[2]>>
  ELSE sig

Translated(team, sig) ==
  IF sig[1] \in Color
  THEN <<IF sig[1] = OwnColor(team) THEN "own" ELSE "opponent", sig[2]>>
  ELSE sig

(* The states SIGready leads on from, and where to; update leaves any      *)
(* other state, and its clock, alone.                                      *)
AfterReady(s) ==
  IF s[2] = "opponent" THEN Post(s[3])
  ELSE IF s[3] = "Penalty" THEN Penalty("own") ELSE freePlay

(* The signals update acts on: it enters their state, perhaps once more,   *)
(* and restarts its clock.  Goals and SIGnop are none of them.             *)
Acts(s, sig) ==
  \/ sig \in {<<"any", "stop">>, <<"any", "halt">>, <<"any", "start">>}
  \/ sig = <<"any", "ready">> /\ s \in PreStates
  \/ sig \in Side \X Restart

(* The state the translated signal sig leads to from state s.              *)
After(s, sig) ==
  CASE sig \in {<<"any", "stop">>, <<"any", "halt">>} -> stopRobot
    [] sig = <<"any", "start">> -> freePlay
    [] sig = <<"any", "ready">> /\ s \in PreStates -> AfterReady(s)
    [] sig \in Side \X Restart -> Pre(sig[1], sig[2])
    [] OTHER -> s
=============================================================================
