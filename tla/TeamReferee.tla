----------------------------- MODULE TeamReferee -----------------------------
(***************************************************************************)
(* A signal's way from the referee box to the robots of both teams that    *)
(* one teamcontrol serves: RefboxClient hears it, TeamControlWidget        *)
(* updates its own RefereeStateMachine and hands it to the widget of every *)
(* robot, which translates it for the robot's team and sends it as a       *)
(* reliable message; AddComUserInterface passes it to the robot's          *)
(* GameStateManager.  Between signals GameStateManager follows the ball    *)
(* and the clock in every cycle.                                           *)
(*                                                                         *)
(* The message buffers appear as Link promises them: a message arrives at  *)
(* least once if none is lost, perhaps in several copies, in any order.    *)
(* The field is reduced to its long axis: positions are y coordinates.     *)
(***************************************************************************)
EXTENDS RefboxClient, Integers

CONSTANTS
  Robots,         \* the robots
  Team,           \* the label of each: +1 cyan, -1 magenta
  Balls, Places,  \* ball and robot positions, in mm
  PenaltyMarker,  \* penalty_marker_y
  Circle,         \* center_circle_radius
  TenSeconds,     \* cycles in 10 seconds
  Copies,         \* how often a signal may be received
  Loss,           \* can a signal's tries all be lost?
  Steady,         \* does the connection to the box hold?
  Patient,        \* does the box wait until a signal has reached everybody?
  MaxSent         \* bound: signals teamcontrol sends each robot

ASSUME TeamAssumption ==
  /\ Team \in [Robots -> {1, -1}]
  /\ Balls \subseteq Int /\ Places \subseteq Int
  /\ PenaltyMarker \in Int /\ Circle \in Nat
  /\ TenSeconds \in Nat \ {0} /\ Copies \in Nat \ {0}
  /\ Loss \in BOOLEAN /\ Steady \in BOOLEAN /\ Patient \in BOOLEAN
  /\ MaxSent \in Nat

VARIABLES
  coach,    \* teamcontrol's refstate_machine: [state, age]
  sent,     \* number of signals teamcontrol has sent each robot
  link,     \* signals on their way to each robot
  game      \* GameStateManager of each robot and its RefereeStateMachine

vars == <<phase, written, goals, open, pipe, connected, latest, coach, sent, link, game>>

Message == [nr : Nat, sig : Signal, copies : Nat]
Game == [state : RefereeState, age : 0..TenSeconds, ball : Int, known : BOOLEAN,
         own : Nat, opponent : Nat]

Init ==
  /\ ClientInit
  /\ coach = [state |-> stopRobot, age |-> 0]
  /\ sent = [r \in Robots |-> 0]
  /\ link = [r \in Robots |-> {}]
  /\ game = [r \in Robots |-> [state |-> stopRobot, age |-> 0, ball |-> 0, known |-> FALSE,
                               own |-> 0, opponent |-> 0]]
-----------------------------------------------------------------------------
Abs(x) == IF x < 0 THEN -x ELSE x

(* The clock (latest_update) counts cycles up to ten seconds.              *)
Older(age) == IF age < TenSeconds THEN age + 1 ELSE age

Clocked(s, age, sig) == IF Acts(s, sig) THEN 0 ELSE age

(* mutants: no rule of ten seconds; also for the penalty                   *)
TimedOutNever(s, age) == FALSE
TimedOutPenalty(s, age) == s \in PostStates /\ age >= TenSeconds

TimedOut(s, age) == s \in PostStates \ {Post("Penalty")} /\ age >= TenSeconds

(* The ball is known before and now, and has moved.                        *)
Moved(g, ball, known, place) ==
  /\ g.known /\ known
  /\ \/ Abs(g.ball - ball) > 500 /\ Abs(place - ball) < 2500
     \/ Abs(g.ball - ball) > 1000

LeavesCircle(ball, known, place) ==
  /\ known
  /\ \/ 10 * Abs(ball) > 7 * Circle /\ Abs(place) < 2500
     \/ 10 * Abs(ball) > 12 * Circle

(* The cyclic update of RefereeStateMachine: its rules one after another.  *)
Followed(g, ball, known, place) ==
  LET age == Older(g.age)
      timed == IF TimedOut(g.state, age) THEN freePlay ELSE g.state
      moved == IF timed \in PostStates /\ Moved(g, ball, known, place)
               THEN IF timed = Post("Penalty") THEN Penalty("opponent") ELSE freePlay
               ELSE timed
      shot == IF moved = Post("Penalty") /\ known /\ ball < PenaltyMarker - 500
              THEN Penalty("opponent") ELSE moved
      left == IF shot = Post("KickOff") /\ LeavesCircle(ball, known, place)
              THEN freePlay ELSE shot
  IN  [g EXCEPT !.state = left, !.age = IF moved # g.state THEN 0 ELSE age]

(* GameStateManager::update with a signal.                                 *)
Refereed(g, sig, ball, known) ==
  LET noted == sig = Ready /\ g.state \in PreStates /\ g.state[2] = "opponent"
  IN  [state |-> After(g.state, sig),
       age |-> Clocked(g.state, g.age, sig),
       ball |-> IF noted THEN ball ELSE g.ball,
       known |-> IF noted THEN known ELSE g.known,
       own |-> IF sig = <<"own", "GoalScored">> THEN g.own + 1 ELSE g.own,
       opponent |-> IF sig = <<"opponent", "GoalScored">> THEN g.opponent + 1
                                                          ELSE g.opponent]

(* TeamControlWidget::refboxSignal: the own state machine is updated with  *)
(* the signal (as that of the cyan team) and then as in every cycle, here  *)
(* without a ball; SIGnop is not passed on.                                *)
Coached(c, sig) ==
  LET own == Translated(1, sig)
      age == Older(Clocked(c.state, c.age, own))
      s   == After(c.state, own)
  IN  IF TimedOut(s, age) THEN [state |-> freePlay, age |-> 0] ELSE [state |-> s, age |-> age]

(* RemoteRobotWidget::refboxSignal                                         *)
PassedOn(sig) ==
  IF sig = Nop THEN UNCHANGED <<sent, link>>
  ELSE /\ \A r \in Robots : sent[r] < MaxSent
       /\ sent' = [r \in Robots |-> sent[r] + 1]
       /\ link' = [r \in Robots |-> link[r] \cup
            {[nr |-> sent[r], sig |-> Translated(Team[r], sig), copies |-> Copies]}]
-----------------------------------------------------------------------------
Quiet == pipe = <<>> /\ \A r \in Robots : link[r] = {}

BoxStep ==
  /\ Patient => Quiet
  /\ \/ BoxWrites
     \/ ~Steady /\ BoxCloses
  /\ UNCHANGED <<coach, sent, link, game>>

(* cycle_task: listen and refboxSignal.                                    *)
CoachCycle ==
  /\ \E sig \in Signal : /\ Listen(sig)
                         /\ coach' = Coached(coach, sig)
                         /\ PassedOn(sig)
  /\ UNCHANGED game

Reconnect ==
  /\ ~Steady
  /\ Connect \/ Disconnect
  /\ UNCHANGED <<coach, sent, link, game>>

(* WorldModel update in a cycle of the robot, with what it sees.           *)
RobotLooks(r) ==
  /\ \E ball \in Balls, known \in BOOLEAN, place \in Places :
       game' = [game EXCEPT ![r] = Followed(@, ball, known, place)]
  /\ UNCHANGED <<phase, written, goals, open, pipe, connected, latest, coach, sent, link>>

(* mutant: the tries of a signal are not looked at                         *)
LeftForEver(S, K) == {[m EXCEPT !.copies = @ - 1] : m \in K}

(* What stays on its way of the arrived signals S: of those in K a further *)
(* copy will come, the sender not having seen the receipt.                 *)
Left(S, K) == {[m EXCEPT !.copies = @ - 1] : m \in {k \in K : k.copies > 1}}

(* receive_all and update_refbox: of the signals that arrive in one cycle  *)
(* getRefboxSignal returns the first.                                      *)
RobotReceives(r) ==
  /\ \E S \in SUBSET link[r] \ {{}} :
       /\ \E m \in S, ball \in Balls, known \in BOOLEAN :
            game' = [game EXCEPT ![r] = Refereed(@, m.sig, ball, known)]
       /\ \E K \in SUBSET S : link' = [link EXCEPT ![r] = (@ \ S) \cup Left(S, K)]
  /\ UNCHANGED <<phase, written, goals, open, pipe, connected, latest, coach, sent>>

LinkLoses(r) ==
  /\ Loss
  /\ \E m \in link[r] : link' = [link EXCEPT ![r] = @ \ {m}]
  /\ UNCHANGED <<phase, written, goals, open, pipe, connected, latest, coach, sent, game>>

Next ==
  \/ BoxStep
  \/ CoachCycle
  \/ Reconnect
  \/ \E r \in Robots : RobotLooks(r) \/ RobotReceives(r) \/ LinkLoses(r)

Spec == Init /\ [][Next]_vars

(* Every program runs its cycle again and again.  Nothing is assumed of    *)
(* what a robot sees: only while its clock runs does every cycle change    *)
(* something.                                                              *)
FairSpec ==
  /\ Spec
  /\ WF_vars(CoachCycle)
  /\ \A r \in Robots : /\ WF_vars(game[r].age < TenSeconds /\ RobotLooks(r))
                     /\ WF_vars(RobotReceives(r))
-----------------------------------------------------------------------------
TypeOK ==
  /\ phase \in Phase /\ written \in 0..MaxWrites
  /\ goals \in [Color -> 0..MaxWrites]
  /\ open \in BOOLEAN /\ connected \in BOOLEAN
  /\ pipe \in Seq(Char) /\ latest \in Signal
  /\ coach \in [state : RefereeState, age : 0..TenSeconds]
  /\ sent \in [Robots -> Nat]
  /\ \A r \in Robots : link[r] \subseteq Message
  /\ game \in [Robots -> Game]

(* The states a team with this label may be in while the box is in phase.  *)
(* A restart of the opponent may be over: the team sees the ball move or   *)
(* waits for ten seconds.                                                  *)
Expected(team) ==
  LET side == IF phase[2] = OwnColor(team) THEN "own" ELSE "opponent"
  IN  CASE phase[1] = "stop" -> {stopRobot}
        [] phase[1] = "play" -> {freePlay}
        [] phase[1] = "pre" -> {Pre(side, phase[3])}
        [] phase[1] = "ready" ->
             {AfterReady(Pre(side, phase[3]))} \cup
             IF side = "own" THEN {}
             ELSE IF phase[3] = "Penalty" THEN {Penalty("opponent")} ELSE {freePlay}

(* When nothing is on its way, teamcontrol and the robots of both teams    *)
(* are in the phase the referee box is in, each seen from its own side,    *)
(* whatever they have seen of the ball and however often a signal came.    *)
Agreement ==
  Quiet => /\ coach.state \in Expected(1)
           /\ \A r \in Robots : game[r].state \in Expected(Team[r])

(* The transitions of the state diagram (referee_states.fig).              *)
DrawnFrom(s) ==
  {stopRobot} \cup
  CASE s = stopRobot -> PreStates \cup {freePlay}
    [] s \in PreStates -> {AfterReady(s)}
    [] s = Post("Penalty") -> {Penalty("opponent")}
    [] s \in PostStates \ {Post("Penalty")} -> {freePlay}
    [] OTHER -> {}

(* A robot moves from phase to phase along the diagram only: WorldModel.tex*)
(* says that all transitions that occur in a match are in it.              *)
AsDrawn == [][\A r \in Robots : game'[r].state # game[r].state
                                  => game'[r].state \in DrawnFrom(game[r].state)]_vars

(* When nothing is on its way, every robot has counted the goals of both   *)
(* teams, each on its own side, in whatever state and order it heard of    *)
(* them; and it never counts a goal more often than its signal has been    *)
(* received, or one that was not given.                                    *)
GoalsAreCounted ==
  \A r \in Robots, c \in Color :
    LET counted == IF c = OwnColor(Team[r]) THEN game[r].own ELSE game[r].opponent
    IN  /\ Quiet => goals[c] <= counted
        /\ counted <= Copies * goals[c]

(* A robot waits behind the opponent's restart (the penalty apart) for ten *)
(* seconds at most, even if it never sees the ball.                        *)
RestartEnds ==
  \A r \in Robots, k \in Restarts \ {"Penalty"} :
    game[r].state = Post(k) ~> game[r].state # Post(k)

(* Stop leads into stopRobot from every state, as the diagram says: when   *)
(* nothing is on its way and the box's last word was stop or halt, all     *)
(* stand still.                                                            *)
StopLeadsToStop ==
  Quiet /\ phase[1] = "stop" =>
    coach.state = stopRobot /\ \A r \in Robots : game[r].state = stopRobot
=============================================================================
