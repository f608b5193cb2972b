---------------------------- MODULE RobotControl ----------------------------
(***************************************************************************)
(* The control loop of a robot with its two ways of being told to stop     *)
(* (teamcontrol over AddComUserInterface and the keys of                   *)
(* TerminalUserInterface), the player that follows a joystick while the    *)
(* game is stopped (AddJoystickPlayer), and OmniRobot_Tribot, which turns  *)
(* a drive vector into commands for wheels and kicker.                     *)
(*                                                                         *)
(* One step of the loop is an action: think (world model, player, check    *)
(* of in_game), serve (user interface) and drive.  Time is counted in      *)
(* cycles; a wheel stands for the three.  A referee state is reduced to    *)
(* whether it is stopRobot.  A vector that is not a number becomes the     *)
(* zero vector, which Vectors contains.                                    *)
(***************************************************************************)
EXTENDS Integers

CONSTANTS
  Speeds,        \* speeds a drive vector can ask for
  Acc, Deacc,    \* change of speed the ramp allows in a cycle
  KickCycles,    \* cycles in 100 ms
  PauseCycles,   \* cycles in 400 ms
  StartCycles,   \* cycles in manual_start_sec
  Keys,          \* keys that are pressed
  Digits,        \* digits that are pressed
  Radio,         \* what teamcontrol sends: among "in_game", "refbox", "joystick"
  Pad,           \* is a joystick connected to the robot itself?
  Blocking,      \* blocking_communication
  Fails          \* can a command to the board fail?

ASSUME ControlAssumption ==
  /\ Speeds \subseteq Int /\ 0 \in Speeds
  /\ Acc \in Nat \ {0} /\ Deacc \in Nat \ {0}
  /\ KickCycles \in Nat \ {0} /\ PauseCycles \in Nat \ {0} /\ StartCycles \in Nat
  /\ Keys \subseteq {"space", "a", "g", "t", "q"} /\ Digits \subseteq 1..9
  /\ Radio \subseteq {"in_game", "refbox", "joystick"}
  /\ Pad \in BOOLEAN /\ Blocking \in BOOLEAN /\ Fails \in BOOLEAN

VARIABLES
  at,         \* where the loop is
  inGame,     \* GameState.in_game
  stopped,    \* GameState.refstate = stopRobot
  steps,      \* single_step_mode
  start,      \* wait_for_manual_start and manual_start_timer, in cycles checked
  mail,       \* a RemoteCtr was received in the last cycle
  remote,     \* remoteCtrDrv
  intended,   \* intended_drive_vector
  robot,      \* OmniRobot_Tribot and, in motor and port, what the board was told
  idle,       \* history: cycles since a vector was computed in the game
  single      \* history: iterations owed to a single step nobody interfered with, or -1

vars == <<at, inGame, stopped, steps, start, mail, remote, intended, robot, idle, single>>
game == <<inGame, stopped, steps, start, mail>>

Vector == [v : Speeds, kick : BOOLEAN]
Zero == [v |-> 0, kick |-> FALSE]
None == "none"
Press == {[key |-> k, n |-> 0] : k \in Keys \cup {None}}
           \cup {[key |-> "digit", n |-> d] : d \in Digits}

Abs(x) == IF x < 0 THEN -x ELSE x

ASSUME SpeedAssumption == \E s \in Speeds : \A x \in Speeds : Abs(x) <= Abs(s)

Top == CHOOSE s \in {Abs(x) : x \in Speeds} : \A x \in Speeds : Abs(x) <= s
Upto(n, bound) == IF n < bound THEN n ELSE bound
Long == Top + 2     \* bound: idle counts no further

Init ==
  /\ at = "think"
  /\ inGame = FALSE /\ stopped = TRUE
  /\ steps = 0
  /\ start = [wait |-> FALSE, age |-> 0]
  /\ mail = FALSE /\ remote = Zero /\ intended = Zero
  /\ robot = [last |-> 0, kicking |-> FALSE, kickAge |-> 0, endAge |-> 0,
              motor |-> 0, port |-> FALSE]
  /\ idle = Long
  /\ single = -1
-----------------------------------------------------------------------------
(* mutant: the ramp does not end at new                                    *)
RealizableOvershoots(old, new, dt) ==
  IF new > old THEN old + dt * Deacc ELSE IF new < old THEN old - dt * Deacc ELSE old

(* The speed of the ramp dt cycles after old, on the way to new.           *)
Realizable(old, new, dt) ==
  LET limit == dt * IF (new - old) * old > 0 THEN Acc ELSE Deacc
  IN  IF Abs(new - old) <= limit THEN new
      ELSE IF new > old THEN old + limit ELSE old - limit

(* mutant: the velocity waits for the kick to end                          *)
SpeedSentRarely(kicking, kickCom) == ~kicking /\ ~kickCom

(* Without blocking communication a kick command takes the place of the    *)
(* speed command.                                                          *)
SpeedSent(kicking, kickCom) == Blocking \/ ~kickCom

(* mutant: the kicker is drawn back when the vector says so                *)
DrawsBackOnDemand(rb, age, dv) == rb.kicking /\ age >= KickCycles /\ ~dv.kick

DrawsBack(rb, age, dv) == rb.kicking /\ age >= KickCycles

(* set_drive_vector, dt cycles after the last time; sent and kickSent say  *)
(* whether the board takes the command.                                    *)
Driven(rb, dv, dt, sent, kickSent) ==
  LET kickAge == Upto(rb.kickAge + dt, KickCycles)
      endAge  == Upto(rb.endAge + dt, PauseCycles)
      fires   == ~rb.kicking /\ dv.kick /\ endAge >= PauseCycles
      draws   == DrawsBack(rb, kickAge, dv)
      v       == Realizable(rb.last, dv.v, dt)
  IN  [last |-> v,
       kicking |-> fires \/ (rb.kicking /\ ~draws),
       kickAge |-> IF fires THEN 0 ELSE kickAge,
       endAge |-> IF draws THEN 0 ELSE endAge,
       motor |-> IF sent /\ SpeedSent(rb.kicking, fires \/ draws) THEN v ELSE rb.motor,
       port |-> IF kickSent /\ (fires \/ draws) THEN fires ELSE rb.port]

Success == IF Fails THEN BOOLEAN ELSE {TRUE}
-----------------------------------------------------------------------------
(* getRemoteCtr leaves the old vector if none was received.  What a        *)
(* received one holds is only chosen here, where it is used.               *)
RemoteFetched == IF mail THEN remote' \in Vector ELSE UNCHANGED remote

(* process_drive_vector of AddJoystickPlayer around a player that wishes,  *)
(* in a program with a server for teamcontrol.  If a button of the local   *)
(* joystick has just stopped the robot, wish is the joystick's.            *)
Steered(wish) ==
  IF stopped THEN RemoteFetched /\ intended' = remote'
             ELSE UNCHANGED remote /\ intended' = wish

(* The buttons of the local joystick are looked at while the robot is not  *)
(* stopped.                                                                *)
ButtonsPressed == stopped' \in IF Pad /\ ~stopped THEN BOOLEAN ELSE {stopped}

(* The player is asked in any case; out of the game its vector is dropped. *)
Think ==
  /\ at = "think"
  /\ IF inGame
     THEN \E wish \in Vector : Steered(wish)
     ELSE /\ IF stopped THEN RemoteFetched ELSE UNCHANGED remote
          /\ intended' = Zero
  /\ ButtonsPressed
  /\ idle' = IF inGame THEN 0 ELSE Upto(idle + 1, Long)
  /\ single' = IF single >= 0 /\ inGame THEN single - 1 ELSE single
  /\ at' = "serve"
  /\ UNCHANGED <<inGame, steps, start, mail, robot>>

(* What teamcontrol's messages make of in_game and the referee state.      *)
Told(ig, sig) ==
  [inGame |-> IF ig = None THEN inGame ELSE ig = "yes",
   stopped |-> IF sig = None THEN stopped ELSE sig = "stop"]

(* mutant: the robot is stopped one iteration late                         *)
StepsOverLate(n) == n = 0

StepsOver(n) == n = 1
StartIsDue == start.wait /\ start.age >= StartCycles

(* The game state after the single steps and the clock of the manual       *)
(* start: the clock has the last word.                                     *)
Timed(g) ==
  [g EXCEPT !.inGame = StartIsDue \/ (@ /\ ~StepsOver(steps))]

Pressed(key, g) ==
  CASE key = "space" -> [g EXCEPT !.inGame = FALSE]
    [] key = "a" -> [g EXCEPT !.inGame = TRUE]
    [] key = "g" -> [inGame |-> TRUE, stopped |-> FALSE]
    [] key = "digit" -> [g EXCEPT !.inGame = TRUE]
    [] OTHER -> g

StepsLeft == IF steps > 0 THEN steps - 1 ELSE 0

(* process_messages of AddComUserInterface, then of the terminal.          *)
Serve ==
  /\ at = "serve"
  /\ \E ig \in {None} \cup IF "in_game" \in Radio THEN {"yes", "no"} ELSE {},
        sig \in {None} \cup IF "refbox" \in Radio THEN {"stop", "start"} ELSE {},
        vec \in {FALSE} \cup IF "joystick" \in Radio THEN {TRUE} ELSE {},
        p \in Press :
       LET key == p.key
           g == Pressed(key, Timed(Told(ig, sig)))
       IN  /\ mail' = vec
           /\ inGame' = g.inGame /\ stopped' = g.stopped
           /\ steps' = IF key \in {"space", "a", "g"} THEN 0
                       ELSE IF key = "digit" THEN p.n ELSE StepsLeft
           /\ start' = IF key = "t" THEN [wait |-> TRUE, age |-> 0]
                       ELSE IF start.wait /\ ~StartIsDue
                            THEN [start EXCEPT !.age = @ + 1]
                            ELSE [wait |-> FALSE, age |-> 0]
           /\ at' = IF key = "q" THEN "leave" ELSE "drive"
           /\ single' = IF key = "digit" /\ ~start'.wait THEN p.n
                        ELSE IF key = None /\ ig = None /\ ~start.wait THEN single
                        ELSE -1
  /\ UNCHANGED <<remote, intended, robot, idle>>

Drive ==
  /\ at = "drive"
  /\ \E sent, kickSent \in Success : robot' = Driven(robot, intended, 1, sent, kickSent)
  /\ at' = "think"
  /\ UNCHANGED <<game, remote, intended, idle, single>>

(* The end of loop: emergency_stop, within the cycle.                      *)
Leave ==
  /\ at = "leave"
  /\ \E dt \in 0..1, sent, kickSent \in Success :
       robot' = Driven(robot, Zero, dt, sent, kickSent)
  /\ at' = "destroy"
  /\ UNCHANGED <<game, remote, intended, idle, single>>

(* The destructor of Tmc200 stops the motors, without a ramp.              *)
SwitchedOff(rb, off) == IF off THEN [rb EXCEPT !.motor = 0] ELSE rb

(* The destructors: emergency_stop once more, then that of the board.      *)
Destroy ==
  /\ at = "destroy"
  /\ \E sent, kickSent, off \in Success :
       robot' = SwitchedOff(Driven(robot, Zero, 0, sent, kickSent), off)
  /\ at' = "over"
  /\ UNCHANGED <<game, remote, intended, idle, single>>

Next == Think \/ Serve \/ Drive \/ Leave \/ Destroy

Spec == Init /\ [][Next]_vars
-----------------------------------------------------------------------------
TypeOK ==
  /\ at \in {"think", "serve", "drive", "leave", "destroy", "over"}
  /\ inGame \in BOOLEAN /\ stopped \in BOOLEAN
  /\ steps \in 0..9
  /\ start \in [wait : BOOLEAN, age : 0..StartCycles]
  /\ mail \in BOOLEAN /\ remote \in Vector /\ intended \in Vector
  /\ robot \in [last : -Top..Top, kicking : BOOLEAN, kickAge : 0..KickCycles,
                endAge : 0..PauseCycles, motor : -Top..Top, port : BOOLEAN]
  /\ idle \in 0..Long
  /\ single \in -1..9

(* However fast it was and whatever the kicker does, a robot that has been *)
(* out of the game for n cycles has braked: the ramp is followed, delayed  *)
(* at most by the cycle in which the kicker was drawn back.                *)
BrakesInTime ==
  at \in {"think", "serve"} =>
    LET braked == (IF at = "think" THEN idle ELSE idle - 1) - 1
        speed  == Abs(robot.motor)
    IN  braked > 0 => speed <= IF Top > Deacc * braked THEN Top - Deacc * braked ELSE 0

(* While the loop runs and the board takes every command, a kick is out    *)
(* for KickCycles and no longer, whatever vectors come meanwhile; it is    *)
(* set_drive_vector of a later cycle that has to draw it back.             *)
KickerComesBack == at = "think" /\ robot.port => robot.kickAge < KickCycles

(* A single step of n iterations that nobody interferes with lets the      *)
(* robot take part in exactly n iterations and then stops it.              *)
SingleStepsCount ==
  at = "think" /\ single >= 0 => single = steps /\ (inGame <=> steps > 0)

(* emergency_stop deactivates the kicker, says Robot.h.                    *)
KickerOffAtEnd == at = "over" => ~robot.port
=============================================================================
