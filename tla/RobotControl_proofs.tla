------------------------- MODULE RobotControl_proofs -------------------------
(***************************************************************************)
(* Single steps are counted exactly, whatever the speeds, the ramp, the    *)
(* kicker and teamcontrol's other messages are.                            *)
(***************************************************************************)
EXTENDS RobotControl, TLAPS

(* Between the decision of this iteration and the user interface, one      *)
(* iteration less is owed than single_step_mode says.                      *)
Owed == IF at = "serve" /\ steps > 0 THEN steps - 1 ELSE steps

Counted == single >= 0 => single = Owed /\ (inGame <=> steps > 0)

StepsInv ==
  /\ steps \in 0..9 /\ single \in -1..9
  /\ inGame \in BOOLEAN
  /\ Counted

(* An iteration in the game pays one of those owed.                        *)
LEMMA ThinkCounts == StepsInv /\ Think => StepsInv'
<1> SUFFICES ASSUME StepsInv, Think PROVE StepsInv'
  OBVIOUS
<1> USE DEF StepsInv, Counted, Owed
<1>1. at = "think" /\ at' = "serve" /\ steps' = steps /\ inGame' = inGame
  BY DEF Think, game
<1>2. single' = IF single >= 0 /\ inGame THEN single - 1 ELSE single
  BY DEF Think
<1>3. CASE single >= 0 /\ inGame
  BY <1>1, <1>2, <1>3
<1>4. CASE ~(single >= 0 /\ inGame)
  BY <1>1, <1>2, <1>4
<1> QED BY <1>3, <1>4

(* Without a key, a message about in_game and a manual start the clock of  *)
(* single steps decides alone.                                             *)
LEMMA TimedAlone ==
  ASSUME inGame \in BOOLEAN, ~start.wait, NEW sig
  PROVE  Pressed(None, Timed(Told(None, sig))).inGame = (inGame /\ steps # 1)
<1> DEFINE g == Told(None, sig)
<1>1. Timed(g).inGame = (inGame /\ steps # 1)
  BY Zenon DEF Timed, Told, StartIsDue, StepsOver
<1>2. None # "space" /\ None # "a" /\ None # "g" /\ None # "digit"
  BY DEF None
<1> HIDE DEF g
<1>3. Pressed(None, Timed(g)) = Timed(g)
  BY <1>2 DEF Pressed
<1> QED BY <1>1, <1>3 DEF g

(* The digit of a single step puts the robot into the game.                *)
LEMMA DigitStarts ==
  ASSUME NEW ig, NEW sig
  PROVE  Pressed("digit", Timed(Told(ig, sig))).inGame = TRUE
BY DEF Pressed, Timed, Told

(* A key changes in_game to a truth value, whatever teamcontrol sent.      *)
LEMMA PressedType ==
  ASSUME inGame \in BOOLEAN, NEW ig, NEW sig, NEW key
  PROVE  Pressed(key, Timed(Told(ig, sig))).inGame \in BOOLEAN
<1> DEFINE g == Timed(Told(ig, sig))
<1>1. DOMAIN g = {"inGame", "stopped"} /\ g.inGame \in BOOLEAN
  BY DEF Timed, Told
<1> HIDE DEF g
<1>2. Pressed(key, g).inGame \in BOOLEAN
  BY <1>1 DEF Pressed
<1> QED BY <1>2 DEF g

(* The user interface: a digit starts to count, anything that interferes   *)
(* ends it.                                                                *)
LEMMA ServeCounts == StepsInv /\ Serve => StepsInv'
<1> SUFFICES ASSUME StepsInv, Serve PROVE StepsInv'
  OBVIOUS
<1> USE DEF StepsInv
<1>1. PICK ig \in {None} \cup (IF "in_game" \in Radio THEN {"yes", "no"} ELSE {}),
           sig \in {None} \cup (IF "refbox" \in Radio THEN {"stop", "start"} ELSE {}),
           p \in Press :
        /\ inGame' = Pressed(p.key, Timed(Told(ig, sig))).inGame
        /\ steps' = IF p.key \in {"space", "a", "g"} THEN 0
                    ELSE IF p.key = "digit" THEN p.n ELSE StepsLeft
        /\ at' = IF p.key = "q" THEN "leave" ELSE "drive"
        /\ single' = IF p.key = "digit" /\ ~start'.wait THEN p.n
                     ELSE IF p.key = None /\ ig = None /\ ~start.wait THEN single
                     ELSE -1
  BY Zenon DEF Serve
<1>2. p.key = "digit" => p.n \in 1..9
  BY ControlAssumption DEF Press, None
<1>3. StepsLeft \in 0..9 /\ (steps > 0 => StepsLeft = steps - 1) /\ (steps = 0 => StepsLeft = 0)
  BY DEF StepsLeft
<1>4. steps' \in 0..9 /\ single' \in -1..9 /\ inGame' \in BOOLEAN /\ at' # "serve"
  BY <1>1, <1>2, <1>3, PressedType
<1>5. CASE p.key = "digit" /\ ~start'.wait
  <2>1. single' = p.n /\ steps' = p.n /\ inGame' = TRUE
    BY <1>1, <1>5, DigitStarts
  <2> QED BY <1>2, <1>4, <1>5, <2>1 DEF Counted, Owed
<1>6. CASE p.key = None /\ ig = None /\ ~start.wait
  <2>1. inGame' = (inGame /\ steps # 1)
    BY <1>1, <1>6, TimedAlone
  <2>2. single' = single /\ steps' = StepsLeft
    BY <1>1, <1>6 DEF None
  <2>3. at = "serve"
    BY DEF Serve
  <2>4. single >= 0 => single = StepsLeft
    BY <1>3, <2>3 DEF Counted, Owed
  <2>5. (steps > 0 /\ steps # 1) <=> StepsLeft > 0
    BY <1>3
  <2>6. single >= 0 => (inGame' <=> StepsLeft > 0)
    BY <2>1, <2>5, Zenon DEF Counted
  <2> QED BY <1>4, <2>2, <2>4, <2>6 DEF Counted, Owed
<1>7. CASE /\ ~(p.key = "digit" /\ ~start'.wait)
           /\ ~(p.key = None /\ ig = None /\ ~start.wait)
  BY <1>1, <1>4, <1>7 DEF Counted
<1> QED BY <1>5, <1>6, <1>7

(* A single step of n iterations that nobody interferes with lets the      *)
(* robot take part in n iterations of the control loop and then stops it.  *)
THEOREM SingleSteps == Spec => []SingleStepsCount
<1>1. Init => StepsInv
  <2> SUFFICES ASSUME Init PROVE StepsInv
    OBVIOUS
  <2>1. inGame \in BOOLEAN
    BY Zenon DEF Init
  <2>2. steps = 0 /\ single = -1
    BY DEF Init
  <2> QED BY <2>1, <2>2 DEF StepsInv, Counted
<1>2. StepsInv /\ [Next]_vars => StepsInv'
  <2> SUFFICES ASSUME StepsInv, [Next]_vars PROVE StepsInv'
    OBVIOUS
  <2>1. CASE Think
    BY <2>1, ThinkCounts
  <2>2. CASE Serve
    BY <2>2, ServeCounts
  <2>3. CASE Drive
    BY <2>3 DEF Drive, StepsInv, Counted, Owed, game
  <2>4. CASE Leave
    BY <2>4 DEF Leave, StepsInv, Counted, Owed, game
  <2>5. CASE Destroy
    BY <2>5 DEF Destroy, StepsInv, Counted, Owed, game
  <2>6. CASE UNCHANGED vars
    BY <2>6 DEF vars, StepsInv, Counted, Owed
  <2> QED BY <2>1, <2>2, <2>3, <2>4, <2>5, <2>6 DEF Next
<1>3. StepsInv => SingleStepsCount
  BY DEF StepsInv, Counted, Owed, SingleStepsCount
<1> QED BY <1>1, <1>2, <1>3, PTL DEF Spec
-----------------------------------------------------------------------------
Speed == -Top .. Top
RobotType ==
  [last : Speed, kicking : BOOLEAN, kickAge : 0..KickCycles, endAge : 0..PauseCycles,
   motor : Speed, port : BOOLEAN]

LEMMA TopIsLargest == Top \in Nat /\ Speeds \subseteq Speed /\ 0 \in Speed
<1>1. PICK s \in Speeds : \A x \in Speeds : Abs(x) <= Abs(s)
  BY SpeedAssumption
<1>2. Abs(s) \in {Abs(x) : x \in Speeds}
  OBVIOUS
<1>3. Top \in {Abs(x) : x \in Speeds} /\ \A x \in Speeds : Abs(x) <= Top
  BY <1>1, <1>2 DEF Top
<1>4. Top \in Nat
  BY <1>3, ControlAssumption DEF Abs
<1> QED
  BY <1>3, <1>4, ControlAssumption DEF Abs, Speed

(* The ramp does not leave the speeds that can be asked for.               *)
LEMMA RampStays ==
  ASSUME NEW old \in Speed, NEW new \in Speed, NEW dt \in 0..1
  PROVE  Realizable(old, new, dt) \in Speed
<1> DEFINE limit == dt * (IF (new - old) * old > 0 THEN Acc ELSE Deacc)
<1>1. limit \in Nat
  <2>1. (IF (new - old) * old > 0 THEN Acc ELSE Deacc) \in Nat
    BY ControlAssumption
  <2> QED
    BY <2>1
<1>2. Realizable(old, new, dt) = IF Abs(new - old) <= limit THEN new
                                 ELSE IF new > old THEN old + limit ELSE old - limit
  BY DEF Realizable
<1> HIDE DEF limit
<1> QED
  BY <1>1, <1>2, TopIsLargest DEF Abs, Speed

LEMMA DrivenType ==
  ASSUME NEW rb \in RobotType, NEW dv \in Vector, NEW dt \in 0..1,
         NEW sent \in BOOLEAN, NEW kickSent \in BOOLEAN
  PROVE  Driven(rb, dv, dt, sent, kickSent) \in RobotType
<1> DEFINE v == Realizable(rb.last, dv.v, dt)
<1>1. v \in Speed
  <2>1. rb.last \in Speed /\ dv.v \in Speed
    BY TopIsLargest DEF RobotType, Vector
  <2> QED
    BY <2>1, RampStays
<1>2. Upto(rb.kickAge + dt, KickCycles) \in 0..KickCycles /\ Upto(rb.endAge + dt, PauseCycles) \in 0..PauseCycles
  BY ControlAssumption DEF Upto, RobotType
<1>3. 0 \in 0..KickCycles /\ 0 \in 0..PauseCycles
  BY ControlAssumption
<1> HIDE DEF v
<1> QED
  BY <1>1, <1>2, <1>3 DEF Driven, RobotType, DrawsBack, SpeedSent, v

LEMMA ThinkType == TypeOK /\ Think => TypeOK'
<1> SUFFICES ASSUME TypeOK, Think PROVE TypeOK'
  OBVIOUS
<1>1. Zero \in Vector
  BY ControlAssumption DEF Zero, Vector
<1>2. remote' \in Vector /\ intended' \in Vector
  BY <1>1 DEF Think, Steered, RemoteFetched, TypeOK
<1>3. idle' \in 0..Long /\ single' \in -1..9
  BY TopIsLargest DEF Think, TypeOK, Upto, Long
<1>4. stopped' \in BOOLEAN
  BY DEF Think, ButtonsPressed, TypeOK
<1> QED
  BY <1>2, <1>3, <1>4 DEF Think, TypeOK

LEMMA GameType ==
  ASSUME TypeOK, NEW ig, NEW sig, NEW key
  PROVE  /\ Pressed(key, Timed(Told(ig, sig))).inGame \in BOOLEAN
         /\ Pressed(key, Timed(Told(ig, sig))).stopped \in BOOLEAN
<1> DEFINE g == Timed(Told(ig, sig))
<1>1. g.stopped \in BOOLEAN
  BY Zenon DEF Timed, Told, TypeOK
<1>2. DOMAIN g = {"inGame", "stopped"}
  BY DEF Timed, Told
<1> HIDE DEF g
<1>3. Pressed(key, g).stopped \in BOOLEAN
  BY <1>1, <1>2 DEF Pressed
<1>4. Pressed(key, Timed(Told(ig, sig))).inGame \in BOOLEAN
  BY PressedType DEF TypeOK
<1> QED
  BY <1>3, <1>4 DEF g

LEMMA ServeType == TypeOK /\ Serve => TypeOK'
<1> SUFFICES ASSUME TypeOK, Serve PROVE TypeOK'
  OBVIOUS
<1>1. PICK ig \in {None} \cup (IF "in_game" \in Radio THEN {"yes", "no"} ELSE {}),
           sig \in {None} \cup (IF "refbox" \in Radio THEN {"stop", "start"} ELSE {}),
           p \in Press :
        /\ inGame' = Pressed(p.key, Timed(Told(ig, sig))).inGame
        /\ stopped' = Pressed(p.key, Timed(Told(ig, sig))).stopped
        /\ steps' = IF p.key \in {"space", "a", "g"} THEN 0
                    ELSE IF p.key = "digit" THEN p.n ELSE StepsLeft
        /\ start' = IF p.key = "t" THEN [wait |-> TRUE, age |-> 0]
                    ELSE IF start.wait /\ ~StartIsDue
                         THEN [start EXCEPT !.age = @ + 1]
                         ELSE [wait |-> FALSE, age |-> 0]
        /\ at' = IF p.key = "q" THEN "leave" ELSE "drive"
        /\ single' = IF p.key = "digit" /\ ~start'.wait THEN p.n
                     ELSE IF p.key = None /\ ig = None /\ ~start.wait THEN single
                     ELSE -1
  BY Zenon DEF Serve
<1>2. p.key = "digit" => p.n \in 1..9
  BY ControlAssumption DEF Press, None
<1>3. inGame' \in BOOLEAN /\ stopped' \in BOOLEAN
  BY <1>1, GameType
<1>4. steps' \in 0..9 /\ single' \in -1..9
  BY <1>1, <1>2 DEF StepsLeft, TypeOK
<1>5. start' \in [wait : BOOLEAN, age : 0..StartCycles]
  <2>1. start \in [wait : BOOLEAN, age : 0..StartCycles] /\ 0 \in 0..StartCycles
    BY ControlAssumption DEF TypeOK
  <2>2. start.wait /\ ~StartIsDue => start.age + 1 \in 0..StartCycles
    BY <2>1, ControlAssumption DEF StartIsDue
  <2> QED
    BY <1>1, <2>1, <2>2
<1>6. mail' \in BOOLEAN
  BY DEF Serve
<1> QED
  BY <1>1, <1>3, <1>4, <1>5, <1>6 DEF Serve, TypeOK

(* Whoever calls set_drive_vector, the robot keeps its type.               *)
LEMMA RobotKept ==
  ASSUME TypeOK, Drive \/ Leave \/ Destroy
  PROVE  robot' \in RobotType
<1>1. robot \in RobotType /\ intended \in Vector /\ Zero \in Vector
  BY ControlAssumption DEF TypeOK, RobotType, Speed, Zero, Vector
<1>2. Success \subseteq BOOLEAN
  BY DEF Success
<1>3. CASE Drive
  <2>1. PICK sent \in Success, kickSent \in Success : robot' = Driven(robot, intended, 1, sent, kickSent)
    BY <1>3 DEF Drive
  <2> QED
    BY <1>1, <1>2, <2>1, DrivenType
<1>4. CASE Leave
  <2>1. PICK dt \in 0..1, sent \in Success, kickSent \in Success :
          robot' = Driven(robot, Zero, dt, sent, kickSent)
    BY <1>4 DEF Leave
  <2> QED
    BY <1>1, <1>2, <2>1, DrivenType
<1>5. CASE Destroy
  <2>1. PICK sent \in Success, kickSent \in Success, off \in Success :
          robot' = IF off THEN [Driven(robot, Zero, 0, sent, kickSent) EXCEPT !.motor = 0]
                   ELSE Driven(robot, Zero, 0, sent, kickSent)
    BY <1>5 DEF Destroy, SwitchedOff
  <2>2. Driven(robot, Zero, 0, sent, kickSent) \in RobotType
    BY <1>1, <1>2, DrivenType
  <2> QED
    BY <2>1, <2>2, TopIsLargest DEF RobotType
<1> QED
  BY <1>3, <1>4, <1>5

LEMMA TypeStep == TypeOK /\ [Next]_vars => TypeOK'
<1> SUFFICES ASSUME TypeOK, [Next]_vars PROVE TypeOK'
  OBVIOUS
<1>1. CASE Think
  BY <1>1, ThinkType
<1>2. CASE Serve
  BY <1>2, ServeType
<1>3. CASE Drive \/ Leave \/ Destroy
  <2>1. robot' \in RobotType
    BY <1>3, RobotKept
  <2>2. at' \in {"think", "destroy", "over"} /\ UNCHANGED <<game, remote, intended, idle, single>>
    BY <1>3 DEF Drive, Leave, Destroy
  <2> QED
    BY <2>1, <2>2 DEF TypeOK, RobotType, Speed, game
<1>4. CASE UNCHANGED vars
  BY <1>4 DEF vars, TypeOK
<1> QED
  BY <1>1, <1>2, <1>3, <1>4 DEF Next

LEMMA TypeInitial == Init => TypeOK
<1> SUFFICES ASSUME Init PROVE TypeOK
  OBVIOUS
<1>1. Zero \in Vector
  BY ControlAssumption DEF Zero, Vector
<1>2. robot \in RobotType
  BY TopIsLargest, ControlAssumption DEF Init, RobotType
<1>3. start \in [wait : BOOLEAN, age : 0..StartCycles]
  BY ControlAssumption DEF Init
<1>4. inGame \in BOOLEAN /\ stopped \in BOOLEAN /\ mail \in BOOLEAN
  BY DEF Init
<1> QED
  BY <1>1, <1>2, <1>3, <1>4, TopIsLargest DEF Init, TypeOK, RobotType, Speed, Long

(* The robot's state stays within its bounds, whatever the board takes:    *)
(* the ramp never asks a wheel for more than a drive vector can.           *)
THEOREM TypeCorrect == Spec => []TypeOK
BY TypeInitial, TypeStep, PTL DEF Spec
-----------------------------------------------------------------------------
(* The board has been told what amIKicking says, and a kick that is out    *)
(* for KickCycles has been ended by the set_drive_vector that saw it.      *)
KickInv ==
  /\ robot.port = robot.kicking
  /\ robot.kicking => robot.kickAge < KickCycles

LEMMA DrivenKicks ==
  ASSUME NEW rb \in RobotType, rb.port = rb.kicking,
         NEW dv \in Vector, NEW dt \in 0..1, NEW sent \in BOOLEAN
  PROVE  LET new == Driven(rb, dv, dt, sent, TRUE)
         IN  new.port = new.kicking /\ (new.kicking => new.kickAge < KickCycles)
<1> DEFINE kickAge == Upto(rb.kickAge + dt, KickCycles)
           fires == ~rb.kicking /\ dv.kick /\ Upto(rb.endAge + dt, PauseCycles) >= PauseCycles
           draws == DrawsBack(rb, kickAge, dv)
           new == Driven(rb, dv, dt, sent, TRUE)
<1>1. /\ new.kicking = (fires \/ (rb.kicking /\ ~draws))
      /\ new.kickAge = IF fires THEN 0 ELSE kickAge
      /\ new.port = IF fires \/ draws THEN fires ELSE rb.port
  BY DEF Driven
<1>2. fires \in BOOLEAN /\ draws \in BOOLEAN /\ kickAge \in 0..KickCycles
  BY ControlAssumption DEF DrawsBack, Upto, RobotType, Vector
<1>3. (fires => ~rb.kicking) /\ (draws => rb.kicking) /\ (rb.kicking /\ ~draws => kickAge < KickCycles)
  BY <1>2, ControlAssumption DEF DrawsBack
<1>4. rb.kicking \in BOOLEAN
  BY DEF RobotType
<1> HIDE DEF fires, draws, kickAge, new
<1>5. CASE fires
  <2>1. new.port = TRUE /\ new.kicking = TRUE /\ new.kickAge = 0
    BY <1>1, <1>2, <1>5, Zenon
  <2>2. new.port = new.kicking
    BY <2>1, Zenon
  <2>3. new.kickAge < KickCycles
    BY <2>1, ControlAssumption
  <2> QED
    BY <2>2, <2>3 DEF new
<1>6. CASE ~fires /\ draws
  <2>1. new.port = FALSE /\ new.kicking = FALSE
    BY <1>1, <1>2, <1>3, <1>6, Zenon
  <2> QED
    BY <2>1 DEF new
<1>7. CASE ~fires /\ ~draws
  <2>1. new.port = rb.kicking /\ new.kicking = rb.kicking /\ new.kickAge = kickAge
    BY <1>1, <1>2, <1>4, <1>7, Zenon
  <2> QED
    BY <1>3, <1>7, <2>1 DEF new
<1> QED
  BY <1>2, <1>5, <1>6, <1>7

LEMMA KickStep ==
  ASSUME ~Fails, TypeOK, KickInv, [Next]_vars
  PROVE  KickInv'
<1>0. robot.port = robot.kicking /\ TRUE \in BOOLEAN /\ 0 \in 0..1 /\ 1 \in 0..1
  BY DEF KickInv
<1>1. robot \in RobotType /\ intended \in Vector /\ Zero \in Vector
  BY ControlAssumption DEF TypeOK, RobotType, Speed, Zero, Vector
<1>2. Success = {TRUE}
  BY DEF Success
<1>3. CASE Think \/ Serve \/ UNCHANGED vars
  BY <1>3 DEF Think, Serve, vars, KickInv
<1>4. CASE Drive
  <2>1. robot' = Driven(robot, intended, 1, TRUE, TRUE)
    BY <1>2, <1>4 DEF Drive
  <2> QED
    BY <1>0, <1>1, <2>1, DrivenKicks DEF KickInv
<1>5. CASE Leave
  <2>1. PICK dt \in 0..1 : robot' = Driven(robot, Zero, dt, TRUE, TRUE)
    BY <1>2, <1>5 DEF Leave
  <2> QED
    BY <1>0, <1>1, <2>1, DrivenKicks DEF KickInv
<1>6. CASE Destroy
  <2>1. robot' = [Driven(robot, Zero, 0, TRUE, TRUE) EXCEPT !.motor = 0]
    BY <1>2, <1>6 DEF Destroy, SwitchedOff
  <2>2. Driven(robot, Zero, 0, TRUE, TRUE) \in RobotType
    BY <1>0, <1>1, DrivenType
  <2>3. robot'.port = Driven(robot, Zero, 0, TRUE, TRUE).port
    BY <2>1, <2>2 DEF RobotType
  <2>4. robot'.kicking = Driven(robot, Zero, 0, TRUE, TRUE).kicking
    BY <2>1, <2>2 DEF RobotType
  <2>5. robot'.kickAge = Driven(robot, Zero, 0, TRUE, TRUE).kickAge
    BY <2>1, <2>2 DEF RobotType
  <2> QED
    BY <1>0, <1>1, <2>3, <2>4, <2>5, DrivenKicks DEF KickInv
<1> QED
  BY <1>3, <1>4, <1>5, <1>6 DEF Next

(* If the board takes every command, a kick is never out for more than     *)
(* KickCycles while the loop runs, whatever vectors come and whether the   *)
(* communication with the board is blocking or not.                        *)
THEOREM KickerReturns == ASSUME ~Fails PROVE Spec => []KickerComesBack
<1>1. Init => KickInv
  BY DEF Init, KickInv
<1>2. TypeOK /\ KickInv /\ [Next]_vars => KickInv'
  BY KickStep
<1>3. KickInv => KickerComesBack
  BY DEF KickInv, KickerComesBack
<1> QED
  BY <1>1, <1>2, <1>3, TypeCorrect, PTL DEF Spec
-----------------------------------------------------------------------------
(* The speed that is left of Top after n cycles of braking.                *)
Left(n) == IF Top > Deacc * n THEN Top - Deacc * n ELSE 0
Below(speed, n) == Abs(speed) <= Left(n)

LEMMA LeftShrinks ==
  ASSUME NEW n \in Nat
  PROVE  /\ Left(n) \in Nat
         /\ Left(n + 1) = IF Left(n) > Deacc THEN Left(n) - Deacc ELSE 0
         /\ n >= Top => Left(n) = 0
<1> DEFINE d == Deacc * n
<1>1. d \in Nat /\ Deacc * (n + 1) = d + Deacc /\ d >= n /\ Top \in Nat /\ Deacc \in Nat \ {0}
  <2>1. Deacc \in Nat /\ Deacc >= 1 /\ Top \in Nat
    BY ControlAssumption, TopIsLargest
  <2>2. Deacc * n \in Nat /\ Deacc * (n + 1) = Deacc * n + Deacc
    BY <2>1
  <2>3. Deacc * n >= n
    BY <2>1
  <2> QED
    BY <2>1, <2>2, <2>3
<1> HIDE DEF d
<1>2. Left(n) = (IF Top > d THEN Top - d ELSE 0)
  BY DEF Left, d
<1>3. Left(n + 1) = (IF Top > d + Deacc THEN Top - (d + Deacc) ELSE 0)
  BY <1>1 DEF Left
<1> QED
  BY <1>1, <1>2, <1>3

(* A cycle on the way to 0 takes Deacc from the speed.                     *)
LEMMA RampBrakes ==
  ASSUME NEW old \in Speed
  PROVE  Abs(Realizable(old, 0, 1)) = IF Abs(old) > Deacc THEN Abs(old) - Deacc ELSE 0
<1>1. old \in Int /\ Deacc \in Nat \ {0} /\ Acc \in Nat \ {0}
  BY ControlAssumption, TopIsLargest DEF Speed
<1>2. ~((0 - old) * old > 0)
  BY <1>1
<1>3. Realizable(old, 0, 1) = IF Abs(0 - old) <= Deacc THEN 0
                              ELSE IF 0 > old THEN old + Deacc ELSE old - Deacc
  BY <1>1, <1>2 DEF Realizable
<1> QED
  BY <1>1, <1>3 DEF Abs

(* What is left after n cycles, and of the motor a cycle later if the      *)
(* kicker was drawn back: what a kick that is out has yet to cost.         *)
Slow(rb, n) ==
  /\ Below(rb.last, n)
  /\ n > 0 => Below(rb.motor, n - 1)
  /\ n > 0 /\ rb.kicking => Below(rb.motor, n)

LEMMA AlwaysBelowTop ==
  ASSUME NEW s \in Speed
  PROVE  Abs(s) \in Nat /\ Below(s, 0)
BY TopIsLargest, ControlAssumption DEF Speed, Abs, Below, Left

(* A set_drive_vector with nothing to do slows the robot down a cycle.     *)
LEMMA DrivenBrakes ==
  ASSUME NEW rb \in RobotType, NEW n \in Nat, Slow(rb, n)
  PROVE  Slow(Driven(rb, Zero, 1, TRUE, TRUE), n + 1)
<1> DEFINE draws == DrawsBack(rb, Upto(rb.kickAge + 1, KickCycles), Zero)
           v == Realizable(rb.last, 0, 1)
           new == Driven(rb, Zero, 1, TRUE, TRUE)
<1>1. /\ new.last = v
      /\ new.kicking = (rb.kicking /\ ~draws)
      /\ new.motor = IF Blocking \/ ~draws THEN v ELSE rb.motor
  BY DEF Driven, Zero, SpeedSent
<1>2. rb.last \in Speed /\ rb.motor \in Speed /\ rb.kicking \in BOOLEAN
  BY DEF RobotType
<1>3. draws => rb.kicking
  BY DEF DrawsBack
<1> HIDE DEF draws
<1>4. Below(v, n + 1)
  <2>1. Abs(rb.last) <= Left(n) /\ Abs(rb.last) \in Nat /\ Left(n) \in Nat
    BY <1>2, AlwaysBelowTop, LeftShrinks DEF Slow, Below
  <2>2. Abs(v) = IF Abs(rb.last) > Deacc THEN Abs(rb.last) - Deacc ELSE 0
    BY <1>2, RampBrakes
  <2>3. Left(n + 1) = IF Left(n) > Deacc THEN Left(n) - Deacc ELSE 0
    BY LeftShrinks
  <2> HIDE DEF v
  <2> QED
    BY <2>1, <2>2, <2>3, ControlAssumption DEF Below
<1>5. Left(n + 1) <= Left(n) /\ Left(n) \in Nat /\ Left(n + 1) \in Nat
  BY LeftShrinks, ControlAssumption
<1>6. Below(v, n)
  <2>1. Abs(v) \in Int
    BY <1>2, RampBrakes, AlwaysBelowTop, ControlAssumption
  <2> HIDE DEF v
  <2> QED
    BY <1>4, <1>5, <2>1 DEF Below
<1>7. rb.kicking => Below(rb.motor, n)
  BY <1>2, AlwaysBelowTop DEF Slow
<1> HIDE DEF v, new
<1>8. Below(new.last, n + 1)
  BY <1>1, <1>4
<1>9. Below(new.motor, n)
  BY <1>1, <1>3, <1>6, <1>7
<1>10. new.kicking => Below(new.motor, n + 1)
  BY <1>1, <1>4
<1>11. (n + 1) - 1 = n
  OBVIOUS
<1>12. Below(new.motor, (n + 1) - 1)
  BY <1>9, <1>11
<1> QED
  BY <1>8, <1>10, <1>12, Zenon DEF Slow, new

(* The cycles of braking that lie behind.                                  *)
Behind == IF at \in {"serve", "drive"} THEN idle - 1 ELSE idle

BrakeInv ==
  at \in {"think", "serve", "drive"} /\ idle > 0 =>
    (at # "think" => intended = Zero) /\ Slow(robot, Behind)

(* idle counts no further than Long, when there is nothing left.           *)
LEMMA NothingLeft ==
  ASSUME NEW rb \in RobotType, Slow(rb, Long)
  PROVE  Slow(rb, Long - 1)
<1>1. Top \in Nat /\ Long = Top + 2 /\ Long - 1 = Top + 1 /\ Long - 1 - 1 = Top
  BY TopIsLargest DEF Long
<1>2. Left(Top) = 0 /\ Left(Top + 1) = 0 /\ Left(Top + 2) = 0
  BY <1>1, LeftShrinks
<1> QED
  BY <1>1, <1>2 DEF Slow, Below

LEMMA ThinkBrakes == TypeOK /\ BrakeInv /\ Think => BrakeInv'
<1> SUFFICES ASSUME TypeOK, BrakeInv, Think, idle' > 0 PROVE BrakeInv'
  BY DEF BrakeInv
<1>1. at = "think" /\ at' = "serve" /\ robot' = robot /\ robot \in RobotType
  BY DEF Think, TypeOK, RobotType, Speed
<1>2. ~inGame /\ intended' = Zero /\ idle' = Upto(idle + 1, Long)
  BY DEF Think
<1>3. idle \in 0..Long /\ Long \in Nat
  BY TopIsLargest DEF TypeOK, Long
<1>4. Slow(robot, idle' - 1)
  <2>1. CASE idle = 0
    <3>1. idle' - 1 = 0
      BY <1>2, <1>3, <2>1, TopIsLargest DEF Upto, Long
    <3>2. Below(robot.last, 0)
      BY <1>1, AlwaysBelowTop DEF RobotType
    <3> QED
      BY <3>1, <3>2 DEF Slow
  <2>2. CASE idle > 0 /\ idle < Long
    <3>1. idle' - 1 = idle
      BY <1>2, <1>3, <2>2 DEF Upto
    <3> QED
      BY <1>1, <2>2, <3>1 DEF BrakeInv, Behind
  <2>3. CASE idle > 0 /\ idle = Long
    <3>1. idle' = Long
      BY <1>2, <1>3, <2>3 DEF Upto
    <3>2. Slow(robot, Long)
      BY <1>1, <2>3 DEF BrakeInv, Behind
    <3> QED
      BY <1>1, <3>1, <3>2, NothingLeft
  <2> QED
    BY <1>3, <2>1, <2>2, <2>3
<1>5. Behind' = idle' - 1
  BY <1>1 DEF Behind
<1> QED
  BY <1>1, <1>2, <1>4, <1>5 DEF BrakeInv

LEMMA BrakeStep ==
  ASSUME ~Fails, TypeOK, BrakeInv, [Next]_vars
  PROVE  BrakeInv'
<1>1. CASE Think
  BY <1>1, ThinkBrakes
<1>2. CASE Serve
  <2>1. at = "serve" /\ at' \in {"drive", "leave"} /\ UNCHANGED <<intended, robot, idle>>
    BY <1>2 DEF Serve
  <2>2. CASE at' = "drive" /\ idle > 0
    <3>1. Behind' = Behind
      BY <2>1, <2>2 DEF Behind
    <3> QED
      BY <2>1, <2>2, <3>1 DEF BrakeInv, Slow
  <2> QED
    BY <2>1, <2>2 DEF BrakeInv
<1>3. CASE Drive
  <2>1. at = "drive" /\ at' = "think" /\ idle' = idle
    BY <1>3 DEF Drive
  <2>2. CASE idle > 0
    <3>1. intended = Zero /\ Slow(robot, idle - 1) /\ idle - 1 \in Nat
      BY <2>1, <2>2 DEF BrakeInv, Behind, TypeOK
    <3>2. robot' = Driven(robot, Zero, 1, TRUE, TRUE)
      BY <1>3, <3>1 DEF Drive, Success
    <3>3. robot \in RobotType
      BY DEF TypeOK, RobotType, Speed
    <3>4. Slow(robot', (idle - 1) + 1)
      BY <3>1, <3>2, <3>3, DrivenBrakes
    <3>5. Behind' = (idle - 1) + 1
      BY <2>1, <3>1 DEF Behind, TypeOK
    <3> QED
      BY <2>1, <3>4, <3>5 DEF BrakeInv
  <2> QED
    BY <2>1, <2>2 DEF BrakeInv
<1>4. CASE Leave \/ Destroy
  BY <1>4 DEF Leave, Destroy, BrakeInv
<1>5. CASE UNCHANGED vars
  BY <1>5 DEF vars, BrakeInv, Behind, Slow
<1> QED
  BY <1>1, <1>2, <1>3, <1>4, <1>5 DEF Next

(* If the board takes every command, a robot that was taken out of the     *)
(* game brakes along the ramp from whatever speed it had, and drawing the  *)
(* kicker back delays it by one cycle in all.                              *)
THEOREM BrakesAlongRamp == ASSUME ~Fails PROVE Spec => []BrakesInTime
<1>1. Init => BrakeInv
  <2> SUFFICES ASSUME Init PROVE BrakeInv
    OBVIOUS
  <2>1. robot.last = 0 /\ robot.motor = 0 /\ robot.kicking = FALSE /\ Behind = Long
    BY DEF Init, Behind
  <2>2. Top \in Nat /\ Long \in Nat /\ Long - 1 \in Nat
    BY TopIsLargest DEF Long
  <2>3. Left(Long) \in Nat /\ Left(Long - 1) \in Nat
    BY <2>2, LeftShrinks
  <2> QED
    BY <2>1, <2>2, <2>3 DEF Init, BrakeInv, Slow, Below, Abs
<1>2. TypeOK /\ BrakeInv /\ [Next]_vars => BrakeInv'
  BY BrakeStep
<1>3. TypeOK /\ BrakeInv => BrakesInTime
  <2> SUFFICES ASSUME TypeOK, BrakeInv, at \in {"think", "serve"}, Behind - 1 > 0
               PROVE  Abs(robot.motor) <= Left(Behind - 1)
    BY DEF BrakesInTime, Behind, Left
  <2>1. idle \in Nat /\ idle > 0 /\ Behind > 0
    BY TopIsLargest DEF TypeOK, Long, Behind
  <2> QED
    BY <2>1 DEF BrakeInv, Slow, Below
<1> QED
  BY <1>1, <1>2, <1>3, TypeCorrect, PTL DEF Spec
=============================================================================
