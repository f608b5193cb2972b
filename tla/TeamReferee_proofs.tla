------------------------- MODULE TeamReferee_proofs -------------------------
(***************************************************************************)
(* Proofs about the way of the signals of the referee box to the robots of *)
(* both teams, for any number of robots, places, balls and copies.         *)
(***************************************************************************)
EXTENDS TeamReferee, SequenceTheorems, TLAPS

(* How a team sees the colour a signal is for.                             *)
Seen(team, c) == IF c = OwnColor(team) THEN "own" ELSE "opponent"

LEMMA Translation ==
  ASSUME NEW team
  PROVE  /\ \A x : Translated(team, <<"any", x>>) = <<"any", x>>
         /\ \A c \in Color : \A x : Translated(team, <<c, x>>) = <<Seen(team, c), x>>
         /\ \A c : Seen(team, c) \in Side
BY DEF Translated, Seen, Color, Side

LEMMA SignalType ==
  /\ {Stop, Halt, Start, Ready, Nop} \subseteq Signal
  /\ \A team : \A sig \in Signal : Translated(team, sig) \in Signal
<1>1. {Stop, Halt, Start, Ready, Nop} \subseteq Signal
  BY DEF Stop, Halt, Start, Ready, Nop, Signal, General
<1>2. ASSUME NEW team, NEW sig \in Signal PROVE Translated(team, sig) \in Signal
  <2>1. CASE sig \in General \cup Sided
    <3>1. sig[1] \notin Color
      BY <2>1 DEF General, Sided, Side, Color
    <3> QED
      BY <3>1 DEF Translated
  <2>2. CASE sig \in Coloured
    <3>1. PICK c \in Color, x \in Restart \cup {"GoalScored"} : sig = <<c, x>>
      BY <2>2 DEF Coloured
    <3>2. Translated(team, sig) = <<Seen(team, c), x>> /\ Seen(team, c) \in Side
      BY <3>1, Translation
    <3> QED
      BY <3>2 DEF Signal, Sided
  <2> QED
    BY <2>1, <2>2 DEF Signal
<1> QED
  BY <1>1, <1>2

(* The phases one by one, with what update makes of a signal.              *)
LEMMA Updates ==
  /\ \A s : /\ After(s, Stop) = stopRobot /\ After(s, Halt) = stopRobot
            /\ After(s, Start) = freePlay /\ After(s, Nop) = s
  /\ \A s : \A side \in Side, k \in Restart : After(s, <<side, k>>) = Pre(side, k)
  /\ \A s : \A side \in Side : After(s, <<side, "GoalScored">>) = s
  /\ \A s \in PreStates : After(s, Ready) = AfterReady(s)
  /\ \A s : s \notin PreStates => After(s, Ready) = s
BY DEF After, Stop, Halt, Start, Nop, Ready, Side, Restart

LEMMA Distinct ==
  /\ stopRobot \notin PreStates \cup PostStates
  /\ freePlay \notin PreStates \cup PostStates
  /\ \A side : Penalty(side) \notin PreStates \cup PostStates
  /\ \A k : Post(k) \notin PreStates
  /\ \A side, k : Pre(side, k) \notin PostStates
  /\ stopRobot # freePlay
BY DEF stopRobot, freePlay, PreStates, PostStates, Pre, Post, Penalty

LEMMA StateType ==
  /\ {stopRobot, freePlay, Penalty("own"), Penalty("opponent")} \subseteq RefereeState
  /\ \A side \in Side, k \in Restart : /\ Pre(side, k) \in PreStates
                                       /\ AfterReady(Pre(side, k)) \in RefereeState
  /\ \A k \in Restart : Post(k) \in PostStates
  /\ PreStates \subseteq RefereeState /\ PostStates \subseteq RefereeState
<1>1. {stopRobot, freePlay, Penalty("own"), Penalty("opponent")} \subseteq RefereeState
      /\ PreStates \subseteq RefereeState /\ PostStates \subseteq RefereeState
  BY DEF RefereeState, Side
<1>2. \A side \in Side, k \in Restart : Pre(side, k) \in PreStates
  BY DEF PreStates
<1>3. \A k \in Restart : Post(k) \in PostStates
  BY DEF PostStates
<1>4. \A side \in Side, k \in Restart :
         AfterReady(Pre(side, k)) \in {Post(k), Penalty("own"), freePlay}
  BY DEF AfterReady, Pre
<1> QED
  BY <1>1, <1>2, <1>3, <1>4

LEMMA AfterType == \A s \in RefereeState, sig \in Signal : After(s, sig) \in RefereeState
<1> SUFFICES ASSUME NEW s \in RefereeState, NEW sig \in Signal PROVE After(s, sig) \in RefereeState
  OBVIOUS
<1>1. CASE sig = Ready /\ s \in PreStates
  <2>1. PICK side \in Side, k \in Restart : s = Pre(side, k)
    BY <1>1 DEF PreStates
  <2> QED
    BY <1>1, <2>1, Updates, StateType
<1>2. CASE sig \in Side \X Restart
  <2>1. PICK side \in Side, k \in Restart : sig = <<side, k>>
    BY <1>2
  <2>2. After(s, sig) = Pre(side, k) /\ Pre(side, k) \in PreStates
    BY <2>1, Updates, StateType
  <2> QED
    BY <2>2, StateType
<1>3. CASE ~(sig = Ready /\ s \in PreStates) /\ sig \notin Side \X Restart
  <2>1. After(s, sig) \in {stopRobot, freePlay, s}
    BY <1>3 DEF After, Ready
  <2> QED
    BY <2>1, StateType
<1> QED
  BY <1>1, <1>2, <1>3

(* What a robot or teamcontrol does without a signal: a restart of the     *)
(* opponent is over.                                                       *)
Over(s, t) == \/ t = s
              \/ s \in PostStates \ {Post("Penalty")} /\ t = freePlay
              \/ s = Post("Penalty") /\ t = Penalty("opponent")

LEMMA OverOnce ==
  ASSUME NEW s, NEW t, NEW u, Over(s, t), Over(t, u)
  PROVE  Over(s, u)
BY Distinct, StateType DEF Over, Restart

LEMMA FollowedOver ==
  ASSUME NEW g \in Game, NEW ball, NEW known, NEW place
  PROVE  Over(g.state, Followed(g, ball, known, place).state)
<1> DEFINE age == Older(g.age)
           timed == IF TimedOut(g.state, age) THEN freePlay ELSE g.state
           moved == IF timed \in PostStates /\ Moved(g, ball, known, place)
                    THEN IF timed = Post("Penalty") THEN Penalty("opponent") ELSE freePlay
                    ELSE timed
           shot == IF moved = Post("Penalty") /\ known /\ ball < PenaltyMarker - 500
                   THEN Penalty("opponent") ELSE moved
           left == IF shot = Post("KickOff") /\ LeavesCircle(ball, known, place)
                   THEN freePlay ELSE shot
<1>1. Followed(g, ball, known, place).state = left
  BY DEF Followed, Game
<1>2. Post("Penalty") \in PostStates /\ Post("KickOff") \in PostStates /\ Post("Penalty") # Post("KickOff")
  BY DEF PostStates, Post, Restart
<1>3. timed = g.state \/ (timed = freePlay /\ g.state \in PostStates \ {Post("Penalty")})
  BY DEF TimedOut
<1> HIDE DEF timed
<1>5. Over(timed, moved)
  BY DEF Over
<1> HIDE DEF moved
<1>6. Over(moved, shot)
  BY DEF Over
<1> HIDE DEF shot
<1>7. Over(shot, left)
  BY <1>2 DEF Over
<1> HIDE DEF left
<1>8. Over(g.state, timed)
  BY <1>3 DEF Over
<1>9. Over(g.state, left)
  BY <1>5, <1>6, <1>7, <1>8, OverOnce
<1> QED
  BY <1>1, <1>9

LEMMA CoachedOver ==
  ASSUME NEW c, NEW sig
  PROVE  Over(After(c.state, Translated(1, sig)), Coached(c, sig).state)
BY DEF Coached, TimedOut, Over

LEMMA OverType == \A s \in RefereeState : \A t : Over(s, t) => t \in RefereeState
BY StateType DEF Over
-----------------------------------------------------------------------------
(* The type invariant; the box has not given more goals than it has        *)
(* written characters.                                                     *)
TypeInv ==
  /\ TypeOK
  /\ link \in [Robots -> SUBSET Message]
  /\ \A c \in Color : goals[c] <= written

LEMMA AgeType ==
  /\ \A age \in 0..TenSeconds : Older(age) \in 0..TenSeconds
  /\ \A s, sig : \A age \in 0..TenSeconds : Clocked(s, age, sig) \in 0..TenSeconds
BY TeamAssumption DEF Older, Clocked

LEMMA FollowedType ==
  ASSUME NEW g \in Game, NEW ball, NEW known, NEW place
  PROVE  /\ Followed(g, ball, known, place) \in Game
         /\ Followed(g, ball, known, place).own = g.own
         /\ Followed(g, ball, known, place).opponent = g.opponent
<1> DEFINE new == Followed(g, ball, known, place)
<1>1. PICK state, age : new = [g EXCEPT !.state = state, !.age = age]
                        /\ (age = 0 \/ age = Older(g.age))
  BY DEF Followed
<1>2. new.state = state
  BY <1>1 DEF Game
<1>3. state \in RefereeState
  BY <1>2, FollowedOver, OverType DEF Game
<1>4. age \in 0..TenSeconds
  BY <1>1, AgeType, TeamAssumption DEF Game
<1> QED
  BY <1>1, <1>3, <1>4 DEF Game

LEMMA RefereedType ==
  ASSUME NEW g \in Game, NEW sig \in Signal, NEW ball \in Int, NEW known \in BOOLEAN
  PROVE  /\ Refereed(g, sig, ball, known) \in Game
         /\ Refereed(g, sig, ball, known).state = After(g.state, sig)
<1>1. After(g.state, sig) \in RefereeState /\ Clocked(g.state, g.age, sig) \in 0..TenSeconds
  BY AfterType, AgeType DEF Game
<1> QED
  BY <1>1 DEF Refereed, Game

LEMMA CoachedType ==
  ASSUME NEW c \in [state : RefereeState, age : 0..TenSeconds], NEW sig \in Signal
  PROVE  Coached(c, sig) \in [state : RefereeState, age : 0..TenSeconds]
<1> DEFINE own == Translated(1, sig)
           age == Older(Clocked(c.state, c.age, own))
<1>1. own \in Signal
  BY SignalType
<1>2. After(c.state, own) \in RefereeState /\ age \in 0..TenSeconds
  BY <1>1, AfterType, AgeType
<1>3. freePlay \in RefereeState /\ 0 \in 0..TenSeconds
  BY StateType, TeamAssumption
<1> QED
  BY <1>2, <1>3 DEF Coached

LEMMA PhaseType ==
  /\ <<"stop", "any", "any">> \in Phase /\ <<"play", "any", "any">> \in Phase
  /\ \A c \in Color, r \in Restart : <<"pre", c, r>> \in Phase /\ <<"ready", c, r>> \in Phase
  /\ \A p \in Phase : p[1] = "pre" =>
       p[2] \in Color /\ p[3] \in Restart /\ p = <<"pre", p[2], p[3]>>
  /\ \A p \in Phase : p[1] = "ready" =>
       p[2] \in Color /\ p[3] \in Restart /\ p = <<"ready", p[2], p[3]>>
  /\ \A p \in Phase : p[1] \in {"stop", "play", "pre", "ready"}
  /\ \A p \in Phase : p[1] = "stop" => p = <<"stop", "any", "any">>
  /\ \A p \in Phase : p[1] = "play" => p = <<"play", "any", "any">>
BY DEF Phase

LEMMA CharType ==
  /\ {Stop, Halt, Go, Other} \subseteq Char
  /\ \A c \in Color, r \in Restarts : <<c, r>> \in Char
  /\ \A c \in Color : Goal(c) \in Char
BY DEF Char, Goal

(* What the box can write, and how the match goes on with it.              *)
BoxGoesOn(c, p) ==
  \/ c \in {Stop, Halt} /\ p = <<"stop", "any", "any">>
  \/ /\ phase[1] = "stop"
     /\ \E col \in Color, r \in Restarts : c = <<col, r>> /\ p = <<"pre", col, r>>
  \/ c = Go /\ phase[1] = "stop" /\ p = <<"play", "any", "any">>
  \/ c = Go /\ phase[1] = "pre" /\ p = <<"ready", phase[2], phase[3]>>
  \/ phase[1] = "stop" /\ p = phase /\ \E col \in Color : c = Goal(col)

LEMMA BoxWritten ==
  ASSUME TypeInv, BoxWrites
  PROVE  \E c \in Char, p \in Phase :
           /\ BoxGoesOn(c, p)
           /\ pipe' = Append(pipe, c) /\ phase' = p
           /\ written' = written + 1 /\ written' \in 0..MaxWrites
           /\ goals' = [x \in Color |-> IF c = Goal(x) THEN goals[x] + 1 ELSE goals[x]]
           /\ UNCHANGED <<open, connected, latest>>
<1>0. phase \in Phase /\ goals \in [Color -> 0..MaxWrites]
  BY DEF TypeInv, TypeOK
<1>1. ASSUME NEW c, NEW p, Write(c, p)
      PROVE  /\ pipe' = Append(pipe, c) /\ phase' = p
             /\ written' = written + 1 /\ written' \in 0..MaxWrites
             /\ UNCHANGED <<open, connected, latest>>
  BY <1>1, ClientAssumption DEF Write, TypeInv, TypeOK
<1>2. Restarts \subseteq Restart
  BY ClientAssumption
<1>3. ASSUME NEW c, \A x \in Color : c # Goal(x), UNCHANGED goals
      PROVE  goals' = [x \in Color |-> IF c = Goal(x) THEN goals[x] + 1 ELSE goals[x]]
  BY <1>0, <1>3
<1>4. CASE BoxStops
  <2>1. PICK c \in {Stop, Halt} : Write(c, <<"stop", "any", "any">>)
    BY <1>4 DEF BoxStops
  <2>2. \A x \in Color : c # Goal(x)
    BY DEF Goal, Stop, Halt
  <2>3. goals' = [x \in Color |-> IF c = Goal(x) THEN goals[x] + 1 ELSE goals[x]]
    BY <1>3, <1>4, <2>2 DEF BoxStops
  <2>4. BoxGoesOn(c, <<"stop", "any", "any">>) /\ c \in Char
    BY CharType DEF BoxGoesOn
  <2> QED
    BY <1>1, <2>1, <2>3, <2>4, PhaseType
<1>5. CASE BoxCallsRestart
  <2>1. PICK col \in Color, r \in Restarts : Write(<<col, r>>, <<"pre", col, r>>)
    BY <1>5 DEF BoxCallsRestart
  <2>2. \A x \in Color : <<col, r>> # Goal(x)
    BY <1>2 DEF Goal, Restart
  <2>3. UNCHANGED goals
    BY <1>5 DEF BoxCallsRestart
  <2>6. goals' = [x \in Color |-> IF <<col, r>> = Goal(x) THEN goals[x] + 1 ELSE goals[x]]
    BY <1>0, <2>2, <2>3
  <2>4. BoxGoesOn(<<col, r>>, <<"pre", col, r>>) /\ <<col, r>> \in Char /\ <<"pre", col, r>> \in Phase
    BY <1>2, <1>5, CharType, PhaseType DEF BoxGoesOn, BoxCallsRestart
  <2> QED
    BY <1>1, <2>1, <2>4, <2>6
<1>6. CASE BoxGoes
  <2>1. PICK p \in {<<"play", "any", "any">>, <<"ready", phase[2], phase[3]>>} :
          Write(Go, p) /\ BoxGoesOn(Go, p) /\ (p # <<"play", "any", "any">> => phase[1] = "pre")
    BY <1>6 DEF BoxGoes, BoxGoesOn
  <2>2. \A x \in Color : Go # Goal(x)
    BY DEF Goal, Go
  <2>3. goals' = [x \in Color |-> IF Go = Goal(x) THEN goals[x] + 1 ELSE goals[x]]
    BY <1>3, <1>6, <2>2 DEF BoxGoes
  <2>4. p \in Phase /\ Go \in Char
    BY <1>0, <2>1, PhaseType, CharType
  <2> QED
    BY <1>1, <2>1, <2>3, <2>4
<1>7. CASE BoxGivesGoal
  <2>1. PICK col \in Color : Write(Goal(col), phase) /\ goals' = [goals EXCEPT ![col] = @ + 1]
    BY <1>7 DEF BoxGivesGoal
  <2>2. \A x \in Color : Goal(col) = Goal(x) <=> x = col
    BY DEF Goal
  <2>3. goals' = [x \in Color |-> IF Goal(col) = Goal(x) THEN goals[x] + 1 ELSE goals[x]]
    BY <1>0, <2>1, <2>2
  <2>4. BoxGoesOn(Goal(col), phase) /\ Goal(col) \in Char
    BY <1>7, CharType DEF BoxGoesOn, BoxGivesGoal
  <2> QED
    BY <1>0, <1>1, <2>1, <2>3, <2>4
<1> QED
  BY <1>4, <1>5, <1>6, <1>7 DEF BoxWrites

LEMMA ListenType ==
  ASSUME TypeInv, NEW sig \in Signal, Listen(sig)
  PROVE  /\ pipe' \in Seq(Char) /\ latest' \in Signal
         /\ UNCHANGED <<phase, written, goals, open, connected>>
<1>1. CASE ~connected \/ (pipe = <<>> /\ open)
  BY <1>1 DEF Listen, clientVars, TypeInv, TypeOK
<1>2. CASE ~(~connected \/ (pipe = <<>> /\ open))
  <2>1. PICK n \in 0..ReadLen : n <= Len(pipe) /\ pipe' = SubSeq(pipe, n + 1, Len(pipe))
    BY <1>2 DEF Listen
  <2>2. pipe \in Seq(Char) /\ n \in Nat /\ Len(pipe) \in Nat
    BY ClientAssumption, LenProperties DEF TypeInv, TypeOK
  <2>3. pipe' \in Seq(Char)
    BY <2>1, <2>2, SubSeqProperties
  <2>4. latest' \in Signal
    BY <1>2 DEF Listen, TypeInv, TypeOK
  <2> QED
    BY <1>2, <2>3, <2>4 DEF Listen
<1> QED
  BY <1>1, <1>2

LEMMA PassedOnType ==
  ASSUME TypeInv, NEW sig \in Signal, PassedOn(sig)
  PROVE  sent' \in [Robots -> Nat] /\ link' \in [Robots -> SUBSET Message]
<1>0. sent \in [Robots -> Nat] /\ link \in [Robots -> SUBSET Message]
  BY DEF TypeInv, TypeOK
<1>1. CASE sig = Nop
  BY <1>0, <1>1 DEF PassedOn
<1>2. CASE sig # Nop
  <2>1. \A r \in Robots : Translated(Team[r], sig) \in Signal
    BY SignalType
  <2>2. \A r \in Robots : [nr |-> sent[r], sig |-> Translated(Team[r], sig), copies |-> Copies] \in Message
    BY <1>0, <2>1, TeamAssumption DEF Message
  <2> QED
    BY <1>0, <1>2, <2>2 DEF PassedOn
<1> QED
  BY <1>1, <1>2

LEMMA LeftType ==
  ASSUME NEW S \in SUBSET Message, NEW K \in SUBSET S
  PROVE  /\ Left(S, K) \subseteq Message
         /\ \A m \in Left(S, K) : \E k \in S : m.sig = k.sig
<1> SUFFICES ASSUME NEW m \in Left(S, K)
             PROVE  m \in Message /\ \E k \in S : m.sig = k.sig
  OBVIOUS
<1>1. PICK k \in S : m = [k EXCEPT !.copies = @ - 1] /\ k.copies > 1
  BY DEF Left
<1> QED
  BY <1>1 DEF Message

LEMMA TypeInit == Init => TypeInv
<1> SUFFICES ASSUME Init PROVE TypeInv
  OBVIOUS
<1>1. /\ phase \in Phase /\ written \in 0..MaxWrites /\ goals \in [Color -> 0..MaxWrites]
      /\ open \in BOOLEAN /\ connected \in BOOLEAN /\ pipe \in Seq(Char) /\ latest \in Signal
      /\ \A c \in Color : goals[c] <= written
  BY PhaseType, SignalType, ClientAssumption DEF Init, ClientInit
<1>2. coach \in [state : RefereeState, age : 0..TenSeconds] /\ game \in [Robots -> Game]
  BY StateType, TeamAssumption DEF Init, Game
<1>3. sent \in [Robots -> Nat] /\ link \in [Robots -> SUBSET Message]
  BY DEF Init
<1> QED
  BY <1>1, <1>2, <1>3 DEF TypeInv, TypeOK

LEMMA TypeStep == TypeInv /\ [Next]_vars => TypeInv'
<1> SUFFICES ASSUME TypeInv, [Next]_vars PROVE TypeInv'
  OBVIOUS
<1>0. /\ game \in [Robots -> Game] /\ link \in [Robots -> SUBSET Message]
      /\ \A r \in Robots : link[r] \subseteq Message
  BY DEF TypeInv, TypeOK
<1>1. CASE BoxWrites /\ UNCHANGED <<coach, sent, link, game>>
  <2>1. PICK c \in Char, p \in Phase :
          /\ pipe' = Append(pipe, c) /\ phase' = p
          /\ written' = written + 1 /\ written' \in 0..MaxWrites
          /\ goals' = [x \in Color |-> IF c = Goal(x) THEN goals[x] + 1 ELSE goals[x]]
          /\ UNCHANGED <<open, connected, latest>>
    BY <1>1, BoxWritten
  <2>2. pipe' \in Seq(Char)
    BY <2>1 DEF TypeInv, TypeOK
  <2>3. \A x \in Color : goals[x] \in 0..MaxWrites /\ goals[x] <= written /\ written \in 0..MaxWrites
    BY DEF TypeInv, TypeOK
  <2>4. goals' \in [Color -> 0..MaxWrites] /\ \A x \in Color : goals'[x] <= written'
    BY <2>1, <2>3, ClientAssumption
  <2> QED
    BY <1>1, <2>1, <2>2, <2>4 DEF TypeInv, TypeOK
<1>2. CASE (BoxCloses \/ Disconnect \/ Connect) /\ UNCHANGED <<coach, sent, link, game>>
  <2>1. /\ open' \in BOOLEAN /\ connected' \in BOOLEAN /\ pipe' \in Seq(Char)
        /\ UNCHANGED <<phase, written, goals, latest>>
    <3>1. CASE BoxCloses
      BY <3>1 DEF BoxCloses, TypeInv, TypeOK
    <3>2. CASE Disconnect
      BY <3>2 DEF Disconnect, TypeInv, TypeOK
    <3>3. CASE Connect
      <4>1. pipe' = <<>> /\ connected' = TRUE /\ UNCHANGED <<phase, written, goals, open, latest>>
        BY <3>3 DEF Connect
      <4>2. <<>> \in Seq(Char)
        OBVIOUS
      <4> QED
        BY <4>1, <4>2 DEF TypeInv, TypeOK
    <3> QED
      BY <1>2, <3>1, <3>2, <3>3
  <2> QED
    BY <1>2, <2>1 DEF TypeInv, TypeOK
<1>3. CASE CoachCycle
  <2>1. PICK sig \in Signal : Listen(sig) /\ coach' = Coached(coach, sig) /\ PassedOn(sig)
    BY <1>3 DEF CoachCycle
  <2>2. coach' \in [state : RefereeState, age : 0..TenSeconds]
    BY <2>1, CoachedType DEF TypeInv, TypeOK
  <2> QED
    BY <1>3, <2>1, <2>2, ListenType, PassedOnType DEF CoachCycle, TypeInv, TypeOK
<1>4. ASSUME NEW r \in Robots, RobotLooks(r) PROVE TypeInv'
  <2>1. PICK ball \in Balls, known \in BOOLEAN, place \in Places :
          game' = [game EXCEPT ![r] = Followed(@, ball, known, place)]
    BY <1>4 DEF RobotLooks
  <2>2. Followed(game[r], ball, known, place) \in Game
    BY <1>0, FollowedType
  <2>3. game' \in [Robots -> Game]
    BY <1>0, <2>1, <2>2
  <2> QED
    BY <1>4, <2>3 DEF RobotLooks, TypeInv, TypeOK
<1>5. ASSUME NEW r \in Robots, RobotReceives(r) PROVE TypeInv'
  <2>1. PICK S \in SUBSET link[r] \ {{}} :
          /\ \E m \in S, ball \in Balls, known \in BOOLEAN :
               game' = [game EXCEPT ![r] = Refereed(@, m.sig, ball, known)]
          /\ \E K \in SUBSET S : link' = [link EXCEPT ![r] = (@ \ S) \cup Left(S, K)]
    BY <1>5 DEF RobotReceives
  <2>2. PICK m \in S, ball \in Balls, known \in BOOLEAN :
          game' = [game EXCEPT ![r] = Refereed(@, m.sig, ball, known)]
    BY <2>1
  <2>3. PICK K \in SUBSET S : link' = [link EXCEPT ![r] = (@ \ S) \cup Left(S, K)]
    BY <2>1
  <2>4. m.sig \in Signal /\ ball \in Int /\ game[r] \in Game /\ S \in SUBSET Message
    BY <1>0, TeamAssumption DEF Message
  <2>5. Refereed(game[r], m.sig, ball, known) \in Game
    BY <2>4, RefereedType
  <2>6. game' \in [Robots -> Game]
    BY <1>0, <2>2, <2>5
  <2>7. Left(S, K) \subseteq Message
    BY <2>4, LeftType
  <2>8. link' \in [Robots -> SUBSET Message]
    BY <1>0, <2>3, <2>7
  <2>9. \A q \in Robots : link'[q] \subseteq Message
    BY <2>8
  <2> QED
    BY <1>5, <2>6, <2>8, <2>9 DEF RobotReceives, TypeInv, TypeOK
<1>6. ASSUME NEW r \in Robots, LinkLoses(r) PROVE TypeInv'
  <2>1. PICK m \in link[r] : link' = [link EXCEPT ![r] = @ \ {m}]
    BY <1>6 DEF LinkLoses
  <2>2. link' \in [Robots -> SUBSET Message]
    BY <1>0, <2>1
  <2>3. \A q \in Robots : link'[q] \subseteq Message
    BY <2>2
  <2> QED
    BY <1>6, <2>2, <2>3 DEF LinkLoses, TypeInv, TypeOK
<1>7. CASE UNCHANGED vars
  BY <1>7 DEF vars, TypeInv, TypeOK
<1> QED
  BY <1>1, <1>2, <1>3, <1>4, <1>5, <1>6, <1>7 DEF Next, BoxStep, Reconnect

(* The box, teamcontrol, the connection and every robot stay within their  *)
(* types: every state a robot enters is one of the diagram's, and every    *)
(* message under way carries a signal update knows.                        *)
THEOREM TypeCorrect == Spec => []TypeOK
<1>1. TypeInv => TypeOK
  BY DEF TypeInv
<1> QED
  BY <1>1, TypeInit, TypeStep, PTL DEF Spec
-----------------------------------------------------------------------------
(* What the states of a team look like while the box is in phase p: the    *)
(* cases of Expected one by one.                                           *)
In(p, team) ==
  CASE p[1] = "stop" -> {stopRobot}
    [] p[1] = "play" -> {freePlay}
    [] p[1] = "pre" -> {Pre(Seen(team, p[2]), p[3])}
    [] p[1] = "ready" ->
         {AfterReady(Pre(Seen(team, p[2]), p[3]))} \cup
         IF Seen(team, p[2]) = "own" THEN {}
         ELSE IF p[3] = "Penalty" THEN {Penalty("opponent")} ELSE {freePlay}

LEMMA InExpected ==
  ASSUME NEW team PROVE Expected(team) = In(phase, team)
BY DEF Expected, In, Seen

LEMMA InCases ==
  ASSUME NEW team
  PROVE  /\ In(<<"stop", "any", "any">>, team) = {stopRobot}
         /\ In(<<"play", "any", "any">>, team) = {freePlay}
         /\ \A c, k : In(<<"pre", c, k>>, team) = {Pre(Seen(team, c), k)}
         /\ \A c, k : In(<<"ready", c, k>>, team) =
              {AfterReady(Pre(Seen(team, c), k))} \cup
              IF Seen(team, c) = "own" THEN {}
              ELSE IF k = "Penalty" THEN {Penalty("opponent")} ELSE {freePlay}
BY DEF In

LEMMA ReadyCases ==
  ASSUME NEW side \in Side, NEW k \in Restart
  PROVE  AfterReady(Pre(side, k)) = IF side = "opponent" THEN Post(k)
                                    ELSE IF k = "Penalty" THEN Penalty("own") ELSE freePlay
BY DEF AfterReady, Pre

LEMMA PostOnce == \A k : Post(k) = Post("Penalty") <=> k = "Penalty"
BY DEF Post

(* What a team does on its own accord never leads out of its phase.        *)
LEMMA InClosed ==
  ASSUME NEW p \in Phase, NEW team, NEW s \in In(p, team), NEW t, Over(s, t)
  PROVE  t \in In(p, team)
<1>1. CASE p = <<"stop", "any", "any">> \/ p = <<"play", "any", "any">>
  BY <1>1, InCases, Distinct, StateType DEF Over, Restart
<1>2. CASE p[1] = "pre"
  <2>1. p = <<"pre", p[2], p[3]>> /\ p[3] \in Restart /\ Seen(team, p[2]) \in Side
    BY <1>2, PhaseType, Translation
  <2>2. s = Pre(Seen(team, p[2]), p[3])
    BY <2>1, InCases
  <2>3. t = s
    BY <2>2, Distinct, StateType DEF Over, Restart
  <2> QED
    BY <2>3
<1>3. CASE p[1] = "ready"
  <2> DEFINE side == Seen(team, p[2])
             k == p[3]
  <2>1. p = <<"ready", p[2], k>> /\ k \in Restart /\ side \in Side
    BY <1>3, PhaseType, Translation
  <2>2. In(p, team) = {AfterReady(Pre(side, k))} \cup
              IF side = "own" THEN {}
              ELSE IF k = "Penalty" THEN {Penalty("opponent")} ELSE {freePlay}
    BY <2>1, InCases
  <2> HIDE DEF side, k
  <2>3. CASE side = "own"
    <3>1. s \in {Penalty("own"), freePlay}
      BY <2>1, <2>2, <2>3, ReadyCases
    <3>2. s \notin PostStates /\ Post("Penalty") \in PostStates
      BY <3>1, Distinct, StateType DEF Restart
    <3> QED
      BY <3>2 DEF Over
  <2>4. CASE side = "opponent"
    <3>1. In(p, team) = {Post(k), IF k = "Penalty" THEN Penalty("opponent") ELSE freePlay}
      BY <2>1, <2>2, <2>4, ReadyCases
    <3>2. Post("Penalty") \in PostStates
      BY StateType DEF Restart
    <3>3. CASE s = Post(k)
      BY <3>1, <3>3, PostOnce DEF Over
    <3>4. CASE s # Post(k)
      <4>1. s \in {Penalty("opponent"), freePlay}
        BY <3>1, <3>4
      <4>2. s \notin PostStates
        BY <4>1, Distinct
      <4> QED
        BY <3>2, <4>2 DEF Over
    <3> QED
      BY <3>3, <3>4
  <2> QED
    BY <2>1, <2>3, <2>4 DEF Side
<1> QED
  BY <1>1, <1>2, <1>3, PhaseType
-----------------------------------------------------------------------------
Moves(s, t) == t = s \/ t \in DrawnFrom(s)

(* A team in s that hears sig, now or after it has ended a restart of its  *)
(* own accord, goes along the diagram into the phase p.                    *)
Leads(p, team, sig, s) ==
  \A t : Over(s, t) => /\ After(t, sig) \in In(p, team)
                       /\ Moves(t, After(t, sig))

(* It does no harm to hear sig in phase p, once more or too late.          *)
Suits(p, team, sig) == \A s \in In(p, team) : Leads(p, team, sig, s)

(* listen will make the right thing of the next 's'.                       *)
Fits(l, p) ==
  /\ p[1] = "stop" => l \in {Stop, Halt}
  /\ p[1] = "pre" => l \notin {Stop, Halt}

LEMMA LeadsOver ==
  ASSUME NEW p, NEW team, NEW sig, NEW s, NEW t, Leads(p, team, sig, s), Over(s, t)
  PROVE  Leads(p, team, sig, t)
BY OverOnce DEF Leads

LEMMA LeadsIn ==
  ASSUME NEW p, NEW team, NEW sig, NEW s, Leads(p, team, sig, s)
  PROVE  After(s, sig) \in In(p, team) /\ Moves(s, After(s, sig))
BY DEF Leads, Over

LEMMA Drawn ==
  /\ \A s : stopRobot \in DrawnFrom(s)
  /\ \A s \in PreStates \cup {freePlay} : s \in DrawnFrom(stopRobot)
  /\ \A s \in PreStates : AfterReady(s) \in DrawnFrom(s)
  /\ \A s, t : Over(s, t) => Moves(s, t)
<1>1. \A s : stopRobot \in DrawnFrom(s)
  BY DEF DrawnFrom
<1>2. \A s \in PreStates \cup {freePlay} : s \in DrawnFrom(stopRobot)
  BY Distinct, StateType DEF DrawnFrom, Restart
<1>3. \A s \in PreStates : AfterReady(s) \in DrawnFrom(s)
  <2> SUFFICES ASSUME NEW s \in PreStates PROVE AfterReady(s) \in DrawnFrom(s)
    OBVIOUS
  <2>1. s # stopRobot /\ s \notin PostStates
    BY Distinct DEF PreStates
  <2>2. Post("Penalty") \in PostStates
    BY StateType DEF Restart
  <2> QED
    BY <2>1, <2>2 DEF DrawnFrom
<1>4. ASSUME NEW s, NEW t, Over(s, t), t # s PROVE t \in DrawnFrom(s)
  <2>1. s \in PostStates
    BY <1>4, StateType DEF Over, Restart
  <2>2. s # stopRobot /\ s \notin PreStates
    BY <2>1, Distinct DEF PostStates
  <2> QED
    BY <1>4, <2>1, <2>2 DEF DrawnFrom, Over
<1> QED
  BY <1>1, <1>2, <1>3, <1>4 DEF Moves

(* Every character the box writes leads every team from the phase the box  *)
(* leaves into the phase it enters, in whatever state the team waits.      *)
LEMMA BoxLeads ==
  ASSUME NEW c \in Char, NEW p \in Phase, phase \in Phase, BoxGoesOn(c, p),
         Fits(latest, phase), NEW team, Restarts \subseteq Restart
  PROVE  LET sig == Meaning(c, latest)
             heard == Translated(team, sig)
         IN  /\ \A s \in In(phase, team) : Leads(p, team, heard, s)
             /\ Suits(p, team, heard)
             /\ Fits(IF Relevant(sig) THEN sig ELSE latest, p)
<1> DEFINE sig == Meaning(c, latest)
           heard == Translated(team, sig)
           l == IF Relevant(sig) THEN sig ELSE latest
<1> SUFFICES /\ \A s \in In(phase, team) : Leads(p, team, heard, s)
             /\ Suits(p, team, heard)
             /\ Fits(l, p)
  OBVIOUS
<1>1. \A s \in In(phase, team) : \A t : Over(s, t) => t \in In(phase, team)
  BY InClosed
<1>2. \A s \in In(p, team) : \A t : Over(s, t) => t \in In(p, team)
  BY InClosed
<1>3. ASSUME \A s \in In(phase, team) \cup In(p, team) :
                 After(s, heard) \in In(p, team) /\ Moves(s, After(s, heard))
        PROVE  /\ \A s \in In(phase, team) : Leads(p, team, heard, s)
               /\ Suits(p, team, heard)
  BY <1>1, <1>2, <1>3 DEF Leads, Suits
<1>4. CASE c \in {Stop, Halt} /\ p = <<"stop", "any", "any">>
  <2>1. sig = c
    BY <1>4 DEF Meaning, Stop, Halt, Go, Other
  <2>2. heard = c
    BY <1>4, <2>1, Translation DEF Stop, Halt
  <2>3. \A s : After(s, heard) = stopRobot
    BY <1>4, <2>2, Updates
  <2>4. stopRobot \in In(p, team)
    BY <1>4, InCases
  <2>5. l \in {Stop, Halt}
    BY <1>4, <2>1 DEF Relevant, Stop, Halt, Nop
  <2>6. Fits(l, p)
    BY <1>4, <2>5 DEF Fits
  <2> HIDE DEF sig, heard, l
  <2> QED
    BY <1>3, <2>3, <2>4, <2>6, Drawn DEF Moves
<1>5. ASSUME NEW col \in Color, NEW r \in Restarts, c = <<col, r>>, p = <<"pre", col, r>>,
             phase[1] = "stop"
      PROVE  /\ \A s \in In(phase, team) : Leads(p, team, heard, s)
             /\ Suits(p, team, heard)
             /\ Fits(l, p)
  <2>1. sig = <<col, r>>
    BY <1>5 DEF Meaning, Go, Other, Color
  <2>2. heard = <<Seen(team, col), r>> /\ Seen(team, col) \in Side /\ r \in Restart
    BY <2>1, Translation
  <2> DEFINE new == Pre(Seen(team, col), r)
  <2>3. (\A s : After(s, heard) = new) /\ new \in PreStates
    BY <2>2, Updates, StateType
  <2>4. In(p, team) = {new} /\ In(phase, team) = {stopRobot}
    BY <1>5, InCases, PhaseType
  <2>5. l = <<col, r>> /\ l \notin {Stop, Halt}
    BY <2>1, <2>2 DEF Relevant, Stop, Halt, Nop, Color, Restart
  <2>6. Fits(l, p)
    BY <1>5, <2>5 DEF Fits
  <2> HIDE DEF sig, heard, l, new
  <2> QED
    BY <1>3, <2>3, <2>4, <2>6, Drawn DEF Moves
<1>6. CASE c = Go /\ phase[1] = "stop" /\ p = <<"play", "any", "any">>
  <2>1. sig = Start
    BY <1>6 DEF Meaning, Fits, Go, Other
  <2>2. heard = Start
    BY <2>1, Translation DEF Start
  <2>3. \A s : After(s, heard) = freePlay
    BY <2>2, Updates
  <2>4. In(p, team) = {freePlay} /\ In(phase, team) = {stopRobot}
    BY <1>6, InCases, PhaseType
  <2>6. Fits(l, p)
    BY <1>6 DEF Fits
  <2> HIDE DEF sig, heard, l
  <2> QED
    BY <1>3, <2>3, <2>4, <2>6, Drawn DEF Moves
<1>7. CASE c = Go /\ phase[1] = "pre" /\ p = <<"ready", phase[2], phase[3]>>
  <2> DEFINE col == phase[2]
             r == phase[3]
             old == Pre(Seen(team, col), r)
  <2>1. col \in Color /\ r \in Restart /\ phase = <<"pre", col, r>> /\ Seen(team, col) \in Side
    BY <1>7, PhaseType, Translation
  <2>2. sig = Ready
    BY <1>7 DEF Meaning, Fits, Go, Other
  <2>3. heard = Ready
    BY <2>2, Translation DEF Ready
  <2>4. In(phase, team) = {old} /\ old \in PreStates
    BY <2>1, InCases, StateType
  <2>5. In(p, team) = {AfterReady(old)} \cup
              IF Seen(team, col) = "own" THEN {}
              ELSE IF r = "Penalty" THEN {Penalty("opponent")} ELSE {freePlay}
    BY <1>7, InCases
  <2>6. AfterReady(old) \in {Post(r), Penalty("own"), freePlay}
    BY <2>1, ReadyCases
  <2>7. In(p, team) \subseteq {Post(r), Penalty("own"), freePlay, Penalty("opponent")}
        /\ AfterReady(old) \in In(p, team)
    BY <2>5, <2>6
  <2>8. \A s \in In(p, team) : s \notin PreStates
    BY <2>7, Distinct
  <2>9. Fits(l, p)
    BY <1>7 DEF Fits
  <2> HIDE DEF sig, heard, l, old
  <2>10. \A s \in In(p, team) : After(s, heard) = s
    BY <2>3, <2>8, Updates
  <2>11. After(old, heard) = AfterReady(old)
    BY <2>3, <2>4, Updates
  <2> QED
    BY <1>3, <2>4, <2>7, <2>9, <2>10, <2>11, Drawn DEF Moves
<1>8. ASSUME NEW col \in Color, c = Goal(col), phase[1] = "stop", p = phase
      PROVE  /\ \A s \in In(phase, team) : Leads(p, team, heard, s)
             /\ Suits(p, team, heard)
             /\ Fits(l, p)
  <2>1. sig = <<col, "GoalScored">>
    BY <1>8 DEF Meaning, Go, Other, Goal, Color
  <2>2. heard = <<Seen(team, col), "GoalScored">> /\ Seen(team, col) \in Side
    BY <2>1, Translation
  <2>3. \A s : After(s, heard) = s
    BY <2>2, Updates
  <2>4. l = latest
    BY <2>1 DEF Relevant
  <2>5. Fits(l, p)
    BY <1>8, <2>4
  <2> HIDE DEF sig, heard, l
  <2> QED
    BY <1>3, <1>8, <2>3, <2>5 DEF Moves
<1> QED
  BY <1>4, <1>5, <1>6, <1>7, <1>8 DEF BoxGoesOn
-----------------------------------------------------------------------------
(* The states of everybody who listens to the box.  With nothing on its    *)
(* way they are in the phase of the box; a character in the pipe, or a     *)
(* message on its way, will lead there.  A robot that has a message on its *)
(* way may have heard it before: hearing it again does no harm.            *)
Heard(r) ==
  /\ link[r] = {} => game[r].state \in In(phase, Team[r])
  /\ \A m \in link[r] : /\ Leads(phase, Team[r], m.sig, game[r].state)
                        /\ Suits(phase, Team[r], m.sig)

Calm ==
  /\ pipe = <<>>
  /\ coach.state \in In(phase, 1)
  /\ Fits(latest, phase)
  /\ \A r \in Robots : Heard(r)

(* Meaning the character c, everybody waits for it.                        *)
Awaited(c, team, s) ==
  /\ Leads(phase, team, Translated(team, Meaning(c, latest)), s)
  /\ Suits(phase, team, Translated(team, Meaning(c, latest)))

Called(c) ==
  /\ pipe = <<c>>
  /\ Meaning(c, latest) # Nop
  /\ Awaited(c, 1, coach.state)
  /\ \A r \in Robots : link[r] = {} /\ Awaited(c, Team[r], game[r].state)
  /\ Fits(IF Relevant(Meaning(c, latest)) THEN Meaning(c, latest) ELSE latest, phase)

FlowInv ==
  /\ TypeInv
  /\ open /\ connected
  /\ Calm \/ \E c \in Char : Called(c)

LEMMA FlowInit == Init => FlowInv
<1> SUFFICES ASSUME Init PROVE FlowInv
  OBVIOUS
<1>1. phase = <<"stop", "any", "any">> /\ pipe = <<>> /\ latest = Stop /\ open /\ connected
  BY DEF Init, ClientInit
<1>2. coach.state = stopRobot /\ \A r \in Robots : link[r] = {} /\ game[r].state = stopRobot
  BY DEF Init
<1>3. Fits(latest, phase)
  BY <1>1 DEF Fits
<1>4. \A team : stopRobot \in In(phase, team)
  BY <1>1, InCases
<1>5. \A r \in Robots : Heard(r)
  BY <1>2, <1>4 DEF Heard
<1> QED
  BY <1>1, <1>2, <1>3, <1>4, <1>5, TypeInit DEF FlowInv, Calm

(* A robot that ends a restart of its own accord stays where it is led.    *)
LEMMA LooksHeard ==
  ASSUME TypeInv, NEW r \in Robots, RobotLooks(r)
  PROVE  /\ \A q \in Robots : Over(game[q].state, game'[q].state)
         /\ game'[r].own = game[r].own /\ game'[r].opponent = game[r].opponent
         /\ \A q \in Robots \ {r} : game'[q] = game[q]
<1>1. PICK ball \in Balls, known \in BOOLEAN, place \in Places :
        game' = [game EXCEPT ![r] = Followed(@, ball, known, place)]
  BY DEF RobotLooks
<1>2. game \in [Robots -> Game]
  BY DEF TypeInv, TypeOK
<1>3. game'[r] = Followed(game[r], ball, known, place) /\ \A q \in Robots \ {r} : game'[q] = game[q]
  BY <1>1, <1>2
<1>4. Over(game[r].state, game'[r].state)
  BY <1>2, <1>3, FollowedOver
<1> QED
  BY <1>2, <1>3, <1>4, FollowedType DEF Over

(* What arrives at a robot and what is left of it.                         *)
LEMMA Received ==
  ASSUME TypeInv, NEW r \in Robots, RobotReceives(r)
  PROVE  /\ \E m \in link[r] :
              /\ game'[r].state = After(game[r].state, m.sig)
              /\ game'[r].own = IF m.sig = <<"own", "GoalScored">>
                                THEN game[r].own + 1 ELSE game[r].own
              /\ game'[r].opponent = IF m.sig = <<"opponent", "GoalScored">>
                                     THEN game[r].opponent + 1 ELSE game[r].opponent
         /\ \A m \in link'[r] : \E k \in link[r] : m.sig = k.sig
         /\ \A k : link[r] = {k} => link'[r] \subseteq Left({k}, {k})
         /\ \A q \in Robots \ {r} : game'[q] = game[q] /\ link'[q] = link[q]
<1>1. PICK S \in SUBSET link[r] \ {{}} :
        /\ \E m \in S, ball \in Balls, known \in BOOLEAN :
             game' = [game EXCEPT ![r] = Refereed(@, m.sig, ball, known)]
        /\ \E K \in SUBSET S : link' = [link EXCEPT ![r] = (@ \ S) \cup Left(S, K)]
  BY DEF RobotReceives
<1>2. PICK m \in S, ball \in Balls, known \in BOOLEAN :
        game' = [game EXCEPT ![r] = Refereed(@, m.sig, ball, known)]
  BY <1>1
<1>3. PICK K \in SUBSET S : link' = [link EXCEPT ![r] = (@ \ S) \cup Left(S, K)]
  BY <1>1
<1>4. game \in [Robots -> Game] /\ link \in [Robots -> SUBSET Message]
  BY DEF TypeInv, TypeOK
<1>5. game'[r] = Refereed(game[r], m.sig, ball, known) /\ \A q \in Robots \ {r} : game'[q] = game[q]
  BY <1>2, <1>4
<1>6. link'[r] = (link[r] \ S) \cup Left(S, K) /\ \A q \in Robots \ {r} : link'[q] = link[q]
  BY <1>3, <1>4
<1>7. \A k \in Left(S, K) : \E n \in S : k.sig = n.sig
  BY <1>4, LeftType
<1>8. \A k \in link'[r] : \E n \in link[r] : k.sig = n.sig
  BY <1>6, <1>7
<1>9. m \in link[r]
  OBVIOUS
<1>10. /\ game'[r].state = After(game[r].state, m.sig)
       /\ game'[r].own = IF m.sig = <<"own", "GoalScored">> THEN game[r].own + 1 ELSE game[r].own
       /\ game'[r].opponent = IF m.sig = <<"opponent", "GoalScored">>
                              THEN game[r].opponent + 1 ELSE game[r].opponent
  BY <1>5 DEF Refereed
<1>11. \A k : link[r] = {k} => link'[r] \subseteq Left({k}, {k})
  <2> SUFFICES ASSUME NEW k, link[r] = {k} PROVE link'[r] \subseteq Left({k}, {k})
    OBVIOUS
  <2>1. S = {k} /\ K \subseteq {k}
    BY <1>1, <1>3
  <2>2. link'[r] = Left(S, K)
    BY <1>6, <2>1
  <2> QED
    BY <2>1, <2>2 DEF Left
<1> QED
  BY <1>5, <1>6, <1>8, <1>9, <1>10, <1>11

LEMMA BoxMeans ==
  ASSUME NEW c, NEW p, BoxGoesOn(c, p), NEW l
  PROVE  Meaning(c, l) # Nop
<1>1. CASE c \in {Stop, Halt}
  BY <1>1 DEF Meaning, Stop, Halt, Nop, Go, Other
<1>2. CASE c = Go
  BY <1>2 DEF Meaning, Start, Ready, Nop, Go, Other
<1>3. CASE c[1] \in Color
  BY <1>3 DEF Meaning, Color, Nop, Go, Other
<1> QED
  BY <1>1, <1>2, <1>3 DEF BoxGoesOn, Goal

LEMMA MeaningType ==
  ASSUME NEW c \in Char, NEW l, Restarts \subseteq Restart
  PROVE  Meaning(c, l) \in Signal
<1>1. CASE c \in {Stop, Halt, Go, Other}
  <2>1. Meaning(c, l) \in {Stop, Halt, Start, Ready, Nop}
    BY <1>1 DEF Meaning
  <2> QED
    BY <2>1, SignalType
<1>2. CASE c \in Color \X (Restarts \cup {"GoalScored"})
  <2>1. Meaning(c, l) = c
    BY <1>2 DEF Meaning, Color, Go, Other
  <2> QED
    BY <1>2, <2>1 DEF Signal, Coloured
<1> QED
  BY <1>1, <1>2 DEF Char

(* The box waits until nothing is on its way.                              *)
LEMMA BoxCalls ==
  ASSUME FlowInv, Patient, BoxStep, Steady
  PROVE  FlowInv' /\ Quiet /\ Calm
         /\ \E c \in Char, p \in Phase :
              /\ pipe' = <<c>> /\ BoxGoesOn(c, p)
              /\ goals' = [x \in Color |-> IF c = Goal(x) THEN goals[x] + 1 ELSE goals[x]]
<1>1. Quiet /\ BoxWrites /\ UNCHANGED <<coach, sent, link, game>>
  BY DEF BoxStep
<1>2. TypeInv /\ TypeInv'
  BY TypeStep DEF FlowInv, Next
<1>3. PICK c \in Char, p \in Phase :
        /\ BoxGoesOn(c, p)
        /\ pipe' = Append(pipe, c) /\ phase' = p
        /\ goals' = [x \in Color |-> IF c = Goal(x) THEN goals[x] + 1 ELSE goals[x]]
        /\ UNCHANGED <<open, connected, latest>>
  BY <1>1, <1>2, BoxWritten
<1>4. Calm
  <2>1. ASSUME NEW d \in Char, Called(d) PROVE FALSE
    BY <1>1, <2>1 DEF Called, Quiet
  <2> QED
    BY <2>1 DEF FlowInv
<1>5. pipe' = <<c>>
  BY <1>3, <1>4 DEF Calm
<1> DEFINE sig == Meaning(c, latest)
<1>6. \A team : /\ \A s \in In(phase, team) : Leads(p, team, Translated(team, sig), s)
                /\ Suits(p, team, Translated(team, sig))
                /\ Fits(IF Relevant(sig) THEN sig ELSE latest, p)
  BY <1>2, <1>3, <1>4, BoxLeads, ClientAssumption DEF TypeInv, TypeOK, Calm
<1>7. \A r \in Robots : link[r] = {} /\ game[r].state \in In(phase, Team[r])
  BY <1>1, <1>4 DEF Quiet, Calm, Heard
<1>8. sig # Nop
  BY <1>3, BoxMeans
<1> HIDE DEF sig
<1>9. /\ Leads(p, 1, Translated(1, sig), coach.state)
      /\ \A r \in Robots : Leads(p, Team[r], Translated(Team[r], sig), game[r].state)
  BY <1>4, <1>6, <1>7 DEF Calm
<1>10. Called(c)'
  BY <1>1, <1>3, <1>5, <1>6, <1>7, <1>8, <1>9 DEF Called, Awaited, sig
<1>11. FlowInv'
  BY <1>2, <1>3, <1>10 DEF FlowInv
<1> QED
  BY <1>1, <1>3, <1>4, <1>5, <1>11

(* teamcontrol without a signal, or with the one the character means.      *)
LEMMA CoachTells ==
  ASSUME FlowInv, CoachCycle
  PROVE  /\ FlowInv'
         /\ UNCHANGED <<goals, game>>
         /\ \/ UNCHANGED <<pipe, link>>
            \/ \E c \in Char : /\ Called(c) /\ pipe' = <<>>
                               /\ \A r \in Robots : \E m :
                                    /\ link'[r] = {m}
                                    /\ m.sig = Translated(Team[r], Meaning(c, latest))
                                    /\ m.copies = Copies
<1>1. PICK sig \in Signal : Listen(sig) /\ coach' = Coached(coach, sig) /\ PassedOn(sig)
  BY DEF CoachCycle
<1>2. TypeInv /\ TypeInv' /\ open /\ connected
  BY TypeStep DEF FlowInv, Next
<1>3. UNCHANGED game
  BY DEF CoachCycle
<1>4. UNCHANGED <<phase, goals, open, connected>>
  BY <1>1, <1>2, ListenType
<1>5. Over(After(coach.state, Translated(1, sig)), coach'.state)
  BY <1>1, CoachedOver
<1>6. phase \in Phase /\ pipe \in Seq(Char) /\ sent \in [Robots -> Nat] /\ link \in [Robots -> SUBSET Message]
  BY <1>2 DEF TypeInv, TypeOK
<1>7. CASE Calm
  <2>1. sig = Nop /\ UNCHANGED clientVars
    BY <1>1, <1>2, <1>7 DEF Listen, Calm
  <2>2. UNCHANGED <<sent, link>>
    BY <1>1, <2>1 DEF PassedOn
  <2>3. After(coach.state, Translated(1, sig)) = coach.state
    BY <2>1, Translation, Updates DEF Nop
  <2>4. coach'.state \in In(phase, 1)
    BY <1>5, <1>6, <1>7, <2>3, InClosed DEF Calm
  <2>5. \A r \in Robots : Heard(r)'
    BY <1>3, <1>7, <2>1, <2>2 DEF Calm, Heard, clientVars
  <2>6. Calm'
    BY <1>7, <2>1, <2>4, <2>5 DEF Calm, clientVars
  <2> QED
    BY <1>2, <1>3, <1>4, <2>1, <2>2, <2>6 DEF FlowInv, clientVars
<1>8. ASSUME NEW c \in Char, Called(c)
      PROVE  /\ FlowInv' /\ pipe' = <<>>
             /\ \A r \in Robots : \E m : /\ link'[r] = {m}
                                         /\ m.sig = Translated(Team[r], Meaning(c, latest))
                                         /\ m.copies = Copies
  <2>1. pipe = <<c>> /\ pipe # <<>>
    BY <1>8 DEF Called
  <2>2. PICK d \in Char : (pipe # <<>> => d = Head(pipe)) /\ sig = Meaning(d, latest)
    BY <1>1, <1>2, <2>1 DEF Listen
  <2>3. sig = Meaning(c, latest)
    BY <2>1, <2>2
  <2>4. PICK n \in 0..ReadLen : /\ n <= Len(pipe) /\ (n = 0 <=> pipe = <<>>)
                                /\ pipe' = SubSeq(pipe, n + 1, Len(pipe))
    BY <1>1, <1>2, <2>1 DEF Listen
  <2>5. n = 1 /\ Len(pipe) = 1
    BY <2>1, <2>4, ClientAssumption
  <2>6. pipe' = <<>>
    BY <2>1, <2>4, <2>5
  <2>7. latest' = IF Relevant(sig) THEN sig ELSE latest
    BY <1>1, <1>2, <2>1 DEF Listen
  <2>8. Fits(latest', phase')
    BY <1>4, <1>8, <2>3, <2>7 DEF Called
  <2>9. coach'.state \in In(phase, 1)
    <3>1. Leads(phase, 1, Translated(1, sig), coach.state)
      BY <1>8, <2>3 DEF Called, Awaited
    <3>2. After(coach.state, Translated(1, sig)) \in In(phase, 1)
      BY <3>1, LeadsIn
    <3> QED
      BY <1>5, <1>6, <3>2, InClosed
  <2>10. ASSUME NEW r \in Robots
         PROVE  /\ Heard(r)'
                /\ \E m : /\ link'[r] = {m} /\ m.copies = Copies
                          /\ m.sig = Translated(Team[r], Meaning(c, latest))
    <3> DEFINE m == [nr |-> sent[r], sig |-> Translated(Team[r], sig), copies |-> Copies]
    <3>1. sig # Nop /\ link[r] = {}
      BY <1>8, <2>3 DEF Called
    <3>2. link'[r] = {m}
      BY <1>1, <1>6, <3>1 DEF PassedOn
    <3>3. m.sig = Translated(Team[r], sig) /\ m.copies = Copies
      OBVIOUS
    <3> HIDE DEF m
    <3>4. Leads(phase, Team[r], m.sig, game[r].state) /\ Suits(phase, Team[r], m.sig)
      BY <1>8, <2>3, <3>3 DEF Called, Awaited
    <3>5. Heard(r)'
      BY <1>3, <1>4, <3>2, <3>4 DEF Heard
    <3> QED
      BY <2>3, <3>2, <3>3, <3>5
  <2>11. Calm'
    BY <1>4, <2>6, <2>8, <2>9, <2>10 DEF Calm
  <2> QED
    BY <1>2, <1>4, <2>6, <2>10, <2>11 DEF FlowInv
<1> QED
  BY <1>3, <1>4, <1>7, <1>8 DEF FlowInv

LEMMA RobotFollows ==
  ASSUME FlowInv, NEW r \in Robots, RobotLooks(r)
  PROVE  FlowInv'
<1>1. TypeInv /\ TypeInv' /\ phase \in Phase
  BY TypeStep DEF FlowInv, Next, TypeInv, TypeOK
<1>2. UNCHANGED <<phase, open, pipe, connected, latest, coach, link>>
  BY DEF RobotLooks
<1>3. \A q \in Robots : Over(game[q].state, game'[q].state)
  BY <1>1, LooksHeard
<1>4. ASSUME Calm PROVE Calm'
  <2>1. ASSUME NEW q \in Robots PROVE Heard(q)'
    <3>1. Heard(q)
      BY <1>4 DEF Calm
    <3>2. link[q] = {} => game'[q].state \in In(phase, Team[q])
      BY <1>1, <1>3, <3>1, InClosed DEF Heard
    <3>3. \A m \in link[q] : Leads(phase, Team[q], m.sig, game'[q].state)
      BY <1>3, <3>1, LeadsOver DEF Heard
    <3> QED
      BY <1>2, <3>1, <3>2, <3>3 DEF Heard
  <2> QED
    BY <1>2, <1>4, <2>1 DEF Calm
<1>5. ASSUME NEW c \in Char, Called(c) PROVE Called(c)'
  <2>1. \A q \in Robots : Awaited(c, Team[q], game[q].state)'
    BY <1>2, <1>3, <1>5, LeadsOver DEF Called, Awaited
  <2>2. Awaited(c, 1, coach.state)'
    BY <1>2, <1>5 DEF Called, Awaited
  <2> QED
    BY <1>2, <1>5, <2>1, <2>2 DEF Called
<1> QED
  BY <1>1, <1>2, <1>4, <1>5 DEF FlowInv

(* Something can only arrive when the pipe is empty.                       *)
LEMMA RobotHears ==
  ASSUME FlowInv, NEW r \in Robots, RobotReceives(r)
  PROVE  FlowInv' /\ Calm /\ Calm'
<1>1. TypeInv /\ TypeInv' /\ phase \in Phase
  BY TypeStep DEF FlowInv, Next, TypeInv, TypeOK
<1>2. UNCHANGED <<phase, open, pipe, connected, latest, coach>>
  BY DEF RobotReceives
<1>3. PICK m \in link[r] : game'[r].state = After(game[r].state, m.sig)
  BY <1>1, Received
<1>4. Calm
  BY <1>3 DEF FlowInv, Called
<1>5. game'[r].state \in In(phase, Team[r])
  BY <1>3, <1>4, LeadsIn DEF Calm, Heard
<1>6. Heard(r)'
  <2>1. \A k \in link'[r] : Suits(phase, Team[r], k.sig)
    BY <1>1, <1>4, Received DEF Calm, Heard
  <2>2. \A k \in link'[r] : Leads(phase, Team[r], k.sig, game'[r].state)
    BY <1>5, <2>1 DEF Suits
  <2> QED
    BY <1>2, <1>5, <2>1, <2>2 DEF Heard
<1>7. ASSUME NEW q \in Robots \ {r} PROVE Heard(q)'
  <2>1. game'[q] = game[q] /\ link'[q] = link[q]
    BY <1>1, Received
  <2> QED
    BY <1>2, <1>4, <2>1 DEF Calm, Heard
<1>8. Calm'
  BY <1>2, <1>4, <1>6, <1>7 DEF Calm
<1> QED
  BY <1>1, <1>2, <1>4, <1>8 DEF FlowInv

LEMMA FlowStep ==
  ASSUME Patient, Steady, ~Loss, FlowInv, [Next]_vars
  PROVE  FlowInv'
<1>1. CASE BoxStep
  BY <1>1, BoxCalls
<1>2. CASE CoachCycle
  BY <1>2, CoachTells
<1>3. CASE Reconnect \/ \E r \in Robots : LinkLoses(r)
  BY <1>3 DEF Reconnect, LinkLoses
<1>4. CASE \E r \in Robots : RobotLooks(r)
  BY <1>4, RobotFollows
<1>5. CASE \E r \in Robots : RobotReceives(r)
  BY <1>5, RobotHears
<1>6. CASE UNCHANGED vars
  <2>1. TypeInv'
    BY TypeStep DEF FlowInv
  <2>2. UNCHANGED <<phase, open, pipe, connected, latest, coach, link, game>>
    BY <1>6 DEF vars
  <2>3. Calm => Calm'
    BY <2>2 DEF Calm, Heard
  <2>4. \A c \in Char : Called(c) => Called(c)'
    BY <2>2 DEF Called, Awaited
  <2> QED
    BY <2>1, <2>2, <2>3, <2>4 DEF FlowInv
<1> QED
  BY <1>1, <1>2, <1>3, <1>4, <1>5, <1>6 DEF Next

LEMMA FlowAgrees == FlowInv => Agreement
<1> SUFFICES ASSUME FlowInv, Quiet PROVE /\ coach.state \in Expected(1)
                                         /\ \A r \in Robots : game[r].state \in Expected(Team[r])
  BY DEF Agreement
<1>1. Calm
  BY DEF FlowInv, Called, Quiet
<1> QED
  BY <1>1, InExpected DEF Calm, Heard, Quiet

(* If the box waits until a signal has reached everybody, the connection   *)
(* holds and no message is lost for good, then whenever nothing is on its  *)
(* way teamcontrol and the robots of both teams are in the phase of the    *)
(* box, whatever they saw of the ball and in however many copies, and in   *)
(* however late cycles, a signal reached them.                             *)
THEOREM AllAgree ==
  ASSUME Patient, Steady, ~Loss
  PROVE  Spec => []Agreement
<1>1. FlowInv /\ [Next]_vars => FlowInv'
  BY FlowStep
<1> QED
  BY <1>1, FlowInit, FlowAgrees, PTL DEF Spec

(* On the same conditions no robot ever leaves the arrows of the diagram:  *)
(* neither a signal it hears once more nor one that comes after it has     *)
(* gone on by itself takes it where the diagram has no way.                *)
THEOREM NoLeaps ==
  ASSUME Patient, Steady, ~Loss
  PROVE  Spec => AsDrawn
<1> DEFINE Drawn1 == \A r \in Robots : game'[r].state # game[r].state
                                  => game'[r].state \in DrawnFrom(game[r].state)
<1>1. FlowInv /\ [Next]_vars => FlowInv'
  BY FlowStep
<1>2. FlowInv /\ [Next]_vars => [Drawn1]_vars
  <2> SUFFICES ASSUME FlowInv, Next PROVE Drawn1
    OBVIOUS
  <2>1. CASE BoxStep \/ Reconnect \/ CoachCycle \/ \E r \in Robots : LinkLoses(r)
    BY <2>1 DEF BoxStep, Reconnect, CoachCycle, LinkLoses
  <2>2. ASSUME NEW r \in Robots, RobotLooks(r) PROVE Drawn1
    <3>1. \A q \in Robots : Over(game[q].state, game'[q].state)
      BY <2>2, LooksHeard DEF FlowInv
    <3> QED
      BY <3>1, Drawn DEF Moves
  <2>3. ASSUME NEW r \in Robots, RobotReceives(r) PROVE Drawn1
    <3>1. Calm /\ TypeInv
      BY <2>3, RobotHears DEF FlowInv
    <3>2. \E m \in link[r] : game'[r].state = After(game[r].state, m.sig)
      BY <2>3, <3>1, Received
    <3>3. Moves(game[r].state, game'[r].state)
      BY <3>1, <3>2, LeadsIn DEF Calm, Heard
    <3>4. \A q \in Robots \ {r} : game'[q] = game[q]
      BY <2>3, <3>1, Received
    <3> QED
      BY <3>3, <3>4 DEF Moves
  <2> QED
    BY <2>1, <2>2, <2>3 DEF Next
<1> QED
  BY <1>1, <1>2, FlowInit, PTL DEF Spec, AsDrawn
-----------------------------------------------------------------------------
(* The goals of colour c that robot r has counted, and the signal it is    *)
(* told one by.                                                            *)
Count(r, c) == IF c = OwnColor(Team[r]) THEN game[r].own ELSE game[r].opponent
Told(r, c) == <<Seen(Team[r], c), "GoalScored">>

(* All messages on the way to r say the same, so whichever of those        *)
(* that arrive together is looked at, no other signal is passed over; and  *)
(* at most one goal is not counted yet, the one on its way.                *)
CountInv ==
  /\ FlowInv
  /\ \A r \in Robots : \A m, n \in link[r] : m.sig = n.sig
  /\ \A r \in Robots, c \in Color :
       \/ goals[c] <= Count(r, c)
       \/ /\ goals[c] <= Count(r, c) + 1
          /\ pipe = <<Goal(c)>> \/ \E m \in link[r] : m.sig = Told(r, c)

LEMMA CountType ==
  ASSUME TypeInv
  PROVE  /\ \A r \in Robots, c \in Color : Count(r, c) \in Nat
         /\ \A c \in Color : goals[c] \in Nat
<1>1. \A r \in Robots : game[r] \in Game
  BY DEF TypeInv, TypeOK
<1>2. \A c \in Color : goals[c] \in 0..MaxWrites
  BY DEF TypeInv, TypeOK
<1> QED
  BY <1>1, <1>2, ClientAssumption DEF Count, Game

LEMMA CountInit == Init => CountInv
<1> SUFFICES ASSUME Init PROVE CountInv
  OBVIOUS
<1>1. \A r \in Robots : link[r] = {} /\ game[r].own = 0 /\ game[r].opponent = 0
  BY DEF Init
<1>2. \A c \in Color : goals[c] = 0
  BY DEF Init, ClientInit
<1> QED
  BY <1>1, <1>2, FlowInit DEF CountInv, Count

LEMMA GoalMeans == \A c \in Color : \A l : Meaning(Goal(c), l) = Goal(c)
BY DEF Meaning, Goal, Color, Go, Other

LEMMA CountStep ==
  ASSUME Patient, Steady, ~Loss, CountInv, [Next]_vars
  PROVE  CountInv'
<1> DEFINE Same == \A r \in Robots : \A m, n \in link[r] : m.sig = n.sig
           Counted(r, c) ==
             \/ goals[c] <= Count(r, c)
             \/ /\ goals[c] <= Count(r, c) + 1
                /\ pipe = <<Goal(c)>> \/ \E m \in link[r] : m.sig = Told(r, c)
<1>0. /\ FlowInv /\ FlowInv' /\ TypeInv /\ TypeInv' /\ Same
      /\ \A r \in Robots, c \in Color : Counted(r, c)
  BY FlowStep DEF CountInv, FlowInv
<1>1. \A r \in Robots, c \in Color : Count(r, c) \in Nat /\ goals[c] \in Nat
  BY <1>0, CountType
<1> SUFFICES Same' /\ \A r \in Robots, c \in Color : Counted(r, c)'
  BY <1>0 DEF CountInv
<1>2. CASE BoxStep
  <2>1. Quiet /\ UNCHANGED <<link, game>>
    BY <1>0, <1>2, BoxCalls DEF BoxStep
  <2>2. PICK d \in Char, p \in Phase :
          /\ pipe' = <<d>>
          /\ goals' = [x \in Color |-> IF d = Goal(x) THEN goals[x] + 1 ELSE goals[x]]
    BY <1>0, <1>2, BoxCalls
  <2>3. ASSUME NEW r \in Robots, NEW c \in Color PROVE Counted(r, c)'
    <3>1. goals[c] <= Count(r, c)
      BY <1>0, <2>1 DEF Quiet
    <3>2. Count(r, c)' = Count(r, c)
      BY <2>1 DEF Count
    <3>3. goals'[c] = IF d = Goal(c) THEN goals[c] + 1 ELSE goals[c]
      BY <2>2
    <3> QED
      BY <1>1, <2>2, <3>1, <3>2, <3>3
  <2> QED
    BY <1>0, <2>1, <2>3
<1>3. CASE CoachCycle
  <2>1. UNCHANGED <<goals, game>>
    BY <1>0, <1>3, CoachTells
  <2>2. \A r \in Robots, c \in Color : Count(r, c)' = Count(r, c) /\ Told(r, c)' = Told(r, c)
    BY <2>1 DEF Count, Told
  <2>3. CASE UNCHANGED <<pipe, link>>
    BY <1>0, <2>1, <2>2, <2>3
  <2>4. ASSUME NEW d \in Char, Called(d), pipe' = <<>>,
               \A r \in Robots : \E m : /\ link'[r] = {m}
                                        /\ m.sig = Translated(Team[r], Meaning(d, latest))
        PROVE  Same' /\ \A r \in Robots, c \in Color : Counted(r, c)'
    <3>1. Same'
      BY <2>4
    <3>2. ASSUME NEW r \in Robots, NEW c \in Color PROVE Counted(r, c)'
      <4>1. pipe = <<d>> /\ link[r] = {}
        BY <2>4 DEF Called
      <4>2. CASE goals[c] <= Count(r, c)
        BY <2>1, <2>2, <4>2
      <4>3. CASE goals[c] <= Count(r, c) + 1 /\ d = Goal(c)
        <5>1. Meaning(d, latest) = Goal(c)
          BY <4>3, GoalMeans
        <5>2. Translated(Team[r], Goal(c)) = Told(r, c)
          BY Translation DEF Goal, Told
        <5>3. \E m \in link'[r] : m.sig = Told(r, c)
          BY <2>4, <5>1, <5>2
        <5> QED
          BY <2>1, <2>2, <4>3, <5>3
      <4> QED
        BY <1>0, <4>1, <4>2, <4>3
    <3> QED
      BY <3>1, <3>2
  <2> QED
    BY <1>0, <1>3, <2>3, <2>4, CoachTells
<1>4. ASSUME NEW q \in Robots, RobotLooks(q)
      PROVE  Same' /\ \A r \in Robots, c \in Color : Counted(r, c)'
  <2>1. UNCHANGED <<goals, pipe, link>>
    BY <1>4 DEF RobotLooks
  <2>2. \A r \in Robots, c \in Color : Count(r, c)' = Count(r, c) /\ Told(r, c)' = Told(r, c)
    BY <1>0, <1>4, LooksHeard DEF Count, Told
  <2> QED
    BY <1>0, <2>1, <2>2
<1>5. ASSUME NEW q \in Robots, RobotReceives(q)
      PROVE  Same' /\ \A r \in Robots, c \in Color : Counted(r, c)'
  <2>1. UNCHANGED <<goals, pipe>>
    BY <1>5 DEF RobotReceives
  <2>2. PICK m \in link[q] :
          /\ game'[q].own = IF m.sig = <<"own", "GoalScored">>
                            THEN game[q].own + 1 ELSE game[q].own
          /\ game'[q].opponent = IF m.sig = <<"opponent", "GoalScored">>
                                 THEN game[q].opponent + 1 ELSE game[q].opponent
    BY <1>0, <1>5, Received
  <2>3. /\ \A k \in link'[q] : \E n \in link[q] : k.sig = n.sig
        /\ \A r \in Robots \ {q} : game'[r] = game[r] /\ link'[r] = link[r]
    BY <1>0, <1>5, Received
  <2>4. Same'
    BY <1>0, <2>3
  <2>5. ASSUME NEW r \in Robots \ {q}, NEW c \in Color PROVE Counted(r, c)'
    <3>1. Count(r, c)' = Count(r, c) /\ Told(r, c)' = Told(r, c)
      BY <2>3 DEF Count, Told
    <3> QED
      BY <1>0, <2>1, <2>3, <3>1
  <2>6. ASSUME NEW c \in Color PROVE Counted(q, c)'
    <3>1. pipe = <<>>
      BY <1>0, <1>5, RobotHears DEF Calm
    <3>2. game[q].own \in Nat /\ game[q].opponent \in Nat
      BY <1>0 DEF TypeInv, TypeOK, Game
    <3>3. Count(q, c)' = IF m.sig = Told(q, c) THEN Count(q, c) + 1 ELSE Count(q, c)
      BY <2>2 DEF Count, Told, Seen
    <3>4. CASE goals[c] <= Count(q, c)
      BY <1>1, <2>1, <3>3, <3>4
    <3>5. CASE goals[c] <= Count(q, c) + 1 /\ \E n \in link[q] : n.sig = Told(q, c)
      <4>1. m.sig = Told(q, c)
        BY <1>0, <3>5
      <4> QED
        BY <2>1, <3>3, <3>5, <4>1
    <3> QED
      BY <1>0, <3>1, <3>4, <3>5
  <2> QED
    BY <2>4, <2>5, <2>6
<1>6. CASE Reconnect \/ \E r \in Robots : LinkLoses(r)
  BY <1>6 DEF Reconnect, LinkLoses
<1>7. CASE UNCHANGED vars
  <2>1. UNCHANGED <<goals, pipe, link, game>>
    BY <1>7 DEF vars
  <2>2. \A r \in Robots, c \in Color : Count(r, c)' = Count(r, c) /\ Told(r, c)' = Told(r, c)
    BY <2>1 DEF Count, Told
  <2> QED
    BY <1>0, <2>1, <2>2
<1> QED
  BY <1>2, <1>3, <1>4, <1>5, <1>6, <1>7 DEF Next

(* Only a goal's character makes teamcontrol tell a robot of a goal.       *)
LEMMA OnlyGoals ==
  ASSUME NEW r \in Robots, NEW c \in Color, NEW d \in Char, NEW l,
         Translated(Team[r], Meaning(d, l)) = Told(r, c)
  PROVE  d = Goal(c)
<1>1. Seen(Team[r], c) # "any"
  BY DEF Seen
<1>2. CASE Meaning(d, l) \in {Start, Ready, Nop, Stop, Halt}
  <2>1. PICK x : Translated(Team[r], Meaning(d, l)) = <<"any", x>>
    BY <1>2, Translation DEF Start, Ready, Nop, Stop, Halt
  <2> QED
    BY <1>1, <2>1 DEF Told
<1>3. CASE Meaning(d, l) \notin {Start, Ready, Nop, Stop, Halt}
  <2>1. Meaning(d, l) = d
    BY <1>3 DEF Meaning
  <2>2. PICK col \in Color, x \in Restarts \cup {"GoalScored"} : d = <<col, x>>
    BY <1>3, <2>1 DEF Char, Go, Other, Meaning
  <2>3. Translated(Team[r], d) = <<Seen(Team[r], col), x>>
    BY <2>2, Translation
  <2>4. x = "GoalScored" /\ Seen(Team[r], col) = Seen(Team[r], c)
    BY <2>1, <2>3 DEF Told
  <2>5. col = c
    BY <2>4 DEF Seen, OwnColor, Color
  <2> QED
    BY <2>2, <2>4, <2>5 DEF Goal
<1> QED
  BY <1>2, <1>3

(* What a goal may add to a robot's count: the copies of its signal that   *)
(* are still to come are within what the goals allow.  There is at most    *)
(* one message on the way to a robot.                                      *)
Within(r, c) ==
  /\ Count(r, c) <= Copies * goals[c]
  /\ pipe = <<Goal(c)>> => Count(r, c) + Copies <= Copies * goals[c]
  /\ \A m \in link[r] : m.sig = Told(r, c) => Count(r, c) + m.copies <= Copies * goals[c]

BoundInv ==
  /\ FlowInv
  /\ \A r \in Robots : \A m, n \in link[r] : m = n
  /\ \A r \in Robots : \A m \in link[r] : m.copies > 0
  /\ \A r \in Robots, c \in Color : Within(r, c)

LEMMA Times == \A g \in Nat : Copies * g \in Nat /\ Copies * (g + 1) = Copies * g + Copies
BY TeamAssumption

LEMMA BoundInit == Init => BoundInv
<1> SUFFICES ASSUME Init PROVE BoundInv
  OBVIOUS
<1>1. /\ \A r \in Robots : link[r] = {} /\ game[r].own = 0 /\ game[r].opponent = 0
      /\ pipe = <<>> /\ \A c \in Color : goals[c] = 0
  BY DEF Init, ClientInit
<1>2. ASSUME NEW r \in Robots, NEW c \in Color PROVE Within(r, c)
  <2>1. Count(r, c) = 0 /\ goals[c] = 0 /\ Copies * goals[c] \in Nat
    BY <1>1, Times DEF Count
  <2> QED
    BY <1>1, <2>1 DEF Within
<1> QED
  BY <1>1, <1>2, FlowInit DEF BoundInv

LEMMA BoundStep ==
  ASSUME Patient, Steady, ~Loss, BoundInv, [Next]_vars
  PROVE  BoundInv'
<1> DEFINE Alone == /\ \A r \in Robots : \A m, n \in link[r] : m = n
                    /\ \A r \in Robots : \A m \in link[r] : m.copies > 0
           Bound == \A r \in Robots, c \in Color : Within(r, c)
<1>0. /\ FlowInv /\ FlowInv' /\ TypeInv /\ TypeInv' /\ Alone /\ Bound
  BY FlowStep DEF BoundInv, FlowInv
<1>1. \A r \in Robots, c \in Color :
        Count(r, c) \in Nat /\ goals[c] \in Nat /\ Copies * goals[c] \in Nat
  BY <1>0, CountType, Times
<1>2. Copies \in Nat \ {0}
  BY TeamAssumption
<1> SUFFICES Alone' /\ Bound'
  BY <1>0 DEF BoundInv
<1>3. CASE BoxStep
  <2>1. Quiet /\ UNCHANGED <<link, game>>
    BY <1>0, <1>3, BoxCalls DEF BoxStep
  <2>2. PICK d \in Char, p \in Phase :
          /\ pipe' = <<d>>
          /\ goals' = [x \in Color |-> IF d = Goal(x) THEN goals[x] + 1 ELSE goals[x]]
    BY <1>0, <1>3, BoxCalls
  <2>3. ASSUME NEW r \in Robots, NEW c \in Color PROVE Within(r, c)'
    <3>1. Count(r, c) <= Copies * goals[c] /\ link'[r] = {} /\ Count(r, c)' = Count(r, c)
      BY <1>0, <2>1 DEF Quiet, Within, Count
    <3>2. CASE d = Goal(c)
      <4>1. Copies * goals'[c] = Copies * goals[c] + Copies
        BY <1>1, <2>2, <3>2, Times
      <4> QED
        BY <1>1, <1>2, <3>1, <4>1 DEF Within
    <3>3. CASE d # Goal(c)
      <4>1. goals'[c] = goals[c] /\ pipe' # <<Goal(c)>>
        BY <2>2, <3>3
      <4> QED
        BY <3>1, <4>1 DEF Within
    <3> QED
      BY <3>2, <3>3
  <2> QED
    BY <1>0, <2>1, <2>3
<1>4. CASE CoachCycle
  <2>1. UNCHANGED <<goals, game>>
    BY <1>0, <1>4, CoachTells
  <2>2. \A r \in Robots, c \in Color : Count(r, c)' = Count(r, c) /\ Told(r, c)' = Told(r, c)
    BY <2>1 DEF Count, Told
  <2>3. CASE UNCHANGED <<pipe, link>>
    BY <1>0, <2>1, <2>2, <2>3 DEF Within
  <2>4. ASSUME NEW d \in Char, Called(d), pipe' = <<>>,
               \A r \in Robots : \E m : /\ link'[r] = {m}
                                        /\ m.sig = Translated(Team[r], Meaning(d, latest))
                                        /\ m.copies = Copies
        PROVE  Alone' /\ Bound'
    <3>1. Alone'
      BY <1>2, <2>4
    <3>2. ASSUME NEW r \in Robots, NEW c \in Color PROVE Within(r, c)'
      <4>1. Count(r, c)' <= Copies * goals'[c]
        BY <1>0, <2>1, <2>2 DEF Within
      <4>2. ASSUME NEW m \in link'[r], m.sig = Told(r, c)'
            PROVE  Count(r, c)' + m.copies <= Copies * goals'[c]
        <5>1. m.sig = Translated(Team[r], Meaning(d, latest)) /\ m.copies = Copies
          BY <2>4
        <5>2. d = Goal(c)
          BY <2>2, <4>2, <5>1, OnlyGoals
        <5>3. Count(r, c) + Copies <= Copies * goals[c]
          BY <1>0, <2>4, <5>2 DEF Within, Called
        <5> QED
          BY <2>1, <2>2, <5>1, <5>3
      <4> QED
        BY <2>4, <4>1, <4>2 DEF Within
    <3> QED
      BY <3>1, <3>2
  <2> QED
    BY <1>0, <1>4, <2>3, <2>4, CoachTells
<1>5. ASSUME NEW q \in Robots, RobotLooks(q) PROVE Alone' /\ Bound'
  <2>1. UNCHANGED <<goals, pipe, link>>
    BY <1>5 DEF RobotLooks
  <2>2. \A r \in Robots, c \in Color : Count(r, c)' = Count(r, c) /\ Told(r, c)' = Told(r, c)
    BY <1>0, <1>5, LooksHeard DEF Count, Told
  <2> QED
    BY <1>0, <2>1, <2>2 DEF Within
<1>6. ASSUME NEW q \in Robots, RobotReceives(q) PROVE Alone' /\ Bound'
  <2>1. UNCHANGED <<goals, pipe>>
    BY <1>6 DEF RobotReceives
  <2>2. PICK m \in link[q] :
          /\ game'[q].own = IF m.sig = <<"own", "GoalScored">>
                            THEN game[q].own + 1 ELSE game[q].own
          /\ game'[q].opponent = IF m.sig = <<"opponent", "GoalScored">>
                                 THEN game[q].opponent + 1 ELSE game[q].opponent
    BY <1>0, <1>6, Received
  <2>3. link[q] = {m} /\ m \in Message
    BY <1>0 DEF TypeInv, TypeOK
  <2>4. \A k \in link'[q] : k = [m EXCEPT !.copies = @ - 1] /\ m.copies > 1
    <3>1. link'[q] \subseteq Left({m}, {m})
      BY <1>0, <1>6, <2>3, Received
    <3> QED
      BY <3>1 DEF Left
  <2>5. \A k \in link'[q] : k.sig = m.sig /\ k.copies = m.copies - 1 /\ k.copies > 0
    BY <2>3, <2>4 DEF Message
  <2>6. \A r \in Robots \ {q} : game'[r] = game[r] /\ link'[r] = link[r]
    BY <1>0, <1>6, Received
  <2>7. Alone'
    BY <1>0, <2>4, <2>5, <2>6
  <2>8. ASSUME NEW r \in Robots \ {q}, NEW c \in Color PROVE Within(r, c)'
    <3>1. Count(r, c)' = Count(r, c) /\ Told(r, c)' = Told(r, c)
      BY <2>6 DEF Count, Told
    <3> QED
      BY <1>0, <2>1, <2>6, <3>1 DEF Within
  <2>9. ASSUME NEW c \in Color PROVE Within(q, c)'
    <3>1. pipe' # <<Goal(c)>>
      BY <1>0, <1>6, RobotHears DEF Calm
    <3>2. Count(q, c)' = (IF m.sig = Told(q, c) THEN Count(q, c) + 1 ELSE Count(q, c))
          /\ Told(q, c)' = Told(q, c)
      BY <2>2 DEF Count, Told, Seen
    <3>3. m.copies \in Nat /\ m.copies > 0
      BY <1>0, <2>3 DEF Message
    <3>4. Count(q, c) <= Copies * goals[c]
          /\ (m.sig = Told(q, c) => Count(q, c) + m.copies <= Copies * goals[c])
      BY <1>0 DEF Within
    <3>5. Count(q, c)' <= Copies * goals'[c]
      BY <1>1, <2>1, <3>2, <3>3, <3>4
    <3>6. ASSUME NEW k \in link'[q], k.sig = Told(q, c)'
          PROVE  Count(q, c)' + k.copies <= Copies * goals'[c]
      <4>1. m.sig = Told(q, c) /\ k.copies = m.copies - 1
        BY <2>5, <3>2, <3>6
      <4> QED
        BY <1>1, <2>1, <3>2, <3>3, <3>4, <4>1
    <3> QED
      BY <3>1, <3>5, <3>6 DEF Within
  <2> QED
    BY <2>7, <2>8, <2>9
<1>7. CASE Reconnect \/ \E r \in Robots : LinkLoses(r)
  BY <1>7 DEF Reconnect, LinkLoses
<1>8. CASE UNCHANGED vars
  <2>1. UNCHANGED <<goals, pipe, link, game>>
    BY <1>8 DEF vars
  <2>2. \A r \in Robots, c \in Color : Count(r, c)' = Count(r, c) /\ Told(r, c)' = Told(r, c)
    BY <2>1 DEF Count, Told
  <2> QED
    BY <1>0, <2>1, <2>2 DEF Within
<1> QED
  BY <1>3, <1>4, <1>5, <1>6, <1>7, <1>8 DEF Next

(* On the same conditions no goal is forgotten and none comes from         *)
(* nowhere: whenever nothing is on its way, every robot has counted the    *)
(* goals the box has given, each on its own side, and it never counts one  *)
(* more often than its signal has been received.                           *)
THEOREM NoGoalForgotten ==
  ASSUME Patient, Steady, ~Loss
  PROVE  Spec => []GoalsAreCounted
<1>1. CountInv /\ [Next]_vars => CountInv'
  BY CountStep
<1>2. BoundInv /\ [Next]_vars => BoundInv'
  BY BoundStep
<1>3. CountInv /\ BoundInv => GoalsAreCounted
  <2> SUFFICES ASSUME CountInv, BoundInv, NEW r \in Robots, NEW c \in Color
               PROVE  (Quiet => goals[c] <= Count(r, c)) /\ Count(r, c) <= Copies * goals[c]
    BY DEF GoalsAreCounted, Count
  <2>1. Quiet => goals[c] <= Count(r, c)
    BY DEF CountInv, Quiet
  <2> QED
    BY <2>1 DEF BoundInv, Within
<1> QED
  BY <1>1, <1>2, <1>3, CountInit, BoundInit, PTL DEF Spec
=============================================================================
