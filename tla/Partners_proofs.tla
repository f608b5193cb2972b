--------------------------- MODULE Partners_proofs ---------------------------
(***************************************************************************)
(* Proofs about the two partners of a robot's program.  First the          *)
(* asynchronous protocol with the board, for every limit, period, lag and  *)
(* amount of noise; then the simulator: no robot is moved by the vector of *)
(* another program, for any number of programs, robots and lost answers.   *)
(***************************************************************************)
EXTENDS BoardLine, SimLink, SequenceTheorems, NumberLemmas, TLAPS

(* Making room and appending a command keeps the queue within its limit.   *)
LEMMA RoomType ==
  ASSUME NEW q \in Seq(Commands), Len(q) <= Limit + 1, NEW cmd \in Commands
  PROVE  /\ Room(q) \in Seq(Commands)
         /\ Len(Room(q)) <= Limit
         /\ Len(q) <= Limit => Room(q) = q
         /\ Len(q) > Limit => Len(Room(q)) = Limit
         /\ Append(Room(q), cmd) \in Seq(Commands)
         /\ Len(Append(Room(q), cmd)) = Len(Room(q)) + 1
<1>1. Limit \in Nat /\ Len(q) \in Nat
  BY BoardAssumption
<1>2. CASE Len(q) > Limit
  <2>1. q # <<>> /\ Tail(q) \in Seq(Commands) /\ Len(Tail(q)) = Len(q) - 1
    BY <1>1, <1>2
  <2>2. Room(q) = Tail(q)
    BY <1>2 DEF Room
  <2>3. Len(Tail(q)) = Limit
    <3>1. Len(q) = Limit + 1
      BY <1>1, <1>2
    <3> QED BY <1>1, <2>1, <3>1
  <2>4. Room(q) \in Seq(Commands) /\ Len(Room(q)) = Limit
    BY <2>1, <2>2, <2>3
  <2> QED BY <1>1, <1>2, <2>4, AppendProperties
<1>3. CASE Len(q) <= Limit
  <2>1. Room(q) = q
    BY <1>1, <1>3 DEF Room
  <2> QED BY <1>1, <1>3, <2>1, AppendProperties
<1> QED BY <1>1, <1>2, <1>3

(* A step of the counter modulo the period is a number below the period.   *)
LEMMA LoopType == \A l \in Nat : l % Period \in 0 .. Period - 1
BY BoardAssumption

(* The answer to a command is one of the answers, and not junk.            *)
LEMMA AnswerType ==
  ASSUME NEW cmd \in Commands
  PROVE  /\ AnswerTo(cmd) \in Answers
         /\ Understood(cmd, AnswerTo(cmd)) = {TRUE}
BY DEF AnswerTo, Answers, Commands, Understood

(* What is left of the line is a line.                                     *)
LEMMA LineType ==
  ASSUME NEW s \in Seq(Answers)
  PROVE  /\ s # <<>> => Tail(s) \in Seq(Answers)
         /\ \A i \in 1..Len(s) : Without(s, i) \in Seq(Answers)
         /\ \A i \in 0..Len(s) : SubSeq(s, i + 1, Len(s)) \in Seq(Answers)
         /\ \A i \in 1..Len(s) : [s EXCEPT ![i] = "junk"] \in Seq(Answers)
<1>1. s # <<>> => Tail(s) \in Seq(Answers)
  OBVIOUS
<1>2. \A i \in 0..Len(s) : SubSeq(s, i + 1, Len(s)) \in Seq(Answers)
  BY SubSeqProperties
<1>3. ASSUME NEW i \in 1..Len(s) PROVE Without(s, i) \in Seq(Answers)
  <2>1. SubSeq(s, 1, i - 1) \in Seq(Answers) /\ SubSeq(s, i + 1, Len(s)) \in Seq(Answers)
    BY SubSeqProperties
  <2> QED BY <2>1, ConcatProperties DEF Without
<1>4. ASSUME NEW i \in 1..Len(s) PROVE [s EXCEPT ![i] = "junk"] \in Seq(Answers)
  BY DEF Answers
<1> QED BY <1>1, <1>2, <1>3, <1>4

(* A collecting step gives the counter, and the queue it leaves, a type.   *)
LEMMA FewerType == \A c \in 0 .. Limit + 1 :
                     Fewer(c) \in 0 .. Limit + 1 /\ Fewer(c) <= c
BY BoardAssumption DEF Fewer

(* The type invariant.                                                     *)
THEOREM TypeCorrect == Spec => []TypeOK
<1>1. Init => TypeOK
  <2> SUFFICES ASSUME Init PROVE TypeOK
    OBVIOUS
  <2>1. queue \in Seq(Commands) /\ Len(queue) = 0 /\ line \in Seq(Answers)
    BY DEF Init
  <2>2. counter \in 0 .. Limit + 1 /\ loop \in 0 .. Period - 1
        /\ n \in 0..Max /\ noise \in 0..MaxNoise /\ 0 <= Limit + 1
    BY BoardAssumption DEF Init
  <2> QED BY <2>1, <2>2 DEF Init, TypeOK
<1>2. TypeOK /\ [Next]_vars => TypeOK'
  <2> SUFFICES ASSUME TypeOK, [Next]_vars PROVE TypeOK'
    OBVIOUS
  <2> USE DEF TypeOK
  <2>1. ASSUME NEW cmd \in Commands, Command(cmd) PROVE TypeOK'
    <3>1. n' \in 0..Max /\ slow' \in BOOLEAN /\ noise' \in 0..MaxNoise
          /\ at' \in {"command", "collect"} /\ measured' \in BOOLEAN /\ port' \in BOOLEAN
      <4>1. n' \in 0..Max
        BY <2>1, BoardAssumption DEF Command
      <4>2. port' \in BOOLEAN
        BY <2>1 DEF Command
      <4> QED BY <2>1, <4>1, <4>2 DEF Command, environment
    <3>2. CASE Send(cmd)
      <4>1. queue' \in Seq(Commands) /\ Len(queue') <= Limit + 1
        BY <3>2, RoomType, BoardAssumption DEF Send
      <4>2. counter' \in 0 .. Limit + 1
        BY <3>2, BoardAssumption DEF Send
      <4>3. loop' \in 0 .. Period - 1
        <5>1. loop + 1 \in Nat
          BY BoardAssumption
        <5> QED BY <3>2, <5>1, LoopType DEF Send
      <4>4. line' \in Seq(Answers)
        BY <3>2, AnswerType, AppendProperties DEF Send
      <4>5. lost' \in BOOLEAN /\ buffered' \in {"none", "head", "stale"} /\ clean' \in BOOLEAN
        BY <3>2 DEF Send
      <4> QED BY <3>1, <4>1, <4>2, <4>3, <4>4, <4>5
    <3>3. CASE Reinit
      <4>1. queue' = <<>> /\ queue' \in Seq(Commands) /\ Len(queue') <= Limit + 1
        BY <3>3, BoardAssumption DEF Reinit, InitSucceeds, InitFails
      <4>2. counter' \in 0 .. Limit + 1 /\ loop' \in 0 .. Period - 1 /\ lost' \in BOOLEAN
        <5>1. 0 \in 0 .. Limit + 1 /\ 0 \in 0 .. Period - 1
          BY BoardAssumption
        <5> QED BY <3>3, <5>1 DEF Reinit, InitSucceeds, InitFails
      <4>3. line' \in Seq(Answers)
        <5>1. CASE \E late \in 0 .. IF slow THEN Late ELSE 0 : line' = [i \in 1..late |-> "OK"]
          BY <5>1, BoardAssumption DEF Answers
        <5>2. CASE \E i \in 0..Len(line) : line' = SubSeq(line, i + 1, Len(line))
          BY <5>2, LineType
        <5> QED BY <3>3, <5>1, <5>2 DEF Reinit, InitSucceeds, InitFails
      <4>4. buffered' \in {"none", "head", "stale"} /\ clean' \in BOOLEAN
        BY <3>3 DEF Reinit, InitSucceeds, InitFails
      <4> QED BY <3>1, <4>1, <4>2, <4>3, <4>4
    <3> QED BY <2>1, <3>2, <3>3 DEF Command
  <2>2. CASE Answer
    <3>1. line' \in Seq(Answers) /\ buffered' \in {"none", "head", "stale"}
      BY <2>2, LineType DEF Answer
    <3>2. /\ queue' \in Seq(Commands) /\ Len(queue') <= Limit + 1
          /\ counter' \in 0 .. Limit + 1
          /\ n' \in 0..Max /\ measured' \in BOOLEAN
      <4>1. CASE queue # <<>> /\ Matched
        <5>1. Tail(queue) \in Seq(Commands) /\ Len(Tail(queue)) = Len(queue) - 1
          BY <4>1
        <5>2. Len(Tail(queue)) <= Limit + 1
          BY <5>1, BoardAssumption
        <5>3. n' \in 0..Max
          BY <2>2, <4>1, BoardAssumption DEF Answer, Matched
        <5>4. measured' \in BOOLEAN
          BY <4>1 DEF Matched
        <5> QED BY <4>1, <5>1, <5>2, <5>3, <5>4, FewerType DEF Matched
      <4> QED BY <2>2, <4>1 DEF Answer
    <3> QED BY <2>2, <3>1, <3>2 DEF Answer, environment
  <2>3. CASE Overflow
    <3>1. line' \in Seq(Answers) /\ counter' \in 0 .. Limit + 1 /\ at' = "command"
      BY <2>3, LineType, FewerType DEF Overflow, EndCollect
    <3> QED BY <2>3, <3>1 DEF Overflow, environment
  <2>4. CASE Silence
    <3>1. counter' \in 0 .. Limit + 1 /\ at' = "command"
      BY <2>4, FewerType DEF Silence, EndCollect
    <3> QED BY <2>4, <3>1 DEF Silence, environment
  <2>5. ASSUME NEW i \in 1..Len(line), Lose(i) \/ Garble(i) PROVE TypeOK'
    <3>1. line' \in Seq(Answers) /\ noise' \in 0..MaxNoise
      BY <2>5, LineType, BoardAssumption DEF Lose, Garble
    <3> QED BY <2>5, <3>1 DEF Lose, Garble, tmc
  <2>6. CASE FallBehind \/ CatchUp
    <3>1. noise' \in 0..MaxNoise
      BY <2>6, BoardAssumption DEF FallBehind, CatchUp
    <3> QED BY <2>6, <3>1 DEF FallBehind, CatchUp, tmc
  <2>7. CASE UNCHANGED vars
    BY <2>7 DEF vars, tmc, environment
  <2> QED BY <2>1, <2>2, <2>3, <2>4, <2>5, <2>6, <2>7 DEF Next, Collect, Disturbance
<1> QED BY <1>1, <1>2, PTL DEF Spec

(* The two counts only grow together, and each step that shrinks the queue *)
(* without the counter is taken when the queue is longer: needs the guard  *)
(* of Send, and that an answer counted is an answer taken.                 *)
THEOREM CountedWait == Spec => []CountedCommandsWait
<1>1. Init => CountedCommandsWait
  <2>1. Len(<<>>) = 0
    OBVIOUS
  <2> QED BY <2>1 DEF Init, CountedCommandsWait
<1>2. TypeOK /\ CountedCommandsWait /\ [Next]_vars => CountedCommandsWait'
  <2> SUFFICES ASSUME TypeOK, CountedCommandsWait, [Next]_vars PROVE counter' <= Len(queue')
    BY DEF CountedCommandsWait
  <2>t. /\ queue \in Seq(Commands) /\ Len(queue) \in Nat /\ Len(queue) <= Limit + 1
        /\ counter \in Nat /\ counter <= Len(queue) /\ Limit \in Nat
    BY BoardAssumption DEF TypeOK, CountedCommandsWait
  <2>f. Fewer(counter) \in Nat /\ Fewer(counter) <= counter
        /\ (counter > 0 => Fewer(counter) = counter - 1)
        /\ (counter = 0 => Fewer(counter) = 0)
    BY <2>t DEF Fewer
  <2>1. ASSUME NEW cmd \in Commands, Command(cmd) PROVE counter' <= Len(queue')
    <3>1. CASE Send(cmd)
      <4>1. counter <= Limit /\ counter' = counter + 1 /\ queue' = Append(Room(queue), cmd)
        BY <3>1 DEF Send
      <4>2. /\ Len(queue') = Len(Room(queue)) + 1
            /\ Len(queue) <= Limit => Room(queue) = queue
            /\ Len(queue) > Limit => Len(Room(queue)) = Limit
        BY <2>t, <4>1, RoomType
      <4>3. CASE Len(queue) <= Limit
        <5>1. Len(queue') = Len(queue) + 1
          BY <4>2, <4>3
        <5> QED BY <2>t, <4>1, <5>1
      <4>4. CASE Len(queue) > Limit
        <5>1. Len(queue') = Limit + 1
          BY <4>2, <4>4
        <5> QED BY <2>t, <4>1, <5>1
      <4> QED BY <2>t, <4>3, <4>4
    <3>2. CASE Reinit
      <4>1. counter' = 0 /\ Len(queue') = 0
        BY <3>2 DEF Reinit, InitSucceeds, InitFails
      <4> QED BY <4>1
    <3> QED BY <2>1, <3>1, <3>2 DEF Command
  <2>2. CASE Answer
    <3>1. CASE queue # <<>> /\ Matched
      <4>1. counter' = Fewer(counter) /\ Len(queue') = Len(queue) - 1 /\ Len(queue) > 0
        BY <2>t, <3>1 DEF Matched
      <4> QED BY <2>t, <2>f, <4>1
    <3>2. CASE UNCHANGED <<queue, counter>>
      BY <2>t, <3>2
    <3> QED BY <2>2, <3>1, <3>2 DEF Answer
  <2>3. CASE Overflow \/ Silence
    <3>1. queue' = queue /\ counter' \in {counter, Fewer(counter)}
      BY <2>3 DEF Overflow, Silence, EndCollect
    <3> QED BY <2>t, <2>f, <3>1
  <2>4. CASE Disturbance \/ CatchUp \/ UNCHANGED vars
    <3>1. queue' = queue /\ counter' = counter
      BY <2>4 DEF Disturbance, Lose, Garble, FallBehind, CatchUp, vars, tmc
    <3> QED BY <2>t, <3>1
  <2> QED BY <2>1, <2>2, <2>3, <2>4 DEF Next, Collect
<1> QED BY <1>1, <1>2, TypeCorrect, PTL DEF Spec

(* What makes InStep inductive: a line nothing has gone wrong on is short, *)
(* so that the queue drops nothing and the board is not given up, and no   *)
(* piece of a lost answer spoils the next one.                             *)
Steady == clean => Len(line) <= Limit /\ buffered # "stale"

(* Commands and answers stay in step for as long as nothing goes wrong.    *)
THEOREM StaysInStep == Spec => []InStep
<1>1. Init => InStep /\ Steady
  BY BoardAssumption DEF Init, InStep, Steady
<1>2. /\ TypeOK /\ CountedCommandsWait /\ InStep /\ Steady
      /\ [Next]_vars
      => InStep' /\ Steady'
  <2> SUFFICES ASSUME TypeOK, CountedCommandsWait, InStep, Steady, [Next]_vars, clean'
               PROVE  /\ ~lost'
                      /\ Len(queue') = Len(line')
                      /\ \A i \in 1..Len(line') : line'[i] = AnswerTo(queue'[i])
                      /\ Len(line') <= Limit /\ buffered' # "stale"
    BY DEF InStep, Steady
  <2>t. /\ queue \in Seq(Commands) /\ Len(queue) \in Nat /\ line \in Seq(Answers)
        /\ Len(line) \in Nat /\ Limit \in Nat /\ counter \in Nat /\ counter <= Len(queue)
        /\ Len(queue) <= Limit + 1
    BY BoardAssumption DEF TypeOK, CountedCommandsWait
  <2>c. clean => /\ ~lost
                 /\ Len(queue) = Len(line)
                 /\ \A i \in 1..Len(line) : line[i] = AnswerTo(queue[i])
                 /\ Len(line) <= Limit /\ buffered # "stale"
    BY DEF InStep, Steady
  <2>1. ASSUME NEW cmd \in Commands, Send(cmd)
        PROVE  /\ ~lost' /\ Len(queue') = Len(line')
               /\ \A i \in 1..Len(line') : line'[i] = AnswerTo(queue'[i])
               /\ Len(line') <= Limit /\ buffered' # "stale"
    <3>1. /\ clean /\ Len(line) < Buffer /\ Len(line) < Limit
          /\ line' = Append(line, AnswerTo(cmd)) /\ queue' = Append(Room(queue), cmd)
          /\ lost' = lost /\ buffered' = buffered
      BY <2>1 DEF Send
    <3>2. Room(queue) = queue
      BY <2>t, <2>c, <3>1 DEF Room
    <3>3. Len(queue') = Len(line') /\ Len(line') <= Limit
      BY <2>t, <2>c, <3>1, <3>2, AnswerType, AppendProperties
    <3>4. ASSUME NEW i \in 1..Len(line') PROVE line'[i] = AnswerTo(queue'[i])
      <4>1. /\ Len(line') = Len(line) + 1 /\ Len(line) = Len(queue)
            /\ line'[Len(line) + 1] = AnswerTo(cmd) /\ queue'[Len(line) + 1] = cmd
            /\ \A j \in 1..Len(line) : line'[j] = line[j] /\ queue'[j] = queue[j]
        BY <2>t, <2>c, <3>1, <3>2, AnswerType, AppendProperties
      <4>2. i \in 1..Len(line) \/ i = Len(line) + 1
        BY <2>t, <4>1
      <4> QED BY <2>c, <3>1, <4>1, <4>2
    <3> QED BY <2>c, <3>1, <3>3, <3>4
  <2>2. ASSUME Reinit
        PROVE  /\ ~lost' /\ Len(queue') = Len(line')
               /\ \A i \in 1..Len(line') : line'[i] = AnswerTo(queue'[i])
               /\ Len(line') <= Limit /\ buffered' # "stale"
    <3>1. lost' = FALSE /\ queue' = <<>> /\ line' = <<>> /\ buffered = "none" /\ buffered' = "none"
      BY <2>2 DEF Reinit, InitSucceeds, InitFails
    <3> QED BY <2>t, <3>1
  <2>3. ASSUME Answer
        PROVE  /\ ~lost' /\ Len(queue') = Len(line')
               /\ \A i \in 1..Len(line') : line'[i] = AnswerTo(queue'[i])
               /\ Len(line') <= Limit /\ buffered' # "stale"
    <3>1. clean /\ line # <<>> /\ line' = Tail(line) /\ lost' = lost /\ buffered' = "none"
      BY <2>3 DEF Answer
    <3>2. Len(line) > 0 /\ queue # <<>> /\ 1 \in 1..Len(line)
      BY <2>t, <2>c, <3>1
    <3>3. Read = AnswerTo(Head(queue)) /\ Head(queue) \in Commands
      BY <2>t, <2>c, <3>1, <3>2 DEF Read
    <3>4. queue' = Tail(queue)
      BY <2>3, <3>2, <3>3, AnswerType DEF Answer, Matched
    <3>5. Len(line') = Len(line) - 1 /\ Len(queue') = Len(queue) - 1
      BY <2>t, <3>1, <3>2, <3>4
    <3>6. ASSUME NEW i \in 1..Len(line') PROVE line'[i] = AnswerTo(queue'[i])
      <4>1. i + 1 \in 1..Len(line) /\ line'[i] = line[i + 1] /\ queue'[i] = queue[i + 1]
        BY <2>t, <2>c, <3>1, <3>2, <3>4, <3>5
      <4> QED BY <2>c, <3>1, <4>1
    <3> QED BY <2>t, <2>c, <3>1, <3>5, <3>6
  <2>4. CASE Silence
    <3>1. clean /\ queue' = queue /\ line' = line /\ lost' = lost /\ buffered' # "stale"
      BY <2>4, <2>c DEF Silence
    <3> QED BY <2>c, <3>1
  <2>5. CASE Overflow \/ Disturbance \/ CatchUp \/ UNCHANGED vars
    <3>1. clean /\ queue' = queue /\ line' = line /\ lost' = lost /\ buffered' = buffered
      BY <2>5 DEF Overflow, Disturbance, Lose, Garble, FallBehind, CatchUp, vars, tmc
    <3> QED BY <2>c, <3>1
  <2> QED BY <2>1, <2>2, <2>3, <2>4, <2>5 DEF Next, Command, Collect
<1> QED BY <1>1, <1>2, TypeCorrect, CountedWait, PTL DEF Spec
-----------------------------------------------------------------------------

Names == Clients \union {Nobody}

Programs == [at : {"off", "update", "wait"}, steer : Names, replies : Seq(Names)]
Requests == [from : Clients, steer : Names]
Server == [heard : Names, steer : [Bodies -> Names],
           slots : [Bodies -> [addr : Names, active : BOOLEAN, quiet : Nat]]]

SimTypeOK ==
  /\ starts \in Nat
  /\ client \in [Clients -> Programs]
  /\ inbox \in Seq(Requests)
  /\ phase \in {"simulate", "receive"}
  /\ server \in Server

(* A program only ever sends its own vector, and what waits is still that; *)
(* a place that is taken has the vector of the program that has it, and no *)
(* program has two; while the robots move, the others have none.           *)
OwnVector == \A c \in Clients : client[c].steer \in {Nobody, c}
OwnRequests == \A k \in DOMAIN inbox : inbox[k].steer \in {Nobody, inbox[k].from}
OwnPlaces(s) ==
  /\ \A i \in Bodies : s.slots[i].active => s.steer[i] \in {Nobody, s.slots[i].addr}
  /\ \A i, j \in Bodies :
       s.slots[i].active /\ s.slots[j].active /\ s.slots[i].addr = s.slots[j].addr => i = j
OthersStand ==
  phase = "simulate" => \A i \in Bodies : ~server.slots[i].active => server.steer[i] = Nobody

SteerInv == SimTypeOK /\ OwnVector /\ OwnRequests /\ OwnPlaces(server) /\ OthersStand

(* The first of some bodies is one of them, and there is only one.         *)
LEMMA FirstIsOne ==
  ASSUME NEW S \in SUBSET Bodies
  PROVE  /\ First(S) \subseteq S
         /\ \A i, j \in First(S) : i = j
BY SMT DEF First, Bodies

(* There is one, if there are any.                                         *)
LEMMA FirstIsThere ==
  ASSUME NEW S \in SUBSET Bodies, S # {}
  PROVE  First(S) # {}
<1>1. S \subseteq Nat
  BY SimAssumption DEF Bodies
<1>2. PICK i \in S : \A j \in S : i <= j
  BY <1>1, SmallestIsThere
<1> QED
  BY <1>2 DEF First

LEMMA SimInitial == SimInit => SteerInv
<1> SUFFICES ASSUME SimInit PROVE SteerInv
  OBVIOUS
<1> USE SimAssumption DEF SimInit, Off, Names, Programs
<1>1. SimTypeOK
  BY DEF SimTypeOK, Server
<1>2. OwnVector /\ OwnRequests /\ OwnPlaces(server) /\ OthersStand
  BY DEF OwnVector, OwnRequests, OwnPlaces, OthersStand
<1> QED
  BY <1>1, <1>2 DEF SteerInv

(* A request carries the vector of the program that sends it.              *)
LEMMA SentIsOwn ==
  ASSUME SteerInv, NEW c \in Clients, Sent(c)
  PROVE  /\ inbox' \in Seq(Requests)
         /\ OwnRequests'
<1> DEFINE m == [from |-> c, steer |-> client[c].steer]
<1>1. m \in Requests /\ m.steer \in {Nobody, m.from}
  BY DEF SteerInv, SimTypeOK, OwnVector, Programs, Requests
<1>2. inbox' = Append(inbox, m) /\ inbox \in Seq(Requests)
  BY DEF Sent, SteerInv, SimTypeOK
<1> HIDE DEF m
<1>3. inbox' \in Seq(Requests)
  BY <1>1, <1>2
<1>4. ASSUME NEW k \in DOMAIN inbox' PROVE inbox'[k].steer \in {Nobody, inbox'[k].from}
  <2>1. CASE k \in DOMAIN inbox
    BY <1>2, <2>1 DEF SteerInv, OwnRequests
  <2>2. CASE k \notin DOMAIN inbox
    BY <1>1, <1>2, <1>4, <2>2
  <2> QED
    BY <2>1, <2>2
<1> QED
  BY <1>3, <1>4 DEF OwnRequests

LEMMA ProgramStep ==
  ASSUME Delay < Kept, SteerInv, NEW c \in Clients, Program(c)
  PROVE  SteerInv'
<1> USE DEF SteerInv
<1>1. phase' = phase /\ server' = server
  BY DEF Program
<1>2. OwnPlaces(server)' /\ OthersStand'
  BY <1>1 DEF OwnPlaces, OthersStand
<1>3. CASE Begin(c)
  <2>1. inbox' \in Seq(Requests) /\ OwnRequests'
    BY <1>3, SentIsOwn DEF Begin
  <2>2. SimTypeOK'
    <3>1. starts' \in Nat
      BY <1>3 DEF Begin, SimTypeOK
    <3>2. client' \in [Clients -> Programs]
      BY <1>3 DEF Begin, SimTypeOK, Programs
    <3> QED
      BY <1>1, <2>1, <3>1, <3>2 DEF SimTypeOK
  <2>3. OwnVector'
    BY <1>3 DEF Begin, SimTypeOK, OwnVector, Programs
  <2> QED
    BY <1>2, <2>1, <2>2, <2>3
<1>4. CASE Request(c)
  <2>1. inbox' \in Seq(Requests) /\ OwnRequests'
    BY <1>4, SentIsOwn DEF Request
  <2>2. SimTypeOK' /\ OwnVector'
    BY <1>1, <1>4, <2>1 DEF Request, SimTypeOK, OwnVector, Programs
  <2> QED
    BY <1>2, <2>1, <2>2
<1>5. CASE TakeReply(c)
  <2>1. Tail(client[c].replies) \in Seq(Names)
    BY <1>5 DEF TakeReply, SimTypeOK, Programs
  <2>2. SimTypeOK' /\ OwnVector' /\ OwnRequests'
    <3>1. client' = [client EXCEPT ![c] = [at |-> "update", steer |-> c, replies |-> Tail(@.replies)]]
      BY <1>5 DEF TakeReply, Steers
    <3>2. UNCHANGED <<starts, inbox>>
      BY <1>5 DEF TakeReply
    <3> QED
      BY <1>1, <2>1, <3>1, <3>2 DEF SimTypeOK, OwnVector, OwnRequests, Names, Programs
  <2> QED
    BY <1>2, <2>2
<1>6. CASE End(c)
  BY <1>1, <1>2, <1>6 DEF End, Off, SimTypeOK, OwnVector, OwnRequests, Names, Programs
<1> QED
  BY <1>3, <1>4, <1>5, <1>6 DEF Program

LEMMA CheckStep == ASSUME SteerInv, CheckForInactivity PROVE SteerInv'
<1> USE DEF SteerInv, CheckForInactivity
<1>1. server' = [server EXCEPT !.slots = Checked(server.slots)] /\ server \in Server
  BY DEF SimTypeOK
<1>2. ASSUME NEW i \in Bodies
      PROVE  /\ Checked(server.slots)[i] \in [addr : Names, active : BOOLEAN, quiet : Nat]
             /\ Checked(server.slots)[i].addr = server.slots[i].addr
             /\ Checked(server.slots)[i].active => server.slots[i].active
  <2>1. server.slots[i] \in [addr : Names, active : BOOLEAN, quiet : Nat]
    BY <1>1 DEF Server
  <2> DEFINE heeded == server.slots[i].active /\ server.slots[i].quiet < Patience
  <2>2. Checked(server.slots)[i] =
          [server.slots[i] EXCEPT !.active = heeded,
                                  !.quiet = IF heeded THEN server.slots[i].quiet + 1 ELSE 0]
    BY <2>1 DEF Checked
  <2>3. heeded \in BOOLEAN /\ (IF heeded THEN server.slots[i].quiet + 1 ELSE 0) \in Nat
    BY <2>1
  <2> HIDE DEF heeded
  <2>4. heeded => server.slots[i].active
    BY DEF heeded
  <2> QED
    BY <2>1, <2>2, <2>3, <2>4
<1>3. Checked(server.slots) \in [Bodies -> [addr : Names, active : BOOLEAN, quiet : Nat]]
  BY <1>2 DEF Checked
<1>4. SimTypeOK'
  BY <1>1, <1>3 DEF SimTypeOK, Server
<1>5. OwnPlaces(server)'
  BY <1>1, <1>2 DEF OwnPlaces, Server
<1>6. OwnVector' /\ OwnRequests' /\ OthersStand'
  BY DEF OwnVector, OwnRequests, OthersStand
<1> QED
  BY <1>4, <1>5, <1>6

(* One datagram: it goes to the place of its sender, if it has one, and    *)
(* else to a place that is free.                                           *)
LEMMA ReceivedKeeps ==
  ASSUME NEW s \in Server, OwnPlaces(s),
         NEW m \in Requests, m.steer \in {Nobody, m.from}
  PROVE  Received(s, m) \in Server /\ OwnPlaces(Received(s, m))
<1> DEFINE known == Known(s.slots, m.from)
           place == IF known # {} THEN known ELSE Free(s.slots)
           taken(i) == IF known # {} THEN [s.slots[i] EXCEPT !.quiet = 0]
                       ELSE [addr |-> m.from, active |-> TRUE, quiet |-> 0]
           t == Received(s, m)
<1>1. \A i \in known : i \in Bodies /\ s.slots[i].addr = m.from /\ s.slots[i].active
  BY FirstIsOne DEF Known
<1>2. known = {} => \A i \in Bodies : s.slots[i].active => s.slots[i].addr # m.from
  BY FirstIsThere DEF Known
<1>3. \A i, j \in place : i = j
  BY FirstIsOne DEF Known, Free
<1>4. m.from \in Names /\ m.steer \in Names
  BY DEF Names, Requests
<1>5. t = [heard |-> m.steer,
           steer |-> [i \in Bodies |-> IF i \in place THEN m.steer ELSE s.steer[i]],
           slots |-> [i \in Bodies |-> IF i \notin place THEN s.slots[i] ELSE taken(i)]]
  BY DEF Received
<1> HIDE DEF place, known, t
<1>6. ASSUME NEW i \in Bodies, i \in place
      PROVE  /\ taken(i) \in [addr : Names, active : BOOLEAN, quiet : Nat]
             /\ taken(i).addr = m.from /\ taken(i).active
  <2>1. s.slots[i] \in [addr : Names, active : BOOLEAN, quiet : Nat]
    BY DEF Server
  <2>2. CASE known # {}
    BY <1>1, <1>6, <2>1, <2>2 DEF place
  <2>3. CASE known = {}
    BY <1>4, <2>3
  <2> QED
    BY <2>2, <2>3
<1> HIDE DEF taken
<1>7. t \in Server
  BY <1>4, <1>5, <1>6 DEF Server
<1>8. \A i \in Bodies : i \in place =>
        t.steer[i] = m.steer /\ t.slots[i].addr = m.from /\ t.slots[i].active
  BY <1>5, <1>6
<1>9. \A i \in Bodies : i \notin place => t.steer[i] = s.steer[i] /\ t.slots[i] = s.slots[i]
  BY <1>5
<1>10. \A i, j \in Bodies : i \in place /\ j \notin place /\ s.slots[j].active => s.slots[j].addr # m.from
  <2> SUFFICES ASSUME NEW i \in Bodies, NEW j \in Bodies,
                      i \in place, j \notin place, s.slots[j].active, s.slots[j].addr = m.from
               PROVE  FALSE
    OBVIOUS
  <2>1. known # {} /\ i \in known
    BY <1>2 DEF place
  <2>2. i = j
    BY <1>1, <2>1 DEF OwnPlaces
  <2> QED
    BY <2>2
<1>11. OwnPlaces(t)
  BY <1>3, <1>8, <1>9, <1>10 DEF OwnPlaces
<1> QED
  BY <1>7, <1>11 DEF t

LEMMA ReceiveStep == ASSUME SteerInv, Receive PROVE SteerInv'
<1> USE DEF SteerInv, Receive
<1>1. /\ Head(inbox) \in Requests
      /\ Head(inbox).steer \in {Nobody, Head(inbox).from}
      /\ Tail(inbox) \in Seq(Requests)
  <2>1. inbox \in Seq(Requests) /\ inbox # <<>>
    BY DEF SimTypeOK
  <2>2. 1 \in DOMAIN inbox /\ Head(inbox) = inbox[1]
    BY <2>1
  <2> QED
    BY <2>1, <2>2 DEF OwnRequests
<1>2. server' \in Server /\ OwnPlaces(server)'
  <2>1. Received(server, Head(inbox)) \in Server /\ OwnPlaces(Received(server, Head(inbox)))
    BY <1>1, ReceivedKeeps DEF SimTypeOK
  <2> QED
    BY <2>1 DEF OwnPlaces
<1>3. SimTypeOK'
  BY <1>1, <1>2 DEF SimTypeOK
<1>4. OwnRequests'
  <2>1. inbox \in Seq(Requests) /\ inbox # <<>> /\ inbox' = Tail(inbox)
    BY DEF SimTypeOK
  <2>2. \A k \in DOMAIN inbox' : k + 1 \in DOMAIN inbox /\ inbox'[k] = inbox[k + 1]
    BY <2>1
  <2> QED
    BY <2>2 DEF OwnRequests
<1>5. OwnVector' /\ OthersStand'
  BY DEF OwnVector, OthersStand
<1> QED
  BY <1>2, <1>3, <1>4, <1>5

LEMMA AnswerStep == ASSUME SteerInv, AnswerAll PROVE SteerInv'
<1> USE DEF SteerInv, AnswerAll
<1>1. ASSUME NEW c \in Clients
      PROVE  /\ Replied(c) \in Programs
             /\ Replied(c).steer = client[c].steer
  <2>1. client[c] \in Programs
    BY DEF SimTypeOK
  <2>2. server.heard \in Names
    BY DEF SimTypeOK, Server
  <2>3. Append(client[c].replies, server.heard) \in Seq(Names)
    BY <2>1, <2>2 DEF Programs
  <2> QED
    BY <2>1, <2>3 DEF Replied, Programs
<1>2. server' = [server EXCEPT !.steer =
                   [i \in Bodies |-> IF server.slots[i].active THEN server.steer[i] ELSE Nobody]]
  BY DEF SimTypeOK, Server
<1>3. SimTypeOK'
  <2> DEFINE moved == [i \in Bodies |-> IF server.slots[i].active THEN server.steer[i] ELSE Nobody]
  <2>1. client' \in [Clients -> Programs]
    BY <1>1
  <2>2. moved \in [Bodies -> Names]
    BY DEF SimTypeOK, Server, Names
  <2>3. server' = [server EXCEPT !.steer = moved]
    BY <1>2
  <2> HIDE DEF moved
  <2>4. server' \in Server
    BY <2>2, <2>3 DEF SimTypeOK, Server
  <2> QED
    BY <2>1, <2>4 DEF SimTypeOK
<1>4. OwnPlaces(server)' /\ OthersStand'
  BY <1>2 DEF OwnPlaces, OthersStand, SimTypeOK, Server
<1>5. OwnVector' /\ OwnRequests'
  BY <1>1 DEF OwnVector, OwnRequests
<1> QED
  BY <1>3, <1>4, <1>5

LEMMA SteerStep ==
  ASSUME Delay < Kept, SteerInv, [SimNext]_simVars
  PROVE  SteerInv'
<1>1. CASE Communicate
  BY <1>1, CheckStep, ReceiveStep, AnswerStep DEF Communicate
<1>2. CASE \E c \in Clients : Program(c)
  BY <1>2, ProgramStep
<1>3. CASE UNCHANGED simVars
  BY <1>3 DEF simVars, SteerInv, SimTypeOK, OwnVector, OwnRequests, OwnPlaces, OthersStand
<1> QED
  BY <1>1, <1>2, <1>3 DEF SimNext

(* A robot is only ever moved by the program that has it, no program has   *)
(* two, and robots nobody has stand (odeserver.cpp, odesimcomm.cc,         *)
(* SimClient.cc), if robots keep enough vectors (SimulatedTribot.cc).      *)
THEOREM OwnSteering ==
  ASSUME Delay < Kept
  PROVE  SimSpec => []SteersItself
<1>1. SteerInv => SteersItself
  BY DEF SteerInv, OwnPlaces, OthersStand, SteersItself
<1>2. SteerInv /\ [SimNext]_simVars => SteerInv'
  BY SteerStep
<1> QED
  BY <1>1, <1>2, SimInitial, PTL DEF SimSpec
=============================================================================
