------------------------------ MODULE BoardLine ------------------------------
(***************************************************************************)
(* The asynchronous protocol of Tmc200 with the motor controller board.    *)
(* Commands are written to a serial line without waiting; they are queued  *)
(* in not_received_async_cmds, and getTmcData takes every line it reads    *)
(* for the answer to the oldest of them.  A command for the wheels is      *)
(* answered with measured speeds, one for the kicker port with OK.         *)
(*                                                                         *)
(* In every cycle OmniRobot_Tribot gives one command and then collects     *)
(* answers.  The board answers in the order of the commands; answers may   *)
(* be late, be lost, be garbled or arrive in two pieces.                   *)
(***************************************************************************)
EXTENDS Naturals, Sequences, FiniteSets

CONSTANTS
  Limit,     \* commands that may wait for an answer
  Period,    \* commands after which cmd_counter forgets one
  Max,       \* room for measured data in getTmcData
  Lag,       \* answers a board that is not slow may still owe after a cycle
  Buffer,    \* bound: answers the line holds, later ones are lost
  Late,      \* bound: answers to pings still to come after an initialisation
  MaxNoise   \* bound: times the line or the board misbehaves

ASSUME BoardAssumption ==
  /\ Limit \in Nat \ {0} /\ Period \in Nat \ {0} /\ Max \in Nat \ {0}
  /\ Lag \in Nat /\ Buffer \in Nat /\ Late \in Nat /\ MaxNoise \in Nat

VARIABLES
  at,          \* what the robot does next
  queue,       \* not_received_async_cmds
  counter,     \* cmd_counter
  loop,        \* loopcounter modulo Period
  lost,        \* lost_connection
  n,           \* data found by this call of getTmcData
  buffered,    \* string_buffer_async: empty, the head of the next answer, or of a lost one
  line,        \* answers on their way
  port,        \* was the last command for the kicker port?
  slow,        \* is the board behind?
  noise,       \* how often line and board may still misbehave
  measured,    \* history: did this cycle measure speeds?
  clean        \* history: nothing has gone wrong on the line since the board was initialised

tmc == <<queue, counter, loop, lost>>
environment == <<slow, noise>>
vars == <<at, tmc, n, buffered, line, port, environment, measured, clean>>

Commands == {"VEL", "PORT1L"}
Answers == {"V", "OK", "junk"}
AnswerTo(cmd) == IF cmd = "VEL" THEN "V" ELSE "OK"

(* Which of the answers parse_answer_string or the test for OK accepts;    *)
(* what was pieced together from two answers may look like one.            *)
Understood(cmd, answer) ==
  IF answer = "junk" THEN BOOLEAN ELSE {answer = AnswerTo(cmd)}

Without(s, i) == SubSeq(s, 1, i - 1) \o SubSeq(s, i + 1, Len(s))

(* The robot starts with a board that could be initialised.                *)
Init ==
  /\ at = "command"
  /\ queue = <<>> /\ counter = 0 /\ loop = 0 /\ lost = FALSE
  /\ n = 0 /\ buffered = "none" /\ line = <<>> /\ port = FALSE
  /\ slow = FALSE /\ noise = MaxNoise
  /\ measured = FALSE /\ clean = TRUE
-----------------------------------------------------------------------------
(* mutant: all commands that wait are kept                                 *)
RoomForAll(q) == q

(* Nobody waits for the oldest command any more when too many wait.        *)
Room(q) == IF Len(q) > Limit THEN Tail(q) ELSE q

(* The board hears the command; its answer is lost if the line is full.    *)
(* SerComStd::send reports success even if write has failed, so that the   *)
(* error path behind TMC_SEND is never taken; a command the board has not  *)
(* heard is one whose answer is lost (Lose).                               *)
Send(cmd) ==
  /\ ~lost /\ counter <= Limit
  /\ queue' = Append(Room(queue), cmd)
  /\ counter' = counter + 1
  /\ loop' = (loop + 1) % Period
  /\ line' = IF Len(line) < Buffer THEN Append(line, AnswerTo(cmd)) ELSE line
  /\ clean' = (clean /\ Len(line) < Buffer /\ Len(line) < Limit)
  /\ UNCHANGED <<lost, buffered>>

(* mutant: the flag of init survives                                       *)
ReinitStaysLost ==
  /\ lost \/ counter > Limit
  /\ queue' = <<>> /\ counter' = 0 /\ loop' = 0 /\ lost' = TRUE
  /\ line' = <<>> /\ clean' = FALSE
  /\ buffered' = IF buffered = "none" THEN "none" ELSE "stale"

(* init: the board answers every setting with OK.  Everything a prompt     *)
(* board owed has arrived within 50 ms and is flushed; from a slow one the *)
(* answer to a ping that was given up may still come.                      *)
InitSucceeds ==
  /\ lost' = FALSE /\ loop' = 0
  /\ \E late \in 0 .. IF slow THEN Late ELSE 0 : line' = [i \in 1..late |-> "OK"]
  /\ clean' = (line' = <<>> /\ buffered = "none")

(* A talk finds no answer in time, or the one to an earlier command.       *)
InitFails ==
  /\ slow
  /\ lost' = TRUE /\ loop' \in {loop, 0}
  /\ \E i \in 0..Len(line) : line' = SubSeq(line, i + 1, Len(line))
  /\ clean' = FALSE

(* A piece of an answer the line was read up to is not flushed with it.    *)
Reinit ==
  /\ lost \/ counter > Limit
  /\ queue' = <<>> /\ counter' = 0
  /\ InitSucceeds \/ InitFails
  /\ buffered' = IF buffered = "none" THEN "none" ELSE "stale"

(* One command in a cycle; the kicker is never moved twice in a row.       *)
Command(cmd) ==
  /\ at = "command" /\ at' = "collect"
  /\ port => cmd = "VEL"
  /\ port' = (cmd = "PORT1L")
  /\ Send(cmd) \/ Reinit
  /\ n' = 0 /\ measured' = FALSE
  /\ UNCHANGED environment
-----------------------------------------------------------------------------
Fewer(c) == IF c > 0 THEN c - 1 ELSE 0

(* After Period commands one of them is no longer counted as missing.      *)
EndCollect ==
  /\ at' = "command"
  /\ counter' = IF loop = 0 THEN Fewer(counter) ELSE counter

(* A whole line is there.  What is left of an answer that was flushed is   *)
(* put in front of it.                                                     *)
Read == IF buffered = "stale" THEN "junk" ELSE Head(line)

(* mutant: an OK does not take its command from the queue                  *)
MatchedSpeedsOnly ==
  /\ queue' = IF Head(queue) = "VEL" THEN Tail(queue) ELSE queue
  /\ counter' = Fewer(counter)
  /\ n' = IF Head(queue) = "VEL" THEN n + 1 ELSE n
  /\ measured' = (measured \/ Head(queue) = "VEL")

(* mutant: an OK is not counted                                            *)
MatchedUncounted ==
  /\ queue' = Tail(queue)
  /\ counter' = IF Head(queue) = "VEL" THEN Fewer(counter) ELSE counter
  /\ n' = IF Head(queue) = "VEL" THEN n + 1 ELSE n
  /\ measured' = (measured \/ Head(queue) = "VEL")

(* The command at the front of the queue has got its answer.               *)
Matched ==
  /\ queue' = Tail(queue)
  /\ counter' = Fewer(counter)
  /\ n' = IF Head(queue) = "VEL" THEN n + 1 ELSE n
  /\ measured' = (measured \/ Head(queue) = "VEL")

Answer ==
  /\ at = "collect" /\ n + 1 < Max /\ line # <<>>
  /\ line' = Tail(line) /\ buffered' = "none"
  /\ \/ queue # <<>> /\ TRUE \in Understood(Head(queue), Read) /\ Matched
     \/ /\ queue # <<>> => FALSE \in Understood(Head(queue), Read)
        /\ UNCHANGED <<queue, counter, n, measured>>
  /\ UNCHANGED <<at, loop, lost, port, environment, clean>>

(* The limit is tested after a line was read, which is thrown away.        *)
Overflow ==
  /\ at = "collect" /\ n + 1 >= Max /\ line # <<>>
  /\ line' = Tail(line) /\ buffered' = "none"
  /\ clean' = FALSE
  /\ EndCollect
  /\ UNCHANGED <<queue, loop, lost, n, port, environment, measured>>

(* No (complete) line within timeout_us; a prompt board owes few answers.  *)
Silence ==
  /\ at = "collect"
  /\ slow \/ Len(line) <= Lag
  /\ buffered' \in IF buffered = "none" /\ line # <<>> THEN {"none", "head"} ELSE {buffered}
  /\ EndCollect
  /\ UNCHANGED <<queue, loop, lost, n, line, port, environment, measured, clean>>
-----------------------------------------------------------------------------
Lose(i) ==
  /\ noise > 0 /\ noise' = noise - 1
  /\ line' = Without(line, i)
  /\ buffered' = IF i = 1 /\ buffered = "head" THEN "stale" ELSE buffered
  /\ clean' = FALSE
  /\ UNCHANGED <<at, tmc, n, port, slow, measured>>

Garble(i) ==
  /\ noise > 0 /\ noise' = noise - 1
  /\ line' = [line EXCEPT ![i] = "junk"]
  /\ clean' = FALSE
  /\ UNCHANGED <<at, tmc, n, buffered, port, slow, measured>>

FallBehind ==
  /\ noise > 0 /\ noise' = noise - 1
  /\ ~slow /\ slow' = TRUE
  /\ UNCHANGED <<at, tmc, n, buffered, line, port, measured, clean>>

CatchUp ==
  /\ slow /\ slow' = FALSE
  /\ UNCHANGED <<at, tmc, n, buffered, line, port, noise, measured, clean>>

Collect == Answer \/ Overflow \/ Silence
Disturbance == \/ \E i \in 1..Len(line) : Lose(i) \/ Garble(i)
               \/ FallBehind

Next ==
  \/ \E cmd \in Commands : Command(cmd)
  \/ Collect
  \/ Disturbance
  \/ CatchUp

Spec == Init /\ [][Next]_vars

(* readline_async goes on with the head of an answer, but compares with    *)
(* the time of a character it has not read yet (lcr is not initialised):   *)
(* it may give up at once or never.                                        *)
Hangs == at = "collect" /\ buffered # "none" /\ line = <<>>

(* The robot's cycle goes on, and a board that is behind catches up.       *)
FairSpec ==
  /\ Spec
  /\ WF_vars(\E cmd \in Commands : Command(cmd))
  /\ WF_vars(~Hangs /\ Collect)
  /\ WF_vars(CatchUp)
-----------------------------------------------------------------------------
TypeOK ==
  /\ at \in {"command", "collect"}
  /\ queue \in Seq(Commands) /\ Len(queue) <= Limit + 1
  /\ counter \in 0 .. Limit + 1 /\ loop \in 0 .. Period - 1 /\ lost \in BOOLEAN
  /\ n \in 0 .. Max /\ buffered \in {"none", "head", "stale"}
  /\ line \in Seq(Answers) /\ port \in BOOLEAN
  /\ slow \in BOOLEAN /\ noise \in 0..MaxNoise
  /\ measured \in BOOLEAN /\ clean \in BOOLEAN

(* cmd_counter and the queue are kept apart: the counter forgets commands  *)
(* that still wait and the queue drops commands that are still counted.    *)
(* Yet there are never more commands counted than wait, so that the        *)
(* counter, which alone decides that the board is lost, is not made up.    *)
CountedCommandsWait == counter <= Len(queue)

(* As long as nothing goes wrong on the line (no answer is lost, garbled   *)
(* or thrown away, and no more than Limit are late), the i-th command that *)
(* waits is the one the i-th answer on its way is to, so that every answer *)
(* gets the time stamp of its own command, and the board is not given up.  *)
InStep ==
  clean => /\ ~lost
           /\ Len(queue) = Len(line)
           /\ \A i \in 1..Len(line) : line[i] = AnswerTo(queue[i])

(* Whatever was lost, garbled or late, once that is over the robot goes on *)
(* to measure its speed: a command that waits for an answer it has missed  *)
(* ends in a new initialisation, and the board is then in step.  The one   *)
(* exception is a robot that again and again is left with a piece of an    *)
(* answer, which reinit does not clear.                                    *)
OdometryGoesOn == []<>measured \/ []<>(buffered = "stale")
=============================================================================
