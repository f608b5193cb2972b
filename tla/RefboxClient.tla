---------------------------- MODULE RefboxClient ----------------------------
(***************************************************************************)
(* The referee box and the RefboxClient of teamcontrol at the two ends of  *)
(* a TCP connection.  The box writes one character for a signal; listen,   *)
(* called in every cycle of teamcontrol, reads up to ReadLen characters    *)
(* and looks at the first.  The character 's' means start or ready,        *)
(* depending on what was read before.                                      *)
(*                                                                         *)
(* The box is external: it moves along the transitions of the state        *)
(* diagram (doc/Software/tex/WorldModel/referee_states.fig).  A character  *)
(* is written as the signal it stands for, 's' as <<"any", "go">>.         *)
(***************************************************************************)
EXTENDS RefereeStates, Sequences, FiniteSets

CONSTANTS
  ReadLen,      \* characters listen reads at once
  Restarts,     \* the restarts there are characters for
  MaxWrites     \* bound: characters the box writes

ASSUME ClientAssumption ==
  /\ ReadLen \in Nat \ {0}
  /\ Restarts \subseteq Restart
  /\ MaxWrites \in Nat

VARIABLES
  phase,      \* the box: the phase of the match, <<stage, color, restart>>
  written,    \* the box: characters written so far
  goals,      \* the box: goals given to each colour
  open,       \* the box holds the connection open
  pipe,       \* characters written and not read
  connected,  \* RefboxClient.connected
  latest      \* latest_signal

clientVars == <<phase, written, goals, open, pipe, connected, latest>>

Stop == <<"any", "stop">>
Halt == <<"any", "halt">>
Start == <<"any", "start">>
Ready == <<"any", "ready">>
Nop == <<"any", "nop">>
Go == <<"any", "go">>           \* 's'
Other == <<"any", "other">>     \* a character without a meaning

Goal(c) == <<c, "GoalScored">>
Char == {Stop, Halt, Go, Other} \cup Color \X (Restarts \cup {"GoalScored"})
Phase == {<<"stop", "any", "any">>, <<"play", "any", "any">>}
           \cup {<<stage, c, r>> : stage \in {"pre", "ready"}, c \in Color, r \in Restart}

ClientInit ==
  /\ phase = <<"stop", "any", "any">>
  /\ written = 0
  /\ goals = [c \in Color |-> 0]
  /\ open = TRUE
  /\ pipe = <<>>
  /\ connected = TRUE
  /\ latest = Stop
-----------------------------------------------------------------------------
(* The box writes c and enters a phase.                                    *)
Write(c, p) ==
  /\ open
  /\ written < MaxWrites
  /\ written' = written + 1
  /\ pipe' = Append(pipe, c)
  /\ phase' = p
  /\ UNCHANGED <<open, connected, latest>>

BoxStops ==
  /\ \E c \in {Stop, Halt} : Write(c, <<"stop", "any", "any">>)
  /\ UNCHANGED goals
BoxCallsRestart ==
  /\ phase[1] = "stop"
  /\ \E c \in Color, r \in Restarts : Write(<<c, r>>, <<"pre", c, r>>)
  /\ UNCHANGED goals
BoxGoes ==
  /\ \/ phase[1] = "stop" /\ Write(Go, <<"play", "any", "any">>)
     \/ phase[1] = "pre" /\ Write(Go, <<"ready", phase[2], phase[3]>>)
  /\ UNCHANGED goals
BoxGivesGoal ==
  /\ phase[1] = "stop"
  /\ \E c \in Color : Write(Goal(c), phase) /\ goals' = [goals EXCEPT ![c] = @ + 1]

BoxWrites == BoxStops \/ BoxCallsRestart \/ BoxGoes \/ BoxGivesGoal

BoxCloses ==
  /\ open
  /\ open' = FALSE
  /\ UNCHANGED <<phase, written, goals, pipe, connected, latest>>
-----------------------------------------------------------------------------
(* mutant: the last relevant character is not remembered                   *)
MeaningForgetful(c, l) == IF c = Go THEN Start ELSE IF c = Other THEN Nop ELSE c

Meaning(c, l) ==
  CASE c = Go -> IF l \in {Stop, Halt} THEN Start ELSE Ready
    [] c = Other -> Nop
    [] OTHER -> c
Relevant(sig) == sig # Nop /\ sig[2] # "GoalScored"

(* One character comes out of a read of the n characters that are there.   *)
(* At the end of the stream read returns 0, which listen takes for         *)
(* success: it looks at rcvd[0], which nothing has been written to.        *)
Listen(sig) ==
  IF ~connected \/ (pipe = <<>> /\ open)
  THEN sig = Nop /\ UNCHANGED clientVars
  ELSE /\ \E c \in Char :
            /\ pipe # <<>> => c = Head(pipe)
            /\ sig = Meaning(c, latest)
       /\ \E n \in 0..ReadLen :
            /\ n <= Len(pipe) /\ (n = 0 <=> pipe = <<>>)
            /\ pipe' = SubSeq(pipe, n + 1, Len(pipe))
       /\ latest' = IF Relevant(sig) THEN sig ELSE latest
       /\ UNCHANGED <<phase, written, goals, open, connected>>

Disconnect ==
  /\ connected
  /\ connected' = FALSE
  /\ UNCHANGED <<phase, written, goals, open, pipe, latest>>

(* connect reads the welcome message with a read of its own, and what the  *)
(* box has written until then with it.                                     *)
Connect ==
  /\ ~connected /\ open
  /\ connected' = TRUE
  /\ pipe' = <<>>
  /\ UNCHANGED <<phase, written, goals, open, latest>>
=============================================================================
