------------------------------- MODULE SimLink -------------------------------
(***************************************************************************)
(* The robot programs and the simulator odeserver: each program is a       *)
(* client that sends its drive vector and then waits for the state of the  *)
(* world; the server gives every address it hears from one of its robots   *)
(* until it has not been heard for a while.                                *)
(*                                                                         *)
(* Both sides keep one SimState, into which they also receive: the server  *)
(* answers everyone with the vector it has heard last, and a client takes  *)
(* over what it is sent until it sets its next drive vector.  A vector is  *)
(* reduced to the program that decided on it.  Datagrams stay in order.    *)
(* A program asks the server once in every cycle, as it is configured: for *)
(* its world model, and not for its image processing too.                  *)
(***************************************************************************)
EXTENDS Naturals, Sequences

CONSTANTS
  Clients,    \* addresses of robot programs
  NumBodies,  \* MAX_CLIENTS
  Patience,   \* times the server does not hear a client before it is given up
  Delay,      \* drive_vector_delay of the robots, in cycles of a program
  Kept,       \* drive vectors a robot keeps until they are due
  MaxReplies, \* bound: datagrams the socket of a client holds, later ones are lost
  MaxStarts   \* bound: times a program is started

ASSUME SimAssumption ==
  /\ NumBodies \in Nat \ {0} /\ Patience \in Nat /\ {Delay, Kept} \subseteq Nat
  /\ MaxReplies \in Nat \ {0} /\ MaxStarts \in Nat

VARIABLES
  starts,     \* times a program has been started
  client,     \* where a program is, steer of its SimState, and the datagrams sent to it
  inbox,      \* datagrams that wait at the server
  phase,      \* where the server is in its loop
  server      \* slots: serv_addr, client_active and client_not_responding,
              \* heard: steer of its SimState, steer: steer of the robots

simVars == <<starts, client, inbox, phase, server>>

Nobody == "nobody"
Bodies == 1 .. NumBodies

Off == [at |-> "off", steer |-> Nobody, replies |-> <<>>]

SimInit ==
  /\ starts = 0 /\ phase = "simulate"
  /\ client = [c \in Clients |-> Off]
  /\ inbox = <<>>
  /\ server = [heard |-> Nobody, steer |-> [i \in Bodies |-> Nobody],
               slots |-> [i \in Bodies |-> [addr |-> Nobody, active |-> FALSE, quiet |-> 0]]]
-----------------------------------------------------------------------------
Sent(c) == inbox' = Append(inbox, [from |-> c, steer |-> client[c].steer])

(* SimClient(): a first datagram so that the server knows the address.     *)
Begin(c) ==
  /\ client[c].at = "off" /\ starts < MaxStarts /\ starts' = starts + 1
  /\ client' = [client EXCEPT ![c].at = "update"]
  /\ Sent(c)

(* update, until it waits: the socket was not open yet when use_nonblock   *)
(* was called.                                                             *)
Request(c) ==
  /\ client[c].at = "update"
  /\ client' = [client EXCEPT ![c].at = "wait"]
  /\ Sent(c)
  /\ UNCHANGED starts

(* mutant: a vector that is there is left as it is                         *)
SteersKept(received, c) == IF received = Nobody THEN {c} ELSE {received}

(* SimulatedTribot::set_drive_vector: in every cycle the robot hands over  *)
(* the latest of its vectors that is due.  Has it been kept for too short  *)
(* a time, there is none, once the ring is full, and what has been         *)
(* received stays.                                                         *)
Steers(received, c) == IF Delay < Kept THEN {c} ELSE {c, received}

(* The rest of update and of the cycle.                                    *)
TakeReply(c) ==
  /\ client[c].at = "wait" /\ client[c].replies # <<>>
  /\ \E v \in Steers(Head(client[c].replies), c) :
       client' = [client EXCEPT ![c] = [at |-> "update", steer |-> v, replies |-> Tail(@.replies)]]
  /\ UNCHANGED <<starts, inbox>>

(* The program ends or is killed; the server is not told.                  *)
End(c) ==
  /\ client[c].at # "off"
  /\ client' = [client EXCEPT ![c] = Off]
  /\ UNCHANGED <<starts, inbox>>

(* What a program does while the server communicates is as if done before  *)
(* or after.                                                               *)
Program(c) ==
  /\ phase = "simulate"
  /\ Begin(c) \/ Request(c) \/ TakeReply(c) \/ End(c)
  /\ UNCHANGED <<phase, server>>
-----------------------------------------------------------------------------
(* check_for_inactivity; the count of a client that is given up is of no   *)
(* use any more.                                                           *)
Checked(slots) ==
  [i \in Bodies |->
     LET heeded == slots[i].active /\ slots[i].quiet < Patience
     IN  [slots[i] EXCEPT !.active = heeded, !.quiet = IF heeded THEN @ + 1 ELSE 0]]

First(bodies) == {i \in bodies : \A j \in bodies : i <= j}

(* mutant: a client that was given up is still known                       *)
KnownForever(slots, c) == First({i \in Bodies : slots[i].addr = c})

(* is_active_client and add_client                                         *)
Known(slots, c) == First({i \in Bodies : slots[i].addr = c /\ slots[i].active})
Free(slots) == First({i \in Bodies : ~slots[i].active})

(* One datagram.  A client for which there is no place has last_client -1: *)
(* its vector goes somewhere before the robots.                            *)
Received(s, m) ==
  LET known == Known(s.slots, m.from)
      place == IF known # {} THEN known ELSE Free(s.slots)
  IN  [heard |-> m.steer,
       steer |-> [i \in Bodies |-> IF i \in place THEN m.steer ELSE s.steer[i]],
       slots |-> [i \in Bodies |->
                    IF i \notin place THEN s.slots[i]
                    ELSE IF known # {} THEN [s.slots[i] EXCEPT !.quiet = 0]
                    ELSE [addr |-> m.from, active |-> TRUE, quiet |-> 0]]]

CheckForInactivity ==
  /\ phase = "simulate" /\ phase' = "receive"
  /\ server' = [server EXCEPT !.slots = Checked(@)]
  /\ UNCHANGED <<starts, client, inbox>>

Receive ==
  /\ phase = "receive" /\ inbox # <<>>
  /\ server' = Received(server, Head(inbox))
  /\ inbox' = Tail(inbox)
  /\ UNCHANGED <<starts, client, phase>>

Replied(c) ==
  IF (\E i \in Bodies : server.slots[i].active /\ server.slots[i].addr = c)
     /\ client[c].at # "off" /\ Len(client[c].replies) < MaxReplies
  THEN [client[c] EXCEPT !.replies = Append(@, server.heard)] ELSE client[c]

(* Every client that is active gets an answer; the other robots stand.     *)
AnswerAll ==
  /\ phase = "receive" /\ inbox = <<>> /\ phase' = "simulate"
  /\ client' = [c \in Clients |-> Replied(c)]
  /\ server' = [server EXCEPT !.steer =
                  [i \in Bodies |-> IF server.slots[i].active THEN @[i] ELSE Nobody]]
  /\ UNCHANGED <<starts, inbox>>

Communicate == CheckForInactivity \/ Receive \/ AnswerAll

SimNext == Communicate \/ \E c \in Clients : Program(c)

SimSpec == SimInit /\ [][SimNext]_simVars

GoesOn(c) == phase = "simulate" /\ TakeReply(c) /\ UNCHANGED <<phase, server>>

(* The server runs, and a datagram that is there is received.              *)
SimFairSpec ==
  /\ SimSpec
  /\ WF_simVars(Communicate)
  /\ \A c \in Clients : SF_simVars(GoesOn(c))
-----------------------------------------------------------------------------
(* Although vectors go to and fro through SimStates that all share, what   *)
(* moves a robot was decided by the program that has it, every program has *)
(* one robot, and a robot without a program stands, if vectors are kept    *)
(* until they are due.                                                     *)
SteersItself ==
  LET holder(i) == IF server.slots[i].active THEN server.slots[i].addr ELSE Nobody
  IN  phase = "simulate" => \A i \in Bodies :
        /\ server.steer[i] \in {Nobody, holder(i)}
        /\ \A j \in Bodies \ {i} : holder(i) = holder(j) => holder(i) = Nobody

(* A program never waits for the simulator forever, even if it was slow    *)
(* and has been given up meanwhile, as long as there are no more           *)
(* addresses than robots.                                                  *)
WaitEnds == \A c \in Clients : client[c].at = "wait" ~> client[c].at # "wait"
=============================================================================
