-------------------------------- MODULE Link --------------------------------
(***************************************************************************)
(* What the message buffers promise the two programs that use them,        *)
(* whatever the network does: at-least-once delivery with a limited number *)
(* of tries, in any order.  Messages go by their number.  An end that has  *)
(* accepted a message with a receipt answers for it until the other end    *)
(* has stored it or the tries are used up; nothing is stored that was not  *)
(* accepted.  CommBuffer implements this specification.                    *)
(***************************************************************************)
EXTENDS Integers

CONSTANTS
  Robot, Coach    \* the two ends

VARIABLES
  accepted,   \* how many messages each end has accepted, numbered from 0
  answerable, \* the numbers of those it still answers for
  stored,     \* numbers of the other end's messages each end has stored
  spent       \* numbers each end has given up

linkVars == <<accepted, answerable, stored, spent>>

Node == {Robot, Coach}
Peer(n) == IF n = Robot THEN Coach ELSE Robot

Init ==
  /\ accepted = [n \in Node |-> 0]
  /\ answerable = [n \in Node |-> {}]
  /\ stored = [n \in Node |-> {}]
  /\ spent = [n \in Node |-> {}]

(* A message is accepted, with a receipt or without.                       *)
Accept(n, reliable) ==
  /\ accepted' = [accepted EXCEPT ![n] = @ + 1]
  /\ answerable' = [answerable EXCEPT ![n] =
       IF reliable THEN @ \cup {accepted[n]} ELSE @]
  /\ UNCHANGED <<stored, spent>>

(* A message arrives, for the first time or once more.                     *)
Store(n, nr) ==
  /\ nr < accepted[Peer(n)]
  /\ stored' = [stored EXCEPT ![n] = @ \cup {nr}]
  /\ UNCHANGED <<accepted, answerable, spent>>

(* The receipt arrives.                                                    *)
Confirm(n, nr) ==
  /\ nr \in answerable[n] \cap stored[Peer(n)]
  /\ answerable' = [answerable EXCEPT ![n] = @ \ {nr}]
  /\ UNCHANGED <<accepted, stored, spent>>

(* The tries of these messages are used up.                                *)
GiveUp(n, S) ==
  /\ answerable' = [answerable EXCEPT ![n] = @ \ S]
  /\ spent' = [spent EXCEPT ![n] = @ \cup S]
  /\ UNCHANGED <<accepted, stored>>

Next == \E n \in Node :
  \/ \E reliable \in BOOLEAN : Accept(n, reliable)
  \/ \E nr \in 0..(accepted[Peer(n)] - 1) : Store(n, nr)
  \/ \E nr \in answerable[n] : Confirm(n, nr)
  \/ \E S \in SUBSET answerable[n] : GiveUp(n, S)

Spec == Init /\ [][Next]_linkVars
=============================================================================
