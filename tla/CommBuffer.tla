----------------------------- MODULE CommBuffer -----------------------------
(***************************************************************************)
(* The message buffers of TribotsUdpCommunicationBuffer at the two ends of *)
(* a UDP link: the robot program (TribotsUdpServer) and a remote client    *)
(* such as teamcontrol.  One array of slots per end holds the outgoing     *)
(* messages, the receipts owed to the other end and the messages received  *)
(* but not read yet.  A message sent with a "rueckschein" stays in its     *)
(* slot and is sent again until a receipt arrives or its tries are used    *)
(* up.                                                                     *)
(*                                                                         *)
(* Each end is one thread.  get_send_buffer is one action.  udp_receive is *)
(* one action per entry of the datagram in the loop of set_receive_buffer  *)
(* and one per message in the loop around get_next_buffer that follows;    *)
(* every other operation of that end waits until both loops have ended.    *)
(***************************************************************************)
EXTENDS Integers, FiniteSets, FiniteSetsExt

CONSTANTS
  Robot, Coach,   \* the two ends
  Slots,          \* max_eintraege
  Data,           \* message contents
  Size,           \* length in bytes of each content
  Sum,            \* XOR checksum of each content
  Letters,        \* the [data, reliable, prio] the callers hand over
  Tries,          \* _SENDEVERSUCHE_
  Intros,         \* versionsnummer_uebertragungen of a new buffer
  HeadSize,       \* bytes of the header of one entry
  MaxData,        \* MAX_NUTZDATENLAENGE
  MaxSize,        \* BUFFER_MAX_LEN, the room of an outgoing datagram
  MaxMesg,        \* MAXMESG, what recvfrom takes of an incoming datagram
  MaxNr,          \* bound: messages each end hands over
  MaxNet,         \* datagrams a socket queue holds; one more is dropped
  Loss,           \* can the network lose a datagram?
  Duplication,    \* can it deliver one twice?
  Corruption,     \* can it change a content?
  Foreign,        \* contents with a tag the receiver does not know
  NoData          \* content of a slot that holds no message

Node == {Robot, Coach}
Peer(n) == IF n = Robot THEN Coach ELSE Robot
Slot == 1..Slots
Prio == 0..2      \* prio_wichtig, prio_normal, prio_optional

ASSUME EndsAssumption == Robot # Coach
ASSUME DataAssumption ==
  /\ Size \in [Data -> Nat]
  /\ Sum \in [Data -> Nat]
  /\ Letters \subseteq [data : Data, reliable : BOOLEAN, prio : Prio]
  /\ Foreign \subseteq Data /\ NoData \notin Data
ASSUME BoundAssumption ==
  /\ Slots \in Nat /\ Tries \in Nat /\ Intros \in Nat
  /\ MaxNet \in Nat /\ HeadSize \in Nat /\ MaxData \in Nat
  /\ MaxSize \in Nat /\ MaxMesg \in Nat
  /\ MaxNr \in [Node -> Nat]
  /\ {Loss, Duplication, Corruption} \subseteq BOOLEAN

VARIABLES
  slot,       \* puffer[]
  nextNr,     \* fortlaufende_paketnummer
  remoteNr,   \* fortlaufende_paketnummer_remote
  intro,      \* versionsnummer_uebertragungen
  net,        \* datagrams on their way to each end (two equal ones merge: harmless
              \* where MaxNet <= 1, or both Loss and Duplication are TRUE)
  rx,         \* the udp_receive of each end: its loop, what it has to read
  log,        \* history: the messages accepted by put_to_buffer
  stored,     \* history: numbers of the other end's messages ever stored
  spent       \* history: numbers dropped after the last try

vars == <<slot, nextNr, remoteNr, intro, net, rx, log, stored, spent>>
-----------------------------------------------------------------------------
Art == {"leer", "ausgang_normal", "ausgang_rueckschein",
        "rueckscheinantwort", "eingang"}
Entry == [art : Art, nr : Nat, sum : Nat, len : Nat,
          data : Data \cup {NoData}, prio : Prio, tries : Nat]
Leer == [art |-> "leer", nr |-> 0, sum |-> 0, len |-> 0,
         data |-> NoData, prio |-> 1, tries |-> 0]
AllLeer == [i \in Slot |-> Leer]

(* A datagram is the picture of the sender's slots, blank where a slot is  *)
(* not part of it: its entries lie in the order (prio, slot), behind the   *)
(* head bytes of the version entry.                                        *)
Datagram == [head : Nat, msgs : [Slot -> Entry]]
Letter == [nr : Nat, data : Data, reliable : BOOLEAN]

Outgoing(e) == e.art \in {"ausgang_normal", "ausgang_rueckschein"}
Pending(b) == {i \in Slot : Outgoing(b[i]) \/ b[i].art = "rueckscheinantwort"}
Bytes(e) == IF Outgoing(e) THEN HeadSize + e.len ELSE HeadSize

(* mutant: the priority is not looked at *)
BeforeByPlace(b, j, i) == j < i

Before(b, j, i) == \/ b[j].prio < b[i].prio
                   \/ b[j].prio = b[i].prio /\ j < i

(* find_next_art: i is the first slot of this kind.                        *)
IsFirst(b, art, i) == b[i].art = art /\ \A j \in 1..(i-1) : b[j].art # art

Idle(n) == rx[n].phase = "idle"
-----------------------------------------------------------------------------
Init ==
  /\ slot = [n \in Node |-> AllLeer]
  /\ nextNr = [n \in Node |-> 0]
  /\ remoteNr = [n \in Node |-> 0]
  /\ intro = [n \in Node |-> Intros]
  /\ net = [n \in Node |-> {}]
  /\ rx = [n \in Node |-> [phase |-> "idle", used |-> 0, msgs |-> AllLeer]]
  /\ log = [n \in Node |-> {}]
  /\ stored = [n \in Node |-> {}]
  /\ spent = [n \in Node |-> {}]

(* put_to_buffer; with no free slot, or too long a message, it returns     *)
(* false and changes nothing.                                              *)
Put(n, m) ==
  /\ Idle(n)
  /\ nextNr[n] < MaxNr[n]
  /\ Size[m.data] <= MaxData
  /\ \E i \in Slot :
       /\ IsFirst(slot[n], "leer", i)
       /\ slot' = [slot EXCEPT ![n][i] =
            [art |-> IF m.reliable THEN "ausgang_rueckschein" ELSE "ausgang_normal",
             nr |-> nextNr[n], sum |-> Sum[m.data], len |-> Size[m.data],
             data |-> m.data, prio |-> m.prio,
             tries |-> IF m.reliable THEN Tries ELSE 0]]
  /\ nextNr' = [nextNr EXCEPT ![n] = @ + 1]
  /\ log' = [log EXCEPT ![n] = @ \cup
        {[nr |-> nextNr[n], data |-> m.data, reliable |-> m.reliable]}]
  /\ UNCHANGED <<remoteNr, intro, net, rx, stored, spent>>

(* The slots get_send_buffer copies: taken in order, an entry goes in      *)
(* exactly if it fits behind those already in; one that does not fit is    *)
(* passed over and the search goes on.                                     *)
IntroBytes(n) == IF intro[n] > 0 THEN HeadSize ELSE 0
UsedBefore(n, S, i) ==
  IntroBytes(n) + MapThenSumSet(LAMBDA j : Bytes(slot[n][j]),
                                {j \in S : Before(slot[n], j, i)})

(* mutant: the first entry that does not fit ends the search *)
PackedStops(n, S) ==
  \A i \in Pending(slot[n]) :
    i \in S <=> \A j \in Pending(slot[n]) :
      j = i \/ Before(slot[n], j, i) => UsedBefore(n, S, j) + Bytes(slot[n][j]) < MaxSize

Packed(n, S) ==
  \A i \in Pending(slot[n]) :
    i \in S <=> UsedBefore(n, S, i) + Bytes(slot[n][i]) < MaxSize

(* mutant: the tries are not looked at *)
KeepsTryingUnguarded(e) == e.art = "ausgang_rueckschein"

KeepsTrying(e) == e.art = "ausgang_rueckschein" /\ e.tries > 0
Copied(e) == [e EXCEPT !.tries = 0]

(* mutants: every message is forgotten once sent; the tries are not counted *)
KeptNever(e) == Leer
KeptAlways(e) == IF KeepsTrying(e) THEN e ELSE Leer

Kept(e) == IF KeepsTrying(e) THEN [e EXCEPT !.tries = @ - 1] ELSE Leer

(* get_send_buffer and the send_msg behind it.                             *)
Send(n) ==
  /\ Idle(n)
  /\ \E S \in SUBSET Pending(slot[n]) :
       LET b  == slot[n]
           dg == [head |-> IntroBytes(n),
                  msgs |-> [i \in Slot |-> IF i \in S THEN Copied(b[i]) ELSE Leer]]
       IN
       /\ Packed(n, S)
       /\ intro[n] > 0 \/ S # {}
       /\ slot' = [slot EXCEPT ![n] = [i \in Slot |-> IF i \in S THEN Kept(b[i]) ELSE b[i]]]
       /\ spent' = [spent EXCEPT ![n] = @ \cup
            {b[i].nr : i \in {k \in S : /\ b[k].art = "ausgang_rueckschein"
                                        /\ ~KeepsTrying(b[k])}}]
       /\ Cardinality(net[Peer(n)]) >= MaxNet => Loss
       /\ net' = [net EXCEPT ![Peer(n)] =
            IF Cardinality(@) < MaxNet THEN @ \cup {dg} ELSE @]
       /\ intro' = [intro EXCEPT ![n] = IF @ > 0 THEN @ - 1 ELSE 0]
  /\ UNCHANGED <<nextNr, remoteNr, rx, log, stored>>

(* udp_receive: recv_msg hands a datagram to set_receive_buffer.           *)
Receive(n) ==
  /\ Idle(n)
  /\ \E d \in net[n] :
       /\ rx' = [rx EXCEPT ![n] = [phase |-> "parse", used |-> d.head, msgs |-> d.msgs]]
       /\ \/ net' = [net EXCEPT ![n] = @ \ {d}]
          \/ Duplication /\ UNCHANGED net
  /\ UNCHANGED <<slot, nextNr, remoteNr, intro, log, stored, spent>>

Lose(n) ==
  /\ Loss
  /\ \E d \in net[n] : net' = [net EXCEPT ![n] = @ \ {d}]
  /\ UNCHANGED <<slot, nextNr, remoteNr, intro, rx, log, stored, spent>>
-----------------------------------------------------------------------------
(* One pass of the loop of set_receive_buffer: w is the next entry, i its  *)
(* place in the datagram.                                                  *)
NextEntry(n, i) ==
  /\ rx[n].phase = "parse"
  /\ rx[n].msgs[i] # Leer
  /\ \A j \in Slot \ {i} : rx[n].msgs[j] # Leer => Before(rx[n].msgs, i, j)
HeadRead(n) == rx[n].used + HeadSize

(* The loop over the datagram ends, the loop over the inbox begins.        *)
Finish(n) == rx' = [rx EXCEPT ![n] = [phase |-> "dispatch", used |-> 0, msgs |-> AllLeer]]
GoOn(n, i) ==
  rx' = [rx EXCEPT ![n] = [phase |-> "parse",
                           used |-> rx[n].used + Bytes(rx[n].msgs[i]),
                           msgs |-> [rx[n].msgs EXCEPT ![i] = Leer]]]

(* The loop ends: all is read, or the rest of the datagram is dropped.     *)
EndParse(n) ==
  /\ rx[n].phase = "parse"
  /\ \/ rx[n].msgs = AllLeer
     \/ \E i \in Slot :
          /\ NextEntry(n, i)
          /\ \/ HeadRead(n) > MaxMesg                           \* cut off in a header
             \/ /\ Outgoing(rx[n].msgs[i])
                /\ \/ \A k \in Slot : slot[n][k].art # "leer"   \* no free slot
                   \/ HeadRead(n) + rx[n].msgs[i].len > MaxMesg \* cut off in a content
  /\ Finish(n)
  /\ UNCHANGED <<slot, nextNr, remoteNr, intro, net, log, stored, spent>>

(* put_to_buffer_rueckscheinantwort: without a free slot no receipt is     *)
(* owed any more.                                                          *)
Receipt(w) == [art |-> "rueckscheinantwort", nr |-> w.nr, sum |-> w.sum, len |-> w.len,
               data |-> NoData, prio |-> 0, tries |-> 0]
OweReceipt(b, w) ==
  [k \in Slot |-> IF w.art = "ausgang_rueckschein" /\ IsFirst(b, "leer", k)
                  THEN Receipt(w) ELSE b[k]]

(* A message read as d (other than what was sent if the network changed    *)
(* it) is kept, in the free slot k, and confirmed if its checksum is right. *)
Checked(d, w) == Sum[d] = w.sum
InSlot(w, d) == [w EXCEPT !.art = "eingang", !.data = d]

(* mutants: the checksum is not compared; the receipt does not wait for it *)
FiledUnchecked(b, k, w, d) == OweReceipt([b EXCEPT ![k] = InSlot(w, d)], w)
FiledEagerly(b, k, w, d) ==
  OweReceipt(IF Checked(d, w) THEN [b EXCEPT ![k] = InSlot(w, d)] ELSE b, w)

Filed(b, k, w, d) ==
  IF Checked(d, w) THEN OweReceipt([b EXCEPT ![k] = InSlot(w, d)], w) ELSE b

(* Its number is noted; one below remoteNr is only counted.                *)
ReadMessage(n) ==
  /\ \E i, k \in Slot, d \in Data :
       LET w == rx[n].msgs[i] IN
       /\ NextEntry(n, i) /\ Outgoing(w)
       /\ IsFirst(slot[n], "leer", k)
       /\ HeadRead(n) + w.len <= MaxMesg
       /\ d = w.data \/ (Corruption /\ Size[d] = w.len)
       /\ remoteNr' = [remoteNr EXCEPT ![n] = IF w.nr < @ THEN @ ELSE w.nr]
       /\ slot' = [slot EXCEPT ![n] = Filed(@, k, w, d)]
       /\ stored' = [stored EXCEPT ![n] = IF Checked(d, w) THEN @ \cup {w.nr} ELSE @]
       /\ GoOn(n, i)
  /\ UNCHANGED <<nextNr, intro, net, log, spent>>

(* mutants: any receipt answers; the number is not compared *)
AnsweredByAny(e, w) == e.art = "ausgang_rueckschein"
AnsweredByContent(e, w) == e.art = "ausgang_rueckschein" /\ e.sum = w.sum /\ e.len = w.len

Answered(e, w) == /\ e.art = "ausgang_rueckschein"
                  /\ e.nr = w.nr /\ e.sum = w.sum /\ e.len = w.len

(* del_from_buffer_rueckschein *)
ReadReceipt(n) ==
  /\ \E i \in Slot :
       LET w == rx[n].msgs[i] IN
       /\ NextEntry(n, i) /\ w.art = "rueckscheinantwort"
       /\ HeadRead(n) <= MaxMesg
       /\ slot' = [slot EXCEPT ![n] =
            [k \in Slot |-> IF Answered(@[k], w) THEN Leer ELSE @[k]]]
       /\ GoOn(n, i)
  /\ UNCHANGED <<nextNr, remoteNr, intro, net, log, stored, spent>>

(* get_next_buffer hands out the first message received.  A tag nobody     *)
(* knows ends the loop and leaves what comes after it in the inbox.        *)
Dispatch(n) ==
  /\ rx[n].phase = "dispatch"
  /\ \E i \in Slot :
       /\ IsFirst(slot[n], "eingang", i)
       /\ slot' = [slot EXCEPT ![n][i] = Leer]
       /\ rx' = [rx EXCEPT ![n].phase = IF slot[n][i].data \in Foreign THEN "idle" ELSE @]
  /\ UNCHANGED <<nextNr, remoteNr, intro, net, log, stored, spent>>

EndDispatch(n) ==
  /\ rx[n].phase = "dispatch"
  /\ \A i \in Slot : slot[n][i].art # "eingang"
  /\ rx' = [rx EXCEPT ![n].phase = "idle"]
  /\ UNCHANGED <<slot, nextNr, remoteNr, intro, net, log, stored, spent>>
-----------------------------------------------------------------------------
Loops(n) == \/ ReadMessage(n) \/ ReadReceipt(n) \/ EndParse(n)
            \/ Dispatch(n) \/ EndDispatch(n)

Next == \E n \in Node :
  \/ \E m \in Letters : Put(n, m)
  \/ Send(n)
  \/ Receive(n)
  \/ Lose(n)
  \/ ReadMessage(n)
  \/ ReadReceipt(n)
  \/ EndParse(n)
  \/ Dispatch(n)
  \/ EndDispatch(n)

Spec == Init /\ [][Next]_vars

(* Teamcontrol asks in every cycle and so sends again and again; the robot *)
(* only answers, and sends nothing while it is not asked.  udp_receive     *)
(* comes to its end at both ends; the network may deliver nothing.         *)
Running == SF_vars(Send(Coach)) /\ \A n \in Node : WF_vars(Loops(n))
RunningSpec == Spec /\ Running

(* What is sent again and again is received again and again: teamcontrol's *)
(* questions as well, so that the robot answers again and again.           *)
FairSpec == RunningSpec /\ SF_vars(Send(Robot)) /\ \A n \in Node : SF_vars(Receive(n))
-----------------------------------------------------------------------------
TypeOK ==
  /\ slot \in [Node -> [Slot -> Entry]]
  /\ nextNr \in [Node -> Nat]
  /\ remoteNr \in [Node -> Nat]
  /\ intro \in [Node -> Nat]
  /\ net \in [Node -> SUBSET Datagram]
  /\ rx \in [Node -> [phase : {"idle", "parse", "dispatch"}, used : Nat,
                    msgs : [Slot -> Entry]]]
  /\ log \in [Node -> SUBSET Letter]
  /\ stored \in [Node -> SUBSET Nat]
  /\ spent \in [Node -> SUBSET Nat]

Waits(n, nr) == \E i \in Slot : /\ slot[n][i].art = "ausgang_rueckschein"
                                /\ slot[n][i].nr = nr

(* A message handed over with a rueckschein never vanishes silently: it    *)
(* waits in its slot, or the other end has stored it, or all its tries     *)
(* were used up (put_to_buffer, get_send_buffer,                           *)
(* del_from_buffer_rueckschein).                                           *)
ReliableNotLost ==
  \A n \in Node : \A m \in log[n] :
    m.reliable => \/ Waits(n, m.nr)
                  \/ m.nr \in stored[Peer(n)]
                  \/ m.nr \in spent[n]

(* A receipt is owed, under way or being read only for a message its       *)
(* author has stored.                                                      *)
ReceiptsAreTrue ==
  \A n \in Node :
    LET Honest(b) == \A i \in Slot : b[i].art = "rueckscheinantwort" => b[i].nr \in stored[n]
    IN  /\ Honest(slot[n])
        /\ Honest(rx[Peer(n)].msgs)
        /\ \A d \in net[Peer(n)] : Honest(d.msgs)

(* The buffers keep the promise of Link: a message is stored only if it    *)
(* was accepted, and its author answers for it until the other end has     *)
(* stored it or the tries are used up.                                     *)
L == INSTANCE Link WITH
       accepted <- nextNr,
       answerable <- [n \in Node |-> {nr \in 0..(nextNr[n] - 1) : Waits(n, nr)}]
KeepsThePromise == L!Spec

(* What lies in the inbox is a message the other end handed over: under    *)
(* its number the other end accepted a content of this length and          *)
(* checksum, and exactly this content unless the network garbles.          *)
InboxIsGenuine ==
  \A n \in Node, i \in Slot :
    LET e == slot[n][i] IN
    e.art = "eingang" =>
      \E m \in log[Peer(n)] :
        /\ m.nr = e.nr /\ Sum[m.data] = e.sum /\ Size[m.data] = e.len
        /\ Sum[e.data] = e.sum
        /\ Corruption \/ m.data = e.data

(* get_send_buffer never leaves behind an entry that the room left in the  *)
(* finished datagram would still have taken, whatever its priority.        *)
DatagramIsFull ==
  [][\A n \in Node, i \in Slot :
       i \in Pending(slot[n]) /\ slot'[n][i] = slot[n][i] /\ Send(n) =>
         LET sent == {j \in Pending(slot[n]) : slot'[n][j] # slot[n][j]}
         IN  IntroBytes(n) + MapThenSumSet(LAMBDA j : Bytes(slot[n][j]), sent)
               + Bytes(slot[n][i]) >= MaxSize]_vars

(* An entry is passed over in favour of a less important one only because  *)
(* the less important one is shorter.                                      *)
NoPriorityInversion ==
  [][\A n \in Node, i, j \in Slot :
       LET b == slot[n] IN
       /\ {i, j} \subseteq Pending(b) /\ b[i].prio < b[j].prio
       /\ slot'[n][i] = b[i] /\ slot'[n][j] # b[j]
       /\ Send(n)
       => Bytes(b[j]) < Bytes(b[i])]_vars

(* At teamcontrol a message with a rueckschein leaves its slot in the end, *)
(* for its tries are limited: no slot is blocked for ever, whatever the    *)
(* network does.  At the robot it may wait as long as nobody asks.         *)
SlotsAreReleased ==
  \A nr \in 0..(MaxNr[Coach]-1) : Waits(Coach, nr) ~> ~Waits(Coach, nr)

(* If the network loses nothing, every message with a rueckschein is       *)
(* stored by the other end after all; each end hands over finitely many.   *)
ReliableArrives ==
  \A n \in Node : <>[](\A m \in log[n] : m.reliable => m.nr \in stored[Peer(n)])
=============================================================================
