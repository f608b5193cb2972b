-------------------------- MODULE CommBuffer_proofs --------------------------
(***************************************************************************)
(* Proofs about the message buffers, for any number of slots, tries and    *)
(* messages, and for a network that loses, repeats, reorders and garbles.  *)
(***************************************************************************)
EXTENDS CommBuffer, NumberLemmas, TLAPS

(* The other end of the other end is this end.                             *)
LEMMA PeerPeer == \A n \in Node : /\ Peer(n) \in Node
                                  /\ Peer(n) # n
                                  /\ Peer(Peer(n)) = n
BY EndsAssumption DEF Peer, Node

(* A free slot, and a box of free slots, are well typed.                   *)
LEMMA LeerType == Leer \in Entry /\ AllLeer \in [Slot -> Entry]
BY DEF Leer, AllLeer, Entry, Art, Prio

(* The type invariant of the buffers.                                      *)
THEOREM TypeCorrect == Spec => []TypeOK
<1>1. Init => TypeOK
  BY LeerType, BoundAssumption DEF Init, TypeOK
<1>2. TypeOK /\ [Next]_vars => TypeOK'
  <2> SUFFICES ASSUME TypeOK, [Next]_vars PROVE TypeOK'
    OBVIOUS
  <2>1. ASSUME NEW n \in Node, NEW m \in Letters, Put(n, m) PROVE TypeOK'
    <3>1. m \in [data : Data, reliable : BOOLEAN, prio : Prio]
      BY DataAssumption
    <3>2. /\ Size[m.data] \in Nat /\ Sum[m.data] \in Nat
          /\ m.data \in Data /\ m.prio \in Prio /\ m.reliable \in BOOLEAN
      BY <3>1, DataAssumption
    <3>3. [art |-> IF m.reliable THEN "ausgang_rueckschein" ELSE "ausgang_normal",
           nr |-> nextNr[n], sum |-> Sum[m.data], len |-> Size[m.data],
           data |-> m.data, prio |-> m.prio,
           tries |-> IF m.reliable THEN Tries ELSE 0] \in Entry
      BY <3>2, BoundAssumption DEF TypeOK, Entry, Art
    <3>4. slot' \in [Node -> [Slot -> Entry]]
      BY <2>1, <3>3 DEF Put, TypeOK
    <3>5. log' \in [Node -> SUBSET Letter]
      BY <2>1, <3>2 DEF Put, TypeOK, Letter
    <3>6. nextNr' \in [Node -> Nat]
      BY <2>1 DEF Put, TypeOK
    <3> QED
      BY <2>1, <3>4, <3>5, <3>6 DEF Put, TypeOK
  <2>2. ASSUME NEW n \in Node, Send(n) PROVE TypeOK'
    <3>1. PICK S \in SUBSET Pending(slot[n]) : Send(n)!2!(S)
      BY <2>2 DEF Send
    <3> DEFINE b == slot[n]
               dg == [head |-> IntroBytes(n),
                      msgs |-> [i \in Slot |-> IF i \in S THEN Copied(b[i]) ELSE Leer]]
    <3>2. b \in [Slot -> Entry] /\ intro[n] \in Nat /\ S \subseteq Slot
      BY DEF TypeOK, Pending
    <3>3. \A e \in Entry : /\ Copied(e) \in Entry
                           /\ Kept(e) \in Entry
                           /\ e.nr \in Nat
      BY LeerType DEF Entry, KeepsTrying, Copied, Kept
    <3>4. dg \in Datagram
      BY <3>2, <3>3, LeerType, BoundAssumption DEF Datagram, IntroBytes
    <3>5. slot' \in [Node -> [Slot -> Entry]]
      BY <3>1, <3>2, <3>3, LeerType DEF TypeOK
    <3>6. net' \in [Node -> SUBSET Datagram]
      BY <3>1, <3>4 DEF TypeOK
    <3>7. spent' \in [Node -> SUBSET Nat]
      BY <3>1, <3>2, <3>3 DEF TypeOK
    <3>8. intro' \in [Node -> Nat]
      BY <3>1, <3>2 DEF TypeOK
    <3> QED
      BY <2>2, <3>5, <3>6, <3>7, <3>8 DEF Send, TypeOK
  <2>3. ASSUME NEW n \in Node, Receive(n) PROVE TypeOK'
    <3>1. PICK d \in net[n] : Receive(n)!2!(d)
      BY <2>3 DEF Receive
    <3>2. d.head \in Nat /\ d.msgs \in [Slot -> Entry]
      BY <3>1 DEF TypeOK, Datagram
    <3>3. rx' \in [Node -> [phase : {"idle", "parse", "dispatch"}, used : Nat,
                            msgs : [Slot -> Entry]]]
      BY <3>1, <3>2 DEF TypeOK
    <3>4. net' \in [Node -> SUBSET Datagram]
      BY <3>1 DEF TypeOK
    <3> QED
      BY <2>3, <3>3, <3>4 DEF Receive, TypeOK
  <2>4. ASSUME NEW n \in Node, Lose(n) PROVE TypeOK'
    BY <2>4 DEF Lose, TypeOK
  <2>5. ASSUME NEW n \in Node, ReadMessage(n) PROVE TypeOK'
    <3>1. PICK i \in Slot, k \in Slot, d \in Data : ReadMessage(n)!1!(i, k, d)
      BY <2>5 DEF ReadMessage
    <3> DEFINE w == rx[n].msgs[i]
               b == [slot[n] EXCEPT ![k] = InSlot(w, d)]
    <3>2. w \in Entry /\ rx[n].used \in Nat /\ HeadSize \in Nat
      BY BoundAssumption DEF TypeOK
    <3>3. InSlot(w, d) \in Entry /\ b \in [Slot -> Entry]
      BY <3>2 DEF TypeOK, Entry, Art, InSlot
    <3>4. Receipt(w) \in Entry
      BY <3>2 DEF Entry, Art, Receipt, Prio
    <3>5. OweReceipt(b, w) \in [Slot -> Entry]
      BY <3>3, <3>4 DEF OweReceipt
    <3>6. slot' \in [Node -> [Slot -> Entry]] /\ stored' \in [Node -> SUBSET Nat]
      <4>1. Filed(slot[n], k, w, d) \in [Slot -> Entry]
        BY <3>5 DEF Filed, TypeOK
      <4>2. w.nr \in Nat
        BY <3>2 DEF Entry
      <4> QED BY <3>1, <4>1, <4>2 DEF TypeOK
    <3>7. remoteNr' \in [Node -> Nat]
      BY <3>1, <3>2 DEF TypeOK, Entry
    <3>8. Bytes(w) \in Nat
      BY <3>2 DEF Bytes, Entry
    <3>9. rx' \in [Node -> [phase : {"idle", "parse", "dispatch"}, used : Nat,
                            msgs : [Slot -> Entry]]]
      BY <3>1, <3>2, <3>8, LeerType DEF TypeOK, GoOn
    <3> QED
      BY <2>5, <3>6, <3>7, <3>9 DEF ReadMessage, TypeOK
  <2>6. ASSUME NEW n \in Node, ReadReceipt(n) PROVE TypeOK'
    <3>1. PICK i \in Slot : ReadReceipt(n)!1!(i)
      BY <2>6 DEF ReadReceipt
    <3>2. /\ rx[n].msgs[i] \in Entry /\ rx[n].used \in Nat
          /\ Bytes(rx[n].msgs[i]) \in Nat
      BY BoundAssumption DEF TypeOK, Bytes, Entry
    <3>3. rx' \in [Node -> [phase : {"idle", "parse", "dispatch"}, used : Nat,
                            msgs : [Slot -> Entry]]]
      BY <3>1, <3>2, LeerType DEF TypeOK, GoOn
    <3>4. slot' \in [Node -> [Slot -> Entry]]
      BY <3>1, LeerType DEF TypeOK
    <3> QED
      BY <2>6, <3>3, <3>4 DEF ReadReceipt, TypeOK
  <2>7. ASSUME NEW n \in Node, EndParse(n) PROVE TypeOK'
    BY <2>7, LeerType DEF EndParse, Finish, TypeOK
  <2>8. ASSUME NEW n \in Node, Dispatch(n) PROVE TypeOK'
    <3>1. PICK i \in Slot : Dispatch(n)!2!(i)
      BY <2>8 DEF Dispatch
    <3>2. slot' \in [Node -> [Slot -> Entry]]
      BY <3>1, LeerType DEF TypeOK
    <3>3. rx' \in [Node -> [phase : {"idle", "parse", "dispatch"}, used : Nat,
                            msgs : [Slot -> Entry]]]
      BY <3>1 DEF TypeOK
    <3> QED
      BY <2>8, <3>2, <3>3 DEF Dispatch, TypeOK
  <2>9. ASSUME NEW n \in Node, EndDispatch(n) PROVE TypeOK'
    BY <2>9 DEF EndDispatch, TypeOK
  <2>10. CASE UNCHANGED vars
    BY <2>10 DEF vars, TypeOK
  <2> QED
    BY <2>1, <2>2, <2>3, <2>4, <2>5, <2>6, <2>7, <2>8, <2>9, <2>10 DEF Next
<1> QED
  BY <1>1, <1>2, PTL DEF Spec
-----------------------------------------------------------------------------
(***************************************************************************)
(* Nothing sent with a rueckschein vanishes.  ReliableNotLost alone is not *)
(* inductive: a receipt for a message nobody stored would delete it.  With *)
(* ReceiptsAreTrue it is.                                                  *)
(***************************************************************************)
DeliveryInv == ReliableNotLost /\ ReceiptsAreTrue

(* DeliveryInv is kept by every step.                                      *)
LEMMA DeliveryStep == TypeOK /\ DeliveryInv /\ [Next]_vars => DeliveryInv'
<1> SUFFICES ASSUME TypeOK, DeliveryInv, [Next]_vars PROVE DeliveryInv'
  OBVIOUS
<1> USE PeerPeer
<1>1. ASSUME NEW n \in Node, NEW m \in Letters, Put(n, m) PROVE DeliveryInv'
  <2>1. PICK i \in Slot : Put(n, m)!4!(i)
    BY <1>1 DEF Put
  <2>2. /\ slot[n][i].art = "leer"
        /\ \A p \in Node, k \in Slot : p # n \/ k # i => slot'[p][k] = slot[p][k]
        /\ slot'[n][i].nr = nextNr[n]
        /\ slot'[n][i].art = IF m.reliable THEN "ausgang_rueckschein" ELSE "ausgang_normal"
    BY <2>1 DEF IsFirst, TypeOK
  <2>3. \A p \in Node : \A nr : Waits(p, nr) => Waits(p, nr)'
    BY <2>2 DEF Waits
  <2>4. ReliableNotLost'
    <3> SUFFICES ASSUME NEW p \in Node, NEW l \in log'[p], l.reliable
                 PROVE  \/ Waits(p, l.nr)'
                        \/ l.nr \in stored[Peer(p)]
                        \/ l.nr \in spent[p]
      BY <1>1 DEF Put, ReliableNotLost
    <3>1. CASE l \in log[p]
      BY <3>1, <2>3 DEF DeliveryInv, ReliableNotLost
    <3>2. CASE l \notin log[p]
      <4>1. p = n /\ l = [nr |-> nextNr[n], data |-> m.data, reliable |-> m.reliable]
        BY <1>1, <3>2 DEF Put, TypeOK
      <4>2. l.nr = nextNr[n] /\ m.reliable
        BY <4>1
      <4> QED BY <4>1, <4>2, <2>2 DEF Waits
    <3> QED BY <3>1, <3>2
  <2>5. ReceiptsAreTrue'
    BY <1>1, <2>2 DEF Put, DeliveryInv, ReceiptsAreTrue
  <2> QED BY <2>4, <2>5 DEF DeliveryInv
<1>2. ASSUME NEW n \in Node, Send(n) PROVE DeliveryInv'
  <2>1. PICK S \in SUBSET Pending(slot[n]) : Send(n)!2!(S)
    BY <1>2 DEF Send
  <2> DEFINE msgs == [i \in Slot |-> IF i \in S THEN Copied(slot[n][i]) ELSE Leer]
             dg == [head |-> IntroBytes(n), msgs |-> msgs]
  <2>2. \A p \in Node, k \in Slot : slot'[p][k] = IF p = n /\ k \in S THEN Kept(slot[n][k])
                                                  ELSE slot[p][k]
    BY <2>1 DEF TypeOK
  <2>3. \A e \in Entry : /\ Copied(e).art = e.art /\ Copied(e).nr = e.nr
                         /\ KeepsTrying(e) => Kept(e).art = e.art /\ Kept(e).nr = e.nr
                         /\ ~KeepsTrying(e) => Kept(e) = Leer
    BY DEF Copied, Kept, Entry
  <2>4. \A k \in Slot : slot[n][k] \in Entry
    BY DEF TypeOK
  <2>5. \A p \in Node : \A nr : Waits(p, nr) => Waits(p, nr)' \/ nr \in spent'[p]
    <3> SUFFICES ASSUME NEW p \in Node, NEW nr, NEW k \in Slot,
                        slot[p][k].art = "ausgang_rueckschein", slot[p][k].nr = nr
                 PROVE  Waits(p, nr)' \/ nr \in spent'[p]
      BY DEF Waits
    <3>1. CASE p = n /\ k \in S /\ ~KeepsTrying(slot[n][k])
      BY <2>1, <3>1 DEF TypeOK
    <3>2. CASE ~(p = n /\ k \in S /\ ~KeepsTrying(slot[n][k]))
      BY <2>2, <2>3, <2>4, <3>2 DEF Waits
    <3> QED BY <3>1, <3>2
  <2>6. \A p \in Node : spent[p] \subseteq spent'[p]
    BY <2>1 DEF TypeOK
  <2>7. ReliableNotLost'
    BY <1>2, <2>5, <2>6 DEF Send, DeliveryInv, ReliableNotLost
  <2>8. \A i \in Slot : msgs[i].art = "rueckscheinantwort" => msgs[i].nr \in stored[n]
    BY <2>3, <2>4 DEF DeliveryInv, ReceiptsAreTrue, Leer
  <2>9. \A p \in Node : \A d \in net'[Peer(p)] : d \in net[Peer(p)] \/ (p = n /\ d = dg)
    BY <2>1 DEF TypeOK
  <2>10. \A p \in Node, i \in Slot : slot'[p][i].art = "rueckscheinantwort" =>
            slot'[p][i] = slot[p][i]
    BY <2>2, <2>3, <2>4 DEF Leer, KeepsTrying
  <2>11. ReceiptsAreTrue'
    BY <1>2, <2>8, <2>9, <2>10 DEF Send, DeliveryInv, ReceiptsAreTrue
  <2> QED BY <2>7, <2>11 DEF DeliveryInv
<1>3. ASSUME NEW n \in Node, Receive(n) PROVE DeliveryInv'
  <2>1. PICK d \in net[n] : Receive(n)!2!(d)
    BY <1>3 DEF Receive
  <2>2. ReliableNotLost'
    BY <1>3 DEF Receive, DeliveryInv, ReliableNotLost, Waits
  <2>3. \A p \in Node : /\ net'[p] \subseteq net[p]
                        /\ rx'[p].msgs = IF p = n THEN d.msgs ELSE rx[p].msgs
    BY <2>1 DEF TypeOK
  <2>4. ReceiptsAreTrue'
    BY <1>3, <2>3 DEF Receive, DeliveryInv, ReceiptsAreTrue
  <2> QED BY <2>2, <2>4 DEF DeliveryInv
<1>4. ASSUME NEW n \in Node, Lose(n) PROVE DeliveryInv'
  <2>1. ReliableNotLost'
    BY <1>4 DEF Lose, DeliveryInv, ReliableNotLost, Waits
  <2>2. ReceiptsAreTrue'
    BY <1>4 DEF Lose, DeliveryInv, ReceiptsAreTrue, TypeOK
  <2> QED BY <2>1, <2>2 DEF DeliveryInv
<1>5. ASSUME NEW n \in Node, ReadMessage(n) PROVE DeliveryInv'
  <2>1. PICK i \in Slot, k \in Slot, d \in Data : ReadMessage(n)!1!(i, k, d)
    BY <1>5 DEF ReadMessage
  <2> DEFINE w == rx[n].msgs[i]
             kept == InSlot(w, d)
             b == [slot[n] EXCEPT ![k] = kept]
  <2>2. slot[n][k].art = "leer" /\ slot[n] \in [Slot -> Entry] /\ w \in Entry
    BY <2>1 DEF IsFirst, TypeOK
  <2>3. kept.art = "eingang"
    BY <2>2 DEF Entry, InSlot
  <2>4. \/ slot' = [slot EXCEPT ![n] = OweReceipt(b, w)] /\ w.nr \in stored'[n]
        \/ UNCHANGED slot
    BY <2>1 DEF TypeOK, Filed
  <2>5. \A p \in Node : stored[p] \subseteq stored'[p]
    BY <2>1 DEF TypeOK
  <2>6. \A p \in Node, j \in Slot :
           \/ slot'[p][j] = slot[p][j]
           \/ slot[p][j].art = "leer" /\ slot'[p][j].art = "eingang"
           \/ /\ slot[p][j].art = "leer" /\ p = n
              /\ slot'[p][j].nr = w.nr /\ w.nr \in stored'[n]
    <3> SUFFICES ASSUME NEW p \in Node, NEW j \in Slot, slot'[p][j] # slot[p][j]
                 PROVE  \/ slot[p][j].art = "leer" /\ slot'[p][j].art = "eingang"
                        \/ /\ slot[p][j].art = "leer" /\ p = n
                           /\ slot'[p][j].nr = w.nr /\ w.nr \in stored'[n]
      OBVIOUS
    <3>1. p = n /\ slot'[p][j] = OweReceipt(b, w)[j] /\ w.nr \in stored'[n]
      BY <2>4 DEF TypeOK
    <3>2. b[j] = IF j = k THEN kept ELSE slot[n][j]
      BY <2>2
    <3>3. CASE IsFirst(b, "leer", j) /\ w.art = "ausgang_rueckschein"
      BY <3>1, <3>2, <3>3, <2>2, <2>3 DEF OweReceipt, IsFirst, Receipt
    <3>4. CASE ~(IsFirst(b, "leer", j) /\ w.art = "ausgang_rueckschein")
      BY <3>1, <3>2, <3>4, <2>2, <2>3 DEF OweReceipt
    <3> QED BY <3>3, <3>4
  <2>7. \A p \in Node : \A nr : Waits(p, nr) => Waits(p, nr)'
    BY <2>6 DEF Waits
  <2>8. ReliableNotLost'
    BY <1>5, <2>5, <2>7 DEF ReadMessage, DeliveryInv, ReliableNotLost
  <2>9. \A p \in Node, j \in Slot : rx'[p].msgs[j] = rx[p].msgs[j] \/ rx'[p].msgs[j] = Leer
    BY <2>1 DEF GoOn, TypeOK
  <2>10. ReceiptsAreTrue'
    <3>1. ASSUME NEW p \in Node, NEW j \in Slot, slot'[p][j].art = "rueckscheinantwort"
          PROVE  slot'[p][j].nr \in stored'[p]
      BY <3>1, <2>5, <2>6 DEF DeliveryInv, ReceiptsAreTrue
    <3>2. ASSUME NEW p \in Node, NEW j \in Slot,
                 rx'[Peer(p)].msgs[j].art = "rueckscheinantwort"
          PROVE  rx'[Peer(p)].msgs[j].nr \in stored'[p]
      BY <3>2, <2>5, <2>9 DEF DeliveryInv, ReceiptsAreTrue, Leer
    <3> QED
      BY <1>5, <2>5, <3>1, <3>2 DEF ReadMessage, DeliveryInv, ReceiptsAreTrue
  <2> QED BY <2>8, <2>10 DEF DeliveryInv
<1>6. ASSUME NEW n \in Node, ReadReceipt(n) PROVE DeliveryInv'
  <2>1. PICK i \in Slot : ReadReceipt(n)!1!(i)
    BY <1>6 DEF ReadReceipt
  <2>2. rx[n].msgs[i].nr \in stored[Peer(n)]
    BY <2>1 DEF DeliveryInv, ReceiptsAreTrue
  <2>3. \A p \in Node, j \in Slot :
           \/ slot'[p][j] = slot[p][j]
           \/ p = n /\ slot'[p][j] = Leer /\ slot[p][j].nr = rx[n].msgs[i].nr
    BY <2>1 DEF TypeOK, Answered
  <2>4. \A p \in Node : \A nr : Waits(p, nr) => Waits(p, nr)' \/ nr \in stored[Peer(p)]
    BY <2>2, <2>3 DEF Waits
  <2>5. ReliableNotLost'
    BY <1>6, <2>4 DEF ReadReceipt, DeliveryInv, ReliableNotLost
  <2>6. \A p \in Node, j \in Slot : rx'[p].msgs[j] = rx[p].msgs[j] \/ rx'[p].msgs[j] = Leer
    BY <2>1 DEF GoOn, TypeOK
  <2>7. ReceiptsAreTrue'
    BY <1>6, <2>3, <2>6 DEF ReadReceipt, DeliveryInv, ReceiptsAreTrue, Leer
  <2> QED BY <2>5, <2>7 DEF DeliveryInv
<1>7. ASSUME NEW n \in Node, EndParse(n) PROVE DeliveryInv'
  <2>1. ReliableNotLost'
    BY <1>7 DEF EndParse, DeliveryInv, ReliableNotLost, Waits
  <2>2. \A p \in Node, j \in Slot : rx'[p].msgs[j] = rx[p].msgs[j] \/ rx'[p].msgs[j] = Leer
    BY <1>7 DEF EndParse, Finish, AllLeer, TypeOK
  <2>3. ReceiptsAreTrue'
    BY <1>7, <2>2 DEF EndParse, DeliveryInv, ReceiptsAreTrue, Leer
  <2> QED BY <2>1, <2>3 DEF DeliveryInv
<1>8. ASSUME NEW n \in Node, Dispatch(n) PROVE DeliveryInv'
  <2>1. PICK i \in Slot : Dispatch(n)!2!(i)
    BY <1>8 DEF Dispatch
  <2>2. \A p \in Node, j \in Slot :
           \/ slot'[p][j] = slot[p][j]
           \/ slot[p][j].art = "eingang" /\ slot'[p][j] = Leer
    BY <2>1 DEF IsFirst, TypeOK
  <2>3. \A p \in Node : \A nr : Waits(p, nr) => Waits(p, nr)'
    BY <2>2 DEF Waits
  <2>4. ReliableNotLost'
    BY <1>8, <2>3 DEF Dispatch, DeliveryInv, ReliableNotLost
  <2>5. \A p \in Node : rx'[p].msgs = rx[p].msgs
    BY <2>1 DEF TypeOK
  <2>6. ReceiptsAreTrue'
    BY <1>8, <2>2, <2>5 DEF Dispatch, DeliveryInv, ReceiptsAreTrue, Leer
  <2> QED BY <2>4, <2>6 DEF DeliveryInv
<1>9. ASSUME NEW n \in Node, EndDispatch(n) PROVE DeliveryInv'
  <2>1. \A p \in Node : rx'[p].msgs = rx[p].msgs
    BY <1>9 DEF EndDispatch, TypeOK
  <2>2. ReliableNotLost'
    BY <1>9 DEF EndDispatch, DeliveryInv, ReliableNotLost, Waits
  <2>3. ReceiptsAreTrue'
    BY <1>9, <2>1 DEF EndDispatch, DeliveryInv, ReceiptsAreTrue
  <2> QED BY <2>2, <2>3 DEF DeliveryInv
<1>10. CASE UNCHANGED vars
  <2>1. ReliableNotLost'
    BY <1>10 DEF vars, DeliveryInv, ReliableNotLost, Waits
  <2>2. ReceiptsAreTrue'
    BY <1>10 DEF vars, DeliveryInv, ReceiptsAreTrue
  <2> QED BY <2>1, <2>2 DEF DeliveryInv
<1> QED
  BY <1>1, <1>2, <1>3, <1>4, <1>5, <1>6, <1>7, <1>8, <1>9, <1>10 DEF Next

(* A message handed over with a rueckschein waits, or is stored at the     *)
(* other end, or all its tries are used up; and every receipt is true.     *)
THEOREM Delivery == Spec => [](ReliableNotLost /\ ReceiptsAreTrue)
<1>1. Init => DeliveryInv
  BY PeerPeer DEF Init, DeliveryInv, ReliableNotLost, ReceiptsAreTrue, AllLeer, Leer
<1> QED
  BY <1>1, DeliveryStep, TypeCorrect, PTL DEF Spec, DeliveryInv

(* In particular no receipt is ever given for a message nobody stored.     *)
COROLLARY TrueReceipts == Spec => []ReceiptsAreTrue
BY Delivery, PTL
-----------------------------------------------------------------------------
(***************************************************************************)
(* What is read is genuine.  InboxIsGenuine speaks of the inbox alone; it  *)
(* follows from what is true of a message all the way from its author.     *)
(***************************************************************************)
Same(m, e) == m.nr = e.nr /\ Sum[m.data] = e.sum /\ Size[m.data] = e.len
Authored(accepted, e) == Outgoing(e) => \E m \in accepted : Same(m, e) /\ m.data = e.data
Genuine(accepted, e) ==
  e.art = "eingang" =>
    \E m \in accepted : Same(m, e) /\ Sum[e.data] = e.sum /\ (Corruption \/ m.data = e.data)
AllAuthored(accepted, b) == \A i \in Slot : Authored(accepted, b[i])

GenuineInv ==
  \A n \in Node : /\ AllAuthored(log[n], slot[n])
                  /\ AllAuthored(log[n], rx[Peer(n)].msgs)
                  /\ \A d \in net[Peer(n)] : AllAuthored(log[n], d.msgs)
                  /\ \A i \in Slot : Genuine(log[Peer(n)], slot[n][i])

(* The log only grows: what is authored and genuine stays so.              *)
LEMMA LogGrows ==
  ASSUME NEW lg, NEW more, lg \subseteq more
  PROVE  /\ \A e : Authored(lg, e) => Authored(more, e)
         /\ \A b : AllAuthored(lg, b) => AllAuthored(more, b)
         /\ \A e : Genuine(lg, e) => Genuine(more, e)
BY DEF Authored, AllAuthored, Genuine

(* Neither free slots nor receipts need an author.                         *)
LEMMA NoAuthor ==
  ASSUME NEW lg, NEW e, e.art \in {"leer", "rueckscheinantwort"}
  PROVE  Authored(lg, e) /\ Genuine(lg, e)
BY DEF Authored, Genuine, Outgoing

LEMMA LeerNoAuthor == \A lg : Authored(lg, Leer) /\ Genuine(lg, Leer)
BY NoAuthor DEF Leer

(* A step in which every entry of every box, datagram and loop is an old   *)
(* one or has an author keeps the invariant.                               *)
LEMMA GenuineKept ==
  ASSUME GenuineInv,
         \A n \in Node : log[n] \subseteq log'[n],
         \A n \in Node, i \in Slot :
           \/ slot'[n][i] = slot[n][i]
           \/ Authored(log'[n], slot'[n][i]) /\ Genuine(log'[Peer(n)], slot'[n][i]),
         \A n \in Node, i \in Slot :
           \/ rx'[n].msgs[i] = rx[n].msgs[i] \/ rx'[n].msgs[i] = Leer
           \/ \E d \in net[n] : rx'[n].msgs[i] = d.msgs[i],
         \A n \in Node : \A d \in net'[n] :
           \/ d \in net[n]
           \/ \A i \in Slot : Authored(log'[Peer(n)], d.msgs[i])
  PROVE  GenuineInv'
<1> SUFFICES ASSUME NEW n \in Node
             PROVE  /\ AllAuthored(log'[n], slot'[n])
                    /\ AllAuthored(log'[n], rx'[Peer(n)].msgs)
                    /\ \A d \in net'[Peer(n)] : AllAuthored(log'[n], d.msgs)
                    /\ \A i \in Slot : Genuine(log'[Peer(n)], slot'[n][i])
  BY DEF GenuineInv
<1>0. Peer(n) \in Node /\ Peer(Peer(n)) = n
  BY PeerPeer
<1>1. /\ \A i \in Slot : Authored(log[n], slot[n][i])
      /\ \A i \in Slot : Authored(log[n], rx[Peer(n)].msgs[i])
      /\ \A d \in net[Peer(n)], i \in Slot : Authored(log[n], d.msgs[i])
      /\ \A i \in Slot : Genuine(log[Peer(n)], slot[n][i])
  BY DEF GenuineInv, AllAuthored
<1>2. /\ \A e : Authored(log[n], e) => Authored(log'[n], e)
      /\ \A e : Genuine(log[Peer(n)], e) => Genuine(log'[Peer(n)], e)
  BY <1>0, LogGrows
<1>3. \A i \in Slot : Authored(log'[n], slot'[n][i]) /\ Genuine(log'[Peer(n)], slot'[n][i])
  BY <1>1, <1>2
<1>4. \A i \in Slot : Authored(log'[n], rx'[Peer(n)].msgs[i])
  BY <1>0, <1>1, <1>2, LeerNoAuthor
<1>5. \A d \in net'[Peer(n)], i \in Slot : Authored(log'[n], d.msgs[i])
  BY <1>0, <1>1, <1>2
<1> QED
  BY <1>3, <1>4, <1>5 DEF AllAuthored

LEMMA GenuineStep == TypeOK /\ GenuineInv /\ [Next]_vars => GenuineInv'
<1> SUFFICES ASSUME TypeOK, GenuineInv, [Next]_vars PROVE GenuineInv'
  OBVIOUS
<1>1. ASSUME NEW n \in Node, NEW m \in Letters, Put(n, m) PROVE GenuineInv'
  <2>1. PICK i \in Slot : Put(n, m)!4!(i)
    BY <1>1 DEF Put
  <2>2. \A p \in Node, k \in Slot : slot'[p][k] = IF p = n /\ k = i THEN slot'[n][i] ELSE slot[p][k]
    BY <2>1 DEF TypeOK
  <2>3. m.data \in Data /\ m.reliable \in BOOLEAN
    BY DataAssumption
  <2> DEFINE new == [art |-> IF m.reliable THEN "ausgang_rueckschein" ELSE "ausgang_normal",
                     nr |-> nextNr[n], sum |-> Sum[m.data], len |-> Size[m.data],
                     data |-> m.data, prio |-> m.prio,
                     tries |-> IF m.reliable THEN Tries ELSE 0]
             letter == [nr |-> nextNr[n], data |-> m.data, reliable |-> m.reliable]
  <2>4. slot'[n][i] = new
    BY <2>1 DEF TypeOK
  <2>5. letter \in log'[n] /\ \A p \in Node : log[p] \subseteq log'[p]
    BY <1>1 DEF Put, TypeOK
  <2>6. Same(letter, new) /\ letter.data = new.data /\ new.art # "eingang"
    BY DEF Same
  <2>7. Authored(log'[n], slot'[n][i]) /\ Genuine(log'[Peer(n)], slot'[n][i])
    BY <2>4, <2>5, <2>6 DEF Authored, Genuine
  <2>8. UNCHANGED <<rx, net>>
    BY <1>1 DEF Put
  <2> HIDE DEF new, letter
  <2> QED
    BY <2>2, <2>5, <2>7, <2>8, GenuineKept
<1>2. ASSUME NEW n \in Node, Send(n) PROVE GenuineInv'
  <2>1. PICK S \in SUBSET Pending(slot[n]) : Send(n)!2!(S)
    BY <1>2 DEF Send
  <2> DEFINE msgs == [i \in Slot |-> IF i \in S THEN Copied(slot[n][i]) ELSE Leer]
             dg == [head |-> IntroBytes(n), msgs |-> msgs]
  <2>2. \A p \in Node, k \in Slot : slot'[p][k] = IF p = n /\ k \in S THEN Kept(slot[n][k])
                                                  ELSE slot[p][k]
    BY <2>1 DEF TypeOK
  <2>3. \A e \in Entry : /\ Authored(log[n], e) => Authored(log[n], Copied(e)) /\ Authored(log[n], Kept(e))
                         /\ Genuine(log[Peer(n)], e) => Genuine(log[Peer(n)], Kept(e))
    <3> SUFFICES ASSUME NEW e \in Entry
                 PROVE /\ Authored(log[n], e) => Authored(log[n], Copied(e)) /\ Authored(log[n], Kept(e))
                       /\ Genuine(log[Peer(n)], e) => Genuine(log[Peer(n)], Kept(e))
      OBVIOUS
    <3>1. /\ Copied(e).art = e.art /\ Copied(e).nr = e.nr /\ Copied(e).sum = e.sum
          /\ Copied(e).len = e.len /\ Copied(e).data = e.data
      BY DEF Copied, Entry
    <3>2. Authored(log[n], e) => Authored(log[n], Copied(e))
      BY <3>1 DEF Authored, Outgoing, Same
    <3>3. CASE KeepsTrying(e)
      <4>1. /\ Kept(e).art = e.art /\ Kept(e).nr = e.nr /\ Kept(e).sum = e.sum
            /\ Kept(e).len = e.len /\ Kept(e).data = e.data
        BY <3>3 DEF Kept, Entry
      <4> QED
        BY <3>2, <4>1 DEF Authored, Genuine, Outgoing, Same
    <3>4. CASE ~KeepsTrying(e)
      BY <3>2, <3>4, LeerNoAuthor DEF Kept
    <3> QED
      BY <3>3, <3>4
  <2>4. \A k \in Slot : slot[n][k] \in Entry /\ Authored(log[n], slot[n][k])
                        /\ Genuine(log[Peer(n)], slot[n][k])
    BY DEF TypeOK, GenuineInv, AllAuthored
  <2>5. log' = log /\ rx' = rx
    BY <1>2 DEF Send
  <2>6. \A p \in Node, k \in Slot :
           \/ slot'[p][k] = slot[p][k]
           \/ Authored(log'[p], slot'[p][k]) /\ Genuine(log'[Peer(p)], slot'[p][k])
    BY <2>2, <2>3, <2>4, <2>5
  <2>7. \A k \in Slot : Authored(log[n], msgs[k])
    BY <2>3, <2>4, LeerNoAuthor
  <2>8. \A p \in Node : \A d \in net'[p] : d \in net[p] \/ (p = Peer(n) /\ d = dg)
    BY <2>1, PeerPeer DEF TypeOK
  <2>9. \A k \in Slot : Authored(log[n], dg.msgs[k])
    BY <2>7
  <2> HIDE DEF dg, msgs
  <2>10. \A p \in Node : \A d \in net'[p] :
           \/ d \in net[p]
           \/ \A k \in Slot : Authored(log'[Peer(p)], d.msgs[k])
    BY <2>5, <2>8, <2>9, PeerPeer
  <2> QED
    BY <2>5, <2>6, <2>10, GenuineKept
<1>3. ASSUME NEW n \in Node, Receive(n) PROVE GenuineInv'
  <2>1. PICK d \in net[n] : Receive(n)!2!(d)
    BY <1>3 DEF Receive
  <2>2. UNCHANGED <<slot, log>>
    BY <1>3 DEF Receive
  <2>3. \A p \in Node : /\ net'[p] \subseteq net[p]
                        /\ rx'[p].msgs = IF p = n THEN d.msgs ELSE rx[p].msgs
    BY <2>1 DEF TypeOK
  <2> QED
    BY <2>2, <2>3, GenuineKept
<1>4. ASSUME NEW n \in Node, Lose(n) PROVE GenuineInv'
  <2>1. UNCHANGED <<slot, log, rx>> /\ \A p \in Node : net'[p] \subseteq net[p]
    BY <1>4 DEF Lose, TypeOK
  <2> QED
    BY <2>1, GenuineKept
<1>5. ASSUME NEW n \in Node, ReadMessage(n) PROVE GenuineInv'
  <2>1. PICK i \in Slot, k \in Slot, d \in Data : ReadMessage(n)!1!(i, k, d)
    BY <1>5 DEF ReadMessage
  <2> DEFINE w == rx[n].msgs[i]
             kept == InSlot(w, d)
             b == [slot[n] EXCEPT ![k] = kept]
  <2>2. UNCHANGED <<log, net>>
    BY <1>5 DEF ReadMessage
  <2>3. slot[n] \in [Slot -> Entry] /\ w \in Entry /\ Outgoing(w)
    BY <2>1 DEF TypeOK
  <2>4. PICK m \in log[Peer(n)] : Same(m, w) /\ m.data = w.data
    <3>1. AllAuthored(log[Peer(n)], rx[n].msgs)
      BY PeerPeer DEF GenuineInv
    <3> QED
      BY <2>3, <3>1 DEF AllAuthored, Authored
  <2>5. /\ kept.art = "eingang" /\ kept.nr = w.nr /\ kept.sum = w.sum
        /\ kept.len = w.len /\ kept.data = d
    BY <2>3 DEF Entry, InSlot
  <2>6. Checked(d, w) => Authored(log[n], kept) /\ Genuine(log[Peer(n)], kept)
    BY <2>1, <2>4, <2>5 DEF Checked, Authored, Genuine, Outgoing, Same
  <2>7. Authored(log[n], Receipt(w)) /\ Genuine(log[Peer(n)], Receipt(w))
    BY NoAuthor DEF Receipt
  <2>8. slot' = [slot EXCEPT ![n] = Filed(slot[n], k, w, d)]
    BY <2>1 DEF TypeOK
  <2>9. \A j \in Slot : \/ Filed(slot[n], k, w, d)[j] = slot[n][j]
                        \/ Checked(d, w) /\ Filed(slot[n], k, w, d)[j] = kept
                        \/ Filed(slot[n], k, w, d)[j] = Receipt(w)
    <3>1. b[k] = kept /\ \A j \in Slot \ {k} : b[j] = slot[n][j]
      BY <2>1, <2>3
    <3> HIDE DEF b, kept, w
    <3>2. \A j \in Slot : OweReceipt(b, w)[j] \in {b[j], Receipt(w)}
      BY DEF OweReceipt
    <3>3. Filed(slot[n], k, w, d) = IF Checked(d, w) THEN OweReceipt(b, w) ELSE slot[n]
      BY DEF Filed, b, kept, w
    <3> QED
      BY <3>1, <3>2, <3>3
  <2> HIDE DEF b, kept, w
  <2>10. \A p \in Node, j \in Slot :
           \/ slot'[p][j] = slot[p][j]
           \/ Authored(log'[p], slot'[p][j]) /\ Genuine(log'[Peer(p)], slot'[p][j])
    <3>1. \A p \in Node \ {n} : slot'[p] = slot[p]
      BY <2>8 DEF TypeOK
    <3>2. slot'[n] = Filed(slot[n], k, w, d)
      BY <2>8 DEF TypeOK
    <3> QED
      BY <2>2, <2>6, <2>7, <2>9, <3>1, <3>2
  <2>11. \A p \in Node, j \in Slot : rx'[p].msgs[j] = rx[p].msgs[j] \/ rx'[p].msgs[j] = Leer
    BY <2>1 DEF GoOn, TypeOK
  <2> QED
    BY <2>2, <2>10, <2>11, GenuineKept
<1>6. ASSUME NEW n \in Node, ReadReceipt(n) PROVE GenuineInv'
  <2>1. PICK i \in Slot : ReadReceipt(n)!1!(i)
    BY <1>6 DEF ReadReceipt
  <2>2. UNCHANGED <<log, net>>
    BY <1>6 DEF ReadReceipt
  <2>3. \A p \in Node, j \in Slot : slot'[p][j] = slot[p][j] \/ slot'[p][j] = Leer
    BY <2>1 DEF TypeOK
  <2>4. \A p \in Node, j \in Slot : rx'[p].msgs[j] = rx[p].msgs[j] \/ rx'[p].msgs[j] = Leer
    BY <2>1 DEF GoOn, TypeOK
  <2> QED
    BY <2>2, <2>3, <2>4, LeerNoAuthor, GenuineKept
<1>7. ASSUME NEW n \in Node, EndParse(n) PROVE GenuineInv'
  <2>1. UNCHANGED <<slot, log, net>>
    BY <1>7 DEF EndParse
  <2>2. \A p \in Node, j \in Slot : rx'[p].msgs[j] = rx[p].msgs[j] \/ rx'[p].msgs[j] = Leer
    BY <1>7 DEF EndParse, Finish, AllLeer, TypeOK
  <2> QED
    BY <2>1, <2>2, GenuineKept
<1>8. ASSUME NEW n \in Node, Dispatch(n) PROVE GenuineInv'
  <2>1. PICK i \in Slot : Dispatch(n)!2!(i)
    BY <1>8 DEF Dispatch
  <2>2. UNCHANGED <<log, net>>
    BY <1>8 DEF Dispatch
  <2>3. \A p \in Node, j \in Slot : slot'[p][j] = slot[p][j] \/ slot'[p][j] = Leer
    BY <2>1 DEF TypeOK
  <2>4. \A p \in Node : rx'[p].msgs = rx[p].msgs
    BY <2>1 DEF TypeOK
  <2> QED
    BY <2>2, <2>3, <2>4, LeerNoAuthor, GenuineKept
<1>9. ASSUME NEW n \in Node, EndDispatch(n) PROVE GenuineInv'
  <2>1. UNCHANGED <<slot, log, net>> /\ \A p \in Node : rx'[p].msgs = rx[p].msgs
    BY <1>9 DEF EndDispatch, TypeOK
  <2> QED
    BY <2>1, GenuineKept
<1>10. CASE UNCHANGED vars
  <2>1. UNCHANGED <<slot, log, net, rx>>
    BY <1>10 DEF vars
  <2> QED
    BY <2>1, GenuineKept
<1> QED
  BY <1>1, <1>2, <1>3, <1>4, <1>5, <1>6, <1>7, <1>8, <1>9, <1>10 DEF Next

LEMMA GenuineInit == Init => GenuineInv
<1> SUFFICES ASSUME Init, NEW n \in Node
             PROVE  /\ AllAuthored(log[n], slot[n])
                    /\ AllAuthored(log[n], rx[Peer(n)].msgs)
                    /\ \A d \in net[Peer(n)] : AllAuthored(log[n], d.msgs)
                    /\ \A i \in Slot : Genuine(log[Peer(n)], slot[n][i])
  BY DEF GenuineInv
<1>1. slot[n] = AllLeer /\ rx[Peer(n)].msgs = AllLeer /\ net[Peer(n)] = {}
  BY PeerPeer DEF Init
<1> QED
  BY <1>1, LeerNoAuthor DEF AllAuthored, AllLeer

(* Nothing is read that nobody sent: what lies in the inbox was accepted   *)
(* at the other end under its number, with its length and checksum, and    *)
(* if the network does not garble with its content, however many           *)
(* datagrams are lost, repeated, overtaken or cut off.                     *)
THEOREM ReadIsGenuine == Spec => []InboxIsGenuine
<1>1. Init => GenuineInv
  BY GenuineInit
<1>2. GenuineInv => InboxIsGenuine
  BY DEF GenuineInv, Genuine, Same, InboxIsGenuine
<1> QED
  BY <1>1, <1>2, GenuineStep, TypeCorrect, PTL DEF Spec
-----------------------------------------------------------------------------
(***************************************************************************)
(* The buffers implement Link.  What an end answers for are the messages   *)
(* that wait in its slots; that leaving a slot ends the answering needs    *)
(* every number to be in one slot only.                                    *)
(***************************************************************************)
Reliable(e) == e.art = "ausgang_rueckschein"

NumberInv ==
  \A n \in Node :
    /\ \A m \in log[n] : m.nr < nextNr[n]
    /\ \A i \in Slot : Reliable(slot[n][i]) => slot[n][i].nr < nextNr[n]
    /\ \A i, j \in Slot : /\ Reliable(slot[n][i]) /\ Reliable(slot[n][j])
                          /\ slot[n][i].nr = slot[n][j].nr
                          => i = j

(* A step after which only messages wait that waited before, each in its   *)
(* slot, keeps the invariant.                                              *)
LEMMA NumberKept ==
  ASSUME NumberInv, UNCHANGED <<nextNr, log>>,
         \A n \in Node, i \in Slot :
           Reliable(slot'[n][i]) => Reliable(slot[n][i]) /\ slot'[n][i].nr = slot[n][i].nr
  PROVE  NumberInv'
BY DEF NumberInv

(* What may become of the messages that wait.                              *)
LEMMA SendKeeps ==
  ASSUME TypeOK, NEW n \in Node, NEW S \in SUBSET Pending(slot[n]), Send(n)!2!(S)
  PROVE  /\ \A p \in Node, k \in Slot :
              IF p = n /\ k \in S /\ ~KeepsTrying(slot[n][k])
              THEN slot'[p][k] = Leer
              ELSE /\ Reliable(slot'[p][k]) <=> Reliable(slot[p][k])
                   /\ Reliable(slot[p][k]) => slot'[p][k].nr = slot[p][k].nr
<1>1. \A p \in Node, k \in Slot : slot'[p][k] = IF p = n /\ k \in S THEN Kept(slot[n][k])
                                                ELSE slot[p][k]
  BY DEF TypeOK
<1>2. \A e \in Entry : /\ KeepsTrying(e) => Kept(e).art = e.art /\ Kept(e).nr = e.nr
                       /\ ~KeepsTrying(e) => Kept(e) = Leer
  BY DEF Kept, Entry
<1>3. \A k \in Slot : slot[n][k] \in Entry
  BY DEF TypeOK
<1> QED
  BY <1>1, <1>2, <1>3 DEF Reliable

LEMMA ReadKeeps ==
  ASSUME TypeOK, NEW n \in Node, ReadMessage(n)
  PROVE  \A p \in Node, j \in Slot :
           \/ slot'[p][j] = slot[p][j]
           \/ ~Reliable(slot[p][j]) /\ ~Reliable(slot'[p][j])
<1>1. PICK i \in Slot, k \in Slot, d \in Data : ReadMessage(n)!1!(i, k, d)
  BY DEF ReadMessage
<1> DEFINE w == rx[n].msgs[i]
           kept == InSlot(w, d)
           b == [slot[n] EXCEPT ![k] = kept]
<1>2. slot[n][k].art = "leer" /\ slot[n] \in [Slot -> Entry] /\ w \in Entry
  BY <1>1 DEF IsFirst, TypeOK
<1>3. kept.art = "eingang" /\ Receipt(w).art = "rueckscheinantwort"
  BY <1>2 DEF Entry, InSlot, Receipt
<1>4. slot' = [slot EXCEPT ![n] = Filed(slot[n], k, w, d)]
  BY <1>1 DEF TypeOK
<1>5. b[k] = kept /\ \A j \in Slot \ {k} : b[j] = slot[n][j]
  BY <1>2
<1>6. \A j \in Slot : \/ OweReceipt(b, w)[j] = b[j]
                      \/ b[j].art = "leer" /\ OweReceipt(b, w)[j] = Receipt(w)
  BY DEF OweReceipt, IsFirst
<1>7. Filed(slot[n], k, w, d) = IF Checked(d, w) THEN OweReceipt(b, w) ELSE slot[n]
  BY DEF Filed
<1> HIDE DEF w, kept, b
<1>8. \A j \in Slot : \/ Filed(slot[n], k, w, d)[j] = slot[n][j]
                      \/ ~Reliable(slot[n][j]) /\ ~Reliable(Filed(slot[n], k, w, d)[j])
  BY <1>2, <1>3, <1>5, <1>6, <1>7 DEF Reliable
<1>9. slot'[n] = Filed(slot[n], k, w, d) /\ \A p \in Node \ {n} : slot'[p] = slot[p]
  BY <1>4 DEF TypeOK
<1> QED
  BY <1>8, <1>9

LEMMA NumberStep == TypeOK /\ NumberInv /\ [Next]_vars => NumberInv'
<1> SUFFICES ASSUME TypeOK, NumberInv, [Next]_vars PROVE NumberInv'
  OBVIOUS
<1>1. ASSUME NEW n \in Node, NEW m \in Letters, Put(n, m) PROVE NumberInv'
  <2>1. PICK i \in Slot : Put(n, m)!4!(i)
    BY <1>1 DEF Put
  <2>2. /\ \A p \in Node, k \in Slot : p # n \/ k # i => slot'[p][k] = slot[p][k]
        /\ slot'[n][i].nr = nextNr[n]
    BY <2>1 DEF TypeOK
  <2>3. /\ nextNr'[n] = nextNr[n] + 1 /\ \A p \in Node \ {n} : nextNr'[p] = nextNr[p]
        /\ \A p \in Node : nextNr[p] \in Nat
    BY <1>1 DEF Put, TypeOK
  <2>4. /\ \A l \in log'[n] : l \in log[n] \/ l.nr = nextNr[n]
        /\ \A p \in Node \ {n} : log'[p] = log[p]
        /\ \A p \in Node : \A l \in log[p] : l.nr \in Nat
    BY <1>1 DEF Put, TypeOK, Letter
  <2>5. \A p \in Node, k \in Slot : slot[p][k].nr \in Nat
    BY DEF TypeOK, Entry
  <2>6. ASSUME NEW p \in Node \ {n}
        PROVE  /\ \A l \in log'[p] : l.nr < nextNr'[p]
               /\ \A k \in Slot : Reliable(slot'[p][k]) => slot'[p][k].nr < nextNr'[p]
               /\ \A k, j \in Slot : /\ Reliable(slot'[p][k]) /\ Reliable(slot'[p][j])
                                     /\ slot'[p][k].nr = slot'[p][j].nr
                                     => k = j
    BY <2>2, <2>3, <2>4 DEF NumberInv
  <2>7. \A l \in log'[n] : l.nr < nextNr'[n]
    BY <2>3, <2>4 DEF NumberInv
  <2>8. \A k \in Slot : Reliable(slot'[n][k]) => slot'[n][k].nr < nextNr'[n]
    BY <2>2, <2>3, <2>5 DEF NumberInv
  <2>9. \A k, j \in Slot : /\ Reliable(slot'[n][k]) /\ Reliable(slot'[n][j])
                           /\ slot'[n][k].nr = slot'[n][j].nr
                           => k = j
    BY <2>2, <2>3, <2>5 DEF NumberInv
  <2> QED
    BY <2>6, <2>7, <2>8, <2>9 DEF NumberInv
<1>2. ASSUME NEW n \in Node, Send(n) PROVE NumberInv'
  <2>1. PICK S \in SUBSET Pending(slot[n]) : Send(n)!2!(S)
    BY <1>2 DEF Send
  <2>2. \A p \in Node, k \in Slot : Reliable(slot'[p][k]) =>
           Reliable(slot[p][k]) /\ slot'[p][k].nr = slot[p][k].nr
    <3>1. ~Reliable(Leer)
      BY DEF Reliable, Leer
    <3>2. \A p \in Node, k \in Slot :
              IF p = n /\ k \in S /\ ~KeepsTrying(slot[n][k])
              THEN slot'[p][k] = Leer
              ELSE /\ Reliable(slot'[p][k]) <=> Reliable(slot[p][k])
                   /\ Reliable(slot[p][k]) => slot'[p][k].nr = slot[p][k].nr
      BY <2>1, SendKeeps
    <3> QED
      BY <3>1, <3>2
  <2> QED
    BY <1>2, <2>2, NumberKept DEF Send
<1>3. ASSUME NEW n \in Node, Receive(n) \/ Lose(n) \/ EndParse(n) \/ EndDispatch(n)
      PROVE  NumberInv'
  <2>1. UNCHANGED <<slot, nextNr, log>>
    BY <1>3 DEF Receive, Lose, EndParse, EndDispatch
  <2> QED
    BY <2>1, NumberKept
<1>4. ASSUME NEW n \in Node, ReadMessage(n) PROVE NumberInv'
  <2>1. UNCHANGED <<nextNr, log>>
    BY <1>4 DEF ReadMessage
  <2> QED
    BY <1>4, <2>1, ReadKeeps, NumberKept
<1>5. ASSUME NEW n \in Node, ReadReceipt(n) \/ Dispatch(n) PROVE NumberInv'
  <2>1. \A p \in Node, j \in Slot : slot'[p][j] = slot[p][j] \/ slot'[p][j] = Leer
    <3>1. CASE ReadReceipt(n)
      BY <3>1 DEF ReadReceipt, TypeOK
    <3>2. CASE Dispatch(n)
      BY <3>2 DEF Dispatch, TypeOK
    <3> QED
      BY <1>5, <3>1, <3>2
  <2>2. UNCHANGED <<nextNr, log>>
    BY <1>5 DEF ReadReceipt, Dispatch
  <2> QED
    BY <2>1, <2>2, NumberKept DEF Reliable, Leer
<1>6. CASE UNCHANGED vars
  BY <1>6, NumberKept DEF vars
<1> QED
  BY <1>1, <1>2, <1>3, <1>4, <1>5, <1>6 DEF Next
-----------------------------------------------------------------------------
Answerable == [n \in Node |-> {nr \in 0..(nextNr[n] - 1) : Waits(n, nr)}]

(* The variables and actions of Link as the buffers see them.              *)
LEMMA LinkVars == L!linkVars = <<nextNr, Answerable, stored, spent>>
BY DEF L!linkVars, Answerable

LEMMA LinkPeer == L!Node = Node /\ \A n : L!Peer(n) = Peer(n)
BY DEF L!Node, Node, L!Peer, Peer

LEMMA LinkNext ==
  ASSUME NEW n \in Node,
         \/ \E reliable \in BOOLEAN :
              /\ nextNr' = [nextNr EXCEPT ![n] = @ + 1]
              /\ Answerable' = [Answerable EXCEPT ![n] =
                   IF reliable THEN @ \cup {nextNr[n]} ELSE @]
              /\ UNCHANGED <<stored, spent>>
         \/ \E nr \in 0..(nextNr[Peer(n)] - 1) :
              /\ nr < nextNr[Peer(n)]
              /\ stored' = [stored EXCEPT ![n] = @ \cup {nr}]
              /\ UNCHANGED <<nextNr, Answerable, spent>>
         \/ \E nr \in Answerable[n] :
              /\ nr \in Answerable[n] \cap stored[Peer(n)]
              /\ Answerable' = [Answerable EXCEPT ![n] = @ \ {nr}]
              /\ UNCHANGED <<nextNr, stored, spent>>
         \/ \E S \in SUBSET Answerable[n] :
              /\ Answerable' = [Answerable EXCEPT ![n] = @ \ S]
              /\ spent' = [spent EXCEPT ![n] = @ \cup S]
              /\ UNCHANGED <<nextNr, stored>>
  PROVE  L!Next
BY LinkPeer DEF L!Next, L!Accept, L!Store, L!Confirm, L!GiveUp, Answerable

(* Nothing changes for those who rely on Link.                             *)
LEMMA Stutters ==
  ASSUME UNCHANGED <<nextNr, stored, spent>>,
         \A n \in Node : \A nr : Waits(n, nr)' <=> Waits(n, nr)
  PROVE  UNCHANGED L!linkVars
<1>1. Answerable' = Answerable
  BY DEF Answerable
<1> QED
  BY <1>1 DEF L!linkVars, Answerable

(* What holds in every state and is needed to map a step.                  *)
BufferInv == TypeOK /\ DeliveryInv /\ GenuineInv /\ NumberInv

LEMMA LinkStep == BufferInv /\ [Next]_vars => [L!Next]_(L!linkVars)
<1> SUFFICES ASSUME BufferInv, [Next]_vars PROVE L!Next \/ UNCHANGED L!linkVars
  OBVIOUS
<1> USE DEF BufferInv
<1>0. /\ nextNr \in [Node -> Nat] /\ stored \in [Node -> SUBSET Nat] /\ spent \in [Node -> SUBSET Nat]
      /\ \A n \in Node, i \in Slot : slot[n][i] \in Entry /\ slot[n][i].nr \in Nat
  BY DEF TypeOK, Entry
<1>1. ASSUME NEW n \in Node, NEW m \in Letters, Put(n, m) PROVE L!Next
  <2>1. PICK i \in Slot : Put(n, m)!4!(i)
    BY <1>1 DEF Put
  <2>2. /\ slot[n][i].art = "leer"
        /\ \A p \in Node, k \in Slot : p # n \/ k # i => slot'[p][k] = slot[p][k]
        /\ slot'[n][i].nr = nextNr[n]
        /\ slot'[n][i].art = IF m.reliable THEN "ausgang_rueckschein" ELSE "ausgang_normal"
    BY <2>1 DEF IsFirst, TypeOK
  <2>3. nextNr' = [nextNr EXCEPT ![n] = @ + 1] /\ UNCHANGED <<stored, spent>> /\ m.reliable \in BOOLEAN
    BY <1>1, DataAssumption DEF Put
  <2>4. \A p \in Node : \A nr :
          Waits(p, nr)' <=> Waits(p, nr) \/ (p = n /\ m.reliable /\ nr = nextNr[n])
    BY <2>2 DEF Waits
  <2>5. \A p \in Node : Answerable'[p] =
          IF p = n /\ m.reliable THEN Answerable[p] \cup {nextNr[n]} ELSE Answerable[p]
    <3> SUFFICES ASSUME NEW p \in Node
                 PROVE  Answerable'[p] = IF p = n /\ m.reliable
                                         THEN Answerable[p] \cup {nextNr[n]} ELSE Answerable[p]
      OBVIOUS
    <3>1. Answerable'[p] = {nr \in 0..(nextNr'[p] - 1) : Waits(p, nr)'}
          /\ Answerable[p] = {nr \in 0..(nextNr[p] - 1) : Waits(p, nr)}
      BY DEF Answerable
    <3>2. \A nr : Waits(p, nr) => nr \in 0..(nextNr[p] - 1)
      BY <1>0 DEF Waits, NumberInv, Reliable
    <3>3. CASE p = n
      <4>1. nextNr'[p] = nextNr[p] + 1 /\ nextNr[p] \in Nat
        BY <1>0, <2>3, <3>3
      <4> QED
        BY <2>4, <3>1, <3>2, <3>3, <4>1
    <3>4. CASE p # n
      BY <1>0, <2>3, <2>4, <3>1, <3>4
    <3> QED
      BY <3>3, <3>4
  <2>6. Answerable' = [Answerable EXCEPT ![n] = IF m.reliable THEN @ \cup {nextNr[n]} ELSE @]
    BY <2>5 DEF Answerable
  <2> QED
    BY <2>3, <2>6, LinkNext
<1>2. ASSUME NEW n \in Node, Send(n) PROVE L!Next
  <2>1. PICK S \in SUBSET Pending(slot[n]) : Send(n)!2!(S)
    BY <1>2 DEF Send
  <2> DEFINE G == {slot[n][k].nr : k \in {j \in S : Reliable(slot[n][j]) /\ ~KeepsTrying(slot[n][j])}}
  <2>2. spent' = [spent EXCEPT ![n] = @ \cup G] /\ UNCHANGED <<nextNr, stored>>
    BY <1>2, <2>1 DEF Send, Reliable
  <2>3. S \subseteq Slot
    BY DEF Pending
  <2>4. G \subseteq Answerable[n]
    BY <1>0, <2>3 DEF Answerable, Waits, NumberInv, Reliable
  <2>5. \A p \in Node, k \in Slot :
              IF p = n /\ k \in S /\ ~KeepsTrying(slot[n][k])
              THEN slot'[p][k] = Leer
              ELSE /\ Reliable(slot'[p][k]) <=> Reliable(slot[p][k])
                   /\ Reliable(slot[p][k]) => slot'[p][k].nr = slot[p][k].nr
    BY <2>1, SendKeeps
  <2>6. ~Reliable(Leer)
    BY DEF Reliable, Leer
  <2>7. \A p \in Node : \A nr : Waits(p, nr) <=> \E k \in Slot : Reliable(slot[p][k]) /\ slot[p][k].nr = nr
    BY DEF Waits, Reliable
  <2>8. \A p \in Node : \A nr : Waits(p, nr)' <=> \E k \in Slot : Reliable(slot'[p][k]) /\ slot'[p][k].nr = nr
    BY DEF Waits, Reliable
  <2>9. \A p \in Node \ {n} : \A nr : Waits(p, nr)' <=> Waits(p, nr)
    BY <2>5, <2>7, <2>8
  <2>10. \A nr : Waits(n, nr)' <=> Waits(n, nr) /\ nr \notin G
    <3> SUFFICES ASSUME NEW nr PROVE Waits(n, nr)' <=> Waits(n, nr) /\ nr \notin G
      OBVIOUS
    <3>1. ASSUME Waits(n, nr)' PROVE Waits(n, nr) /\ nr \notin G
      <4>1. PICK k \in Slot : Reliable(slot'[n][k]) /\ slot'[n][k].nr = nr
        BY <2>8, <3>1
      <4>2. Reliable(slot[n][k]) /\ slot[n][k].nr = nr /\ ~(k \in S /\ ~KeepsTrying(slot[n][k]))
        BY <2>5, <2>6, <4>1
      <4>3. ASSUME nr \in G PROVE FALSE
        <5>1. PICK j \in S : Reliable(slot[n][j]) /\ ~KeepsTrying(slot[n][j]) /\ slot[n][j].nr = nr
          BY <4>3
        <5>2. j = k
          BY <2>3, <4>2, <5>1 DEF NumberInv
        <5> QED
          BY <4>2, <5>1, <5>2
      <4> QED
        BY <2>7, <4>2, <4>3
    <3>2. ASSUME Waits(n, nr), nr \notin G PROVE Waits(n, nr)'
      <4>1. PICK k \in Slot : Reliable(slot[n][k]) /\ slot[n][k].nr = nr
        BY <2>7, <3>2
      <4>2. ~(k \in S /\ ~KeepsTrying(slot[n][k]))
        BY <3>2, <4>1
      <4> QED
        BY <2>5, <2>8, <4>1, <4>2
    <3> QED
      BY <3>1, <3>2
  <2> HIDE DEF G
  <2>11. \A p \in Node : Answerable'[p] = IF p = n THEN Answerable[n] \ G ELSE Answerable[p]
    BY <2>2, <2>9, <2>10 DEF Answerable
  <2>12. Answerable' = [Answerable EXCEPT ![n] = @ \ G]
    BY <2>11 DEF Answerable
  <2> QED
    BY <2>2, <2>4, <2>12, LinkNext
<1>3. ASSUME NEW n \in Node, Receive(n) \/ Lose(n) \/ EndParse(n) \/ EndDispatch(n)
      PROVE  UNCHANGED L!linkVars
  <2>1. UNCHANGED <<slot, nextNr, stored, spent>>
    BY <1>3 DEF Receive, Lose, EndParse, EndDispatch
  <2> QED
    BY <2>1, Stutters DEF Waits
<1>4. ASSUME NEW n \in Node, ReadMessage(n) PROVE L!Next \/ UNCHANGED L!linkVars
  <2>1. PICK i \in Slot, k \in Slot, d \in Data : ReadMessage(n)!1!(i, k, d)
    BY <1>4 DEF ReadMessage
  <2> DEFINE w == rx[n].msgs[i]
  <2>2. \A p \in Node : \A nr : Waits(p, nr)' <=> Waits(p, nr)
    BY <1>4, ReadKeeps DEF Waits, Reliable
  <2>3. UNCHANGED <<nextNr, spent>>
    BY <1>4 DEF ReadMessage
  <2>4. Answerable' = Answerable
    BY <2>2, <2>3 DEF Answerable
  <2>5. stored' = [stored EXCEPT ![n] = IF Checked(d, w) THEN @ \cup {w.nr} ELSE @]
    BY <2>1
  <2>6. CASE Checked(d, w)
    <3>1. PICK m \in log[Peer(n)] : Same(m, w)
      <4>1. AllAuthored(log[Peer(n)], rx[n].msgs)
        BY PeerPeer DEF GenuineInv
      <4> QED
        BY <2>1, <4>1 DEF AllAuthored, Authored
    <3>2. w.nr < nextNr[Peer(n)] /\ w.nr \in Nat
      BY <3>1, PeerPeer DEF NumberInv, Same, TypeOK, Entry
    <3>3. w.nr \in 0..(nextNr[Peer(n)] - 1)
      BY <1>0, <3>2, PeerPeer
    <3>4. stored' = [stored EXCEPT ![n] = @ \cup {w.nr}]
      BY <2>5, <2>6
    <3> QED
      BY <2>3, <2>4, <3>2, <3>3, <3>4, LinkNext
  <2>7. CASE ~Checked(d, w)
    <3>1. UNCHANGED stored
      BY <1>0, <2>5, <2>7
    <3> QED
      BY <2>2, <2>3, <3>1, Stutters
  <2> QED
    BY <2>6, <2>7
<1>5. ASSUME NEW n \in Node, ReadReceipt(n) PROVE L!Next \/ UNCHANGED L!linkVars
  <2>1. PICK i \in Slot : ReadReceipt(n)!1!(i)
    BY <1>5 DEF ReadReceipt
  <2> DEFINE w == rx[n].msgs[i]
  <2>2. UNCHANGED <<nextNr, stored, spent>>
    BY <1>5 DEF ReadReceipt
  <2>3. w.nr \in stored[Peer(n)]
    BY <2>1, PeerPeer DEF DeliveryInv, ReceiptsAreTrue
  <2>4. \A p \in Node, k \in Slot :
          slot'[p][k] = IF p = n /\ Answered(slot[n][k], w) THEN Leer ELSE slot[p][k]
    BY <2>1 DEF TypeOK
  <2>5. ~Reliable(Leer) /\ \A e : Answered(e, w) => Reliable(e) /\ e.nr = w.nr
    BY DEF Reliable, Leer, Answered
  <2>6. \A p \in Node : \A nr : Waits(p, nr) <=> \E k \in Slot : Reliable(slot[p][k]) /\ slot[p][k].nr = nr
    BY DEF Waits, Reliable
  <2>7. \A p \in Node : \A nr : Waits(p, nr)' <=> \E k \in Slot : Reliable(slot'[p][k]) /\ slot'[p][k].nr = nr
    BY DEF Waits, Reliable
  <2> HIDE DEF w
  <2>8. CASE \E k \in Slot : Answered(slot[n][k], w)
    <3>1. PICK k \in Slot : Answered(slot[n][k], w)
      BY <2>8
    <3>2. Reliable(slot[n][k]) /\ slot[n][k].nr = w.nr
      BY <2>5, <3>1
    <3>3. \A j \in Slot : Reliable(slot[n][j]) /\ slot[n][j].nr = w.nr => j = k
      BY <3>2 DEF NumberInv
    <3>4. \A p \in Node \ {n} : \A nr : Waits(p, nr)' <=> Waits(p, nr)
      BY <2>4, <2>6, <2>7
    <3>5. \A nr : Waits(n, nr)' <=> Waits(n, nr) /\ nr # w.nr
      BY <2>4, <2>5, <2>6, <2>7, <3>1, <3>3
    <3>6. \A p \in Node : Answerable'[p] = IF p = n THEN Answerable[n] \ {w.nr} ELSE Answerable[p]
      BY <2>2, <3>4, <3>5 DEF Answerable
    <3>7. Answerable' = [Answerable EXCEPT ![n] = @ \ {w.nr}]
      BY <3>6 DEF Answerable
    <3>8. w.nr \in Answerable[n]
      BY <1>0, <2>6, <3>2 DEF Answerable, NumberInv
    <3> QED
      BY <2>2, <2>3, <3>7, <3>8, LinkNext
  <2>9. CASE \A k \in Slot : ~Answered(slot[n][k], w)
    <3>1. \A p \in Node, k \in Slot : slot'[p][k] = slot[p][k]
      BY <2>4, <2>9
    <3> QED
      BY <2>2, <2>6, <2>7, <3>1, Stutters
  <2> QED
    BY <2>8, <2>9
<1>6. ASSUME NEW n \in Node, Dispatch(n) PROVE UNCHANGED L!linkVars
  <2>1. PICK i \in Slot : Dispatch(n)!2!(i)
    BY <1>6 DEF Dispatch
  <2>2. \A p \in Node, j \in Slot :
           \/ slot'[p][j] = slot[p][j]
           \/ slot[p][j].art = "eingang" /\ slot'[p][j] = Leer
    BY <2>1 DEF IsFirst, TypeOK
  <2>3. \A p \in Node : \A nr : Waits(p, nr)' <=> Waits(p, nr)
    BY <2>2 DEF Waits, Leer
  <2>4. UNCHANGED <<nextNr, stored, spent>>
    BY <1>6 DEF Dispatch
  <2> QED
    BY <2>3, <2>4, Stutters
<1>7. CASE UNCHANGED vars
  BY <1>7, Stutters DEF vars, Waits
<1> QED
  BY <1>1, <1>2, <1>3, <1>4, <1>5, <1>6, <1>7 DEF Next

(* The buffers implement Link: over any network an end answers for every   *)
(* message with a receipt until the other end has stored it or its tries   *)
(* are used up, and nothing is stored that was not accepted.               *)
THEOREM Implements == Spec => KeepsThePromise
<1>1. Init => L!Init
  <2> SUFFICES ASSUME Init PROVE L!Init
    OBVIOUS
  <2>1. \A n \in Node : \A nr : ~Waits(n, nr)
    BY DEF Init, Waits, AllLeer, Leer
  <2>2. [n \in Node |-> {nr \in 0..(nextNr[n] - 1) : Waits(n, nr)}] = [n \in Node |-> {}]
    BY <2>1
  <2> QED
    BY <2>2, LinkPeer DEF Init, L!Init
<1>2. Init => NumberInv
  BY DEF Init, NumberInv, Reliable, AllLeer, Leer
<1>3. Init => GenuineInv
  BY GenuineInit
<1>4. Spec => []TypeOK /\ []DeliveryInv
  BY TypeCorrect, Delivery, PTL DEF DeliveryInv
<1>5. Spec => []GenuineInv
  BY <1>3, GenuineStep, TypeCorrect, PTL DEF Spec
<1>6. Spec => []NumberInv
  BY <1>2, NumberStep, TypeCorrect, PTL DEF Spec
<1>7. Spec => []BufferInv
  BY <1>4, <1>5, <1>6, PTL DEF BufferInv
<1> QED
  BY <1>1, <1>7, LinkStep, PTL DEF Spec, KeepsThePromise, L!Spec
-----------------------------------------------------------------------------
(* The bytes of some entries, counted one after the other.                 *)
Total(b, T) == MapThenSumSet(LAMBDA j : Bytes(b[j]), T)
Taken(T) == CHOOSE x \in T : TRUE
Counted(b, F, T) == IF T = {} THEN 0 ELSE Bytes(b[Taken(T)]) + F[T \ {Taken(T)}]
Counts(b, F) == \A T \in SUBSET Slot : F[T] = Counted(b, F, T)

(* An entry has a number of bytes.                                         *)
LEMMA BytesType == \A e \in Entry : Bytes(e) \in Nat
BY BoundAssumption DEF Entry, Bytes

(* Slots are finitely many.                                                *)
LEMMA FiniteSlots ==
  \A T \in SUBSET Slot : /\ IsFiniteSet(T) /\ Cardinality(T) \in Nat
                         /\ Cardinality(T) <= Slots
<1>1. IsFiniteSet(Slot) /\ Cardinality(Slot) = Slots
  BY FS_Interval, BoundAssumption DEF Slot
<1> QED
  BY <1>1, FS_Subset, FS_CardinalityType

(* What is left when a slot is taken out of some.                          *)
LEMMA OneTaken ==
  ASSUME NEW T \in SUBSET Slot, NEW x \in T
  PROVE  /\ Taken(T) \in T
         /\ T \ {x} \in SUBSET Slot /\ Cardinality(T \ {x}) = Cardinality(T) - 1
<1>1. IsFiniteSet(T)
  BY FiniteSlots
<1> QED
  BY <1>1, FS_RemoveElement DEF Taken

(* There is a function that counts them, by induction over how many slots  *)
(* there are.                                                              *)
LEMMA CountExists ==
  ASSUME NEW b \in [Slot -> Entry]
  PROVE  \E F \in [SUBSET Slot -> Nat] : Counts(b, F)
<1> DEFINE Upto(F, n) == \A T \in SUBSET Slot : Cardinality(T) <= n => F[T] = Counted(b, F, T)
           P == {n \in Nat : \E F \in [SUBSET Slot -> Nat] : Upto(F, n)}
<1>1. 0 \in P
  <2> DEFINE F == [T \in SUBSET Slot |-> 0]
  <2>1. ASSUME NEW T \in SUBSET Slot, Cardinality(T) <= 0 PROVE F[T] = Counted(b, F, T)
    <3>1. T = {}
      BY <2>1, FiniteSlots, FS_EmptySet
    <3> QED
      BY <3>1 DEF Counted
  <2>2. F \in [SUBSET Slot -> Nat]
    OBVIOUS
  <2> QED
    BY <2>1, <2>2
<1>2. ASSUME NEW n \in Nat, n \in P PROVE n + 1 \in P
  <2>1. PICK F \in [SUBSET Slot -> Nat] : Upto(F, n)
    BY <1>2
  <2> DEFINE G == [T \in SUBSET Slot |-> Counted(b, F, T)]
  <2>2. ASSUME NEW T \in SUBSET Slot PROVE Counted(b, F, T) \in Nat
    <3>1. CASE T = {}
      BY <3>1 DEF Counted
    <3>2. CASE T # {}
      <4>1. Taken(T) \in T /\ T \ {Taken(T)} \in SUBSET Slot
        BY <3>2, OneTaken
      <4>2. Bytes(b[Taken(T)]) \in Nat
        BY <4>1, BytesType
      <4>3. F[T \ {Taken(T)}] \in Nat
        BY <4>1
      <4> QED
        BY <3>2, <4>2, <4>3 DEF Counted
    <3> QED
      BY <3>1, <3>2
  <2>3. G \in [SUBSET Slot -> Nat]
    BY <2>2
  <2>4. ASSUME NEW T \in SUBSET Slot, Cardinality(T) <= n + 1 PROVE G[T] = Counted(b, G, T)
    <3>1. CASE T = {}
      BY <3>1 DEF Counted
    <3>2. CASE T # {}
      <4>1. /\ Taken(T) \in T /\ T \ {Taken(T)} \in SUBSET Slot
            /\ Cardinality(T \ {Taken(T)}) = Cardinality(T) - 1
            /\ Cardinality(T) \in Nat
        BY <3>2, OneTaken, FiniteSlots
      <4>2. Cardinality(T \ {Taken(T)}) <= n
        BY <2>4, <4>1
      <4>3. G[T \ {Taken(T)}] = F[T \ {Taken(T)}]
        BY <2>1, <4>1, <4>2
      <4> QED
        BY <3>2, <4>1, <4>3 DEF Counted
    <3> QED
      BY <3>1, <3>2
  <2> HIDE DEF G
  <2> QED
    BY <2>3, <2>4
<1> HIDE DEF P
<1>3. Slots \in P
  BY <1>1, <1>2, Induction, BoundAssumption
<1>4. PICK F \in [SUBSET Slot -> Nat] : Upto(F, Slots)
  BY <1>3 DEF P
<1> QED
  BY <1>4, FiniteSlots DEF Counts

(* The fold of the community modules counts the same.                      *)
LEMMA TotalIsCount ==
  ASSUME NEW b, NEW F, Counts(b, F), NEW T \in SUBSET Slot
  PROVE  Total(b, T) = F[T]
<1> DEFINE step(f) == [s \in SUBSET T |-> Counted(b, f, s)]
           iter == CHOOSE f : f = step(f)
<1>1. Total(b, T) = iter[T]
  BY DEF Total, MapThenSumSet, MapThenFoldSet, Counted, Taken
<1>2. iter = step(iter)
  <2> DEFINE G == [s \in SUBSET T |-> F[s]]
  <2>1. ASSUME NEW s \in SUBSET T PROVE G[s] = Counted(b, G, s)
    <3>1. s \ {Taken(s)} \in SUBSET T /\ s \in SUBSET Slot
      OBVIOUS
    <3> QED
      BY <3>1 DEF Counted, Counts
  <2>2. G = step(G)
    BY <2>1
  <2> HIDE DEF step
  <2> QED
    BY <2>2
<1> HIDE DEF iter
<1> DEFINE P == {n \in Nat : \A s \in SUBSET T : Cardinality(s) <= n => iter[s] = F[s]}
<1>3. 0 \in P
  <2> SUFFICES ASSUME NEW s \in SUBSET T, Cardinality(s) <= 0 PROVE iter[s] = F[s]
    OBVIOUS
  <2>1. s = {} /\ s \in SUBSET Slot
    BY FiniteSlots, FS_EmptySet
  <2> QED
    BY <1>2, <2>1 DEF Counted, Counts
<1>4. ASSUME NEW n \in Nat, n \in P PROVE n + 1 \in P
  <2> SUFFICES ASSUME NEW s \in SUBSET T, Cardinality(s) <= n + 1 PROVE iter[s] = F[s]
    OBVIOUS
  <2>1. s \in SUBSET Slot /\ iter[s] = Counted(b, iter, s) /\ F[s] = Counted(b, F, s)
    BY <1>2 DEF Counts
  <2>2. CASE s = {}
    BY <2>1, <2>2 DEF Counted
  <2>3. CASE s # {}
    <3>1. /\ Taken(s) \in s /\ s \ {Taken(s)} \in SUBSET T
          /\ Cardinality(s \ {Taken(s)}) = Cardinality(s) - 1 /\ Cardinality(s) \in Nat
      BY <2>1, <2>3, OneTaken, FiniteSlots
    <3>2. iter[s \ {Taken(s)}] = F[s \ {Taken(s)}]
      BY <1>4, <3>1
    <3> QED
      BY <2>1, <2>3, <3>2 DEF Counted
  <2> QED
    BY <2>2, <2>3
<1> HIDE DEF P
<1>5. Slots \in P
  BY <1>3, <1>4, Induction, BoundAssumption
<1> QED
  BY <1>1, <1>5, FiniteSlots DEF P

(* It does not matter which entry is counted first.                        *)
LEMMA AnyFirst ==
  ASSUME NEW b \in [Slot -> Entry], NEW F \in [SUBSET Slot -> Nat], Counts(b, F)
  PROVE  \A T \in SUBSET Slot : \A y \in T : F[T] = Bytes(b[y]) + F[T \ {y}]
<1> DEFINE P == {n \in Nat : \A T \in SUBSET Slot : \A y \in T :
                   Cardinality(T) <= n => F[T] = Bytes(b[y]) + F[T \ {y}]}
<1>1. 0 \in P
  <2>1. ASSUME NEW T \in SUBSET Slot, NEW y \in T PROVE ~ (Cardinality(T) <= 0)
    BY <2>1, FiniteSlots, FS_EmptySet
  <2> QED
    BY <2>1
<1>2. ASSUME NEW n \in Nat, n \in P PROVE n + 1 \in P
  <2> SUFFICES ASSUME NEW T \in SUBSET Slot, NEW y \in T, Cardinality(T) <= n + 1
               PROVE  F[T] = Bytes(b[y]) + F[T \ {y}]
    OBVIOUS
  <2> DEFINE x == Taken(T)
  <2>1. x \in T /\ F[T] = Bytes(b[x]) + F[T \ {x}]
    BY OneTaken DEF Counts, Counted
  <2> HIDE DEF x
  <2>2. CASE y = x
    BY <2>1, <2>2
  <2>3. CASE y # x
    <3> DEFINE R == (T \ {x}) \ {y}
    <3>1. /\ T \ {x} \in SUBSET Slot /\ T \ {y} \in SUBSET Slot /\ R \in SUBSET Slot
          /\ y \in T \ {x} /\ x \in T \ {y} /\ R = (T \ {y}) \ {x}
      BY <2>1, <2>3
    <3>2. Cardinality(T \ {x}) <= n /\ Cardinality(T \ {y}) <= n
      BY <2>1, OneTaken, FiniteSlots
    <3>3. F[T \ {x}] = Bytes(b[y]) + F[R] /\ F[T \ {y}] = Bytes(b[x]) + F[R]
      BY <1>2, <3>1, <3>2
    <3>4. Bytes(b[x]) \in Nat /\ Bytes(b[y]) \in Nat /\ F[R] \in Nat
      BY <2>1, <3>1, BytesType
    <3> QED
      BY <2>1, <3>3, <3>4
  <2> QED
    BY <2>2, <2>3
<1> HIDE DEF P
<1>3. Slots \in P
  BY <1>1, <1>2, Induction, BoundAssumption
<1> QED
  BY <1>3, FiniteSlots DEF P

(* More entries are not shorter.                                           *)
LEMMA TotalMonotone ==
  ASSUME NEW b \in [Slot -> Entry], NEW T \in SUBSET Slot, NEW S \in SUBSET T
  PROVE  Total(b, S) \in Nat /\ Total(b, T) \in Nat /\ Total(b, S) <= Total(b, T)
<1>1. PICK F \in [SUBSET Slot -> Nat] : Counts(b, F)
  BY CountExists
<1>2. /\ Total(b, S) = F[S] /\ Total(b, T) = F[T]
      /\ F[S] \in Nat /\ F[T] \in Nat
  BY <1>1, TotalIsCount
<1> DEFINE P == {n \in Nat : \A U \in SUBSET Slot :
                   Cardinality(U) <= n /\ S \subseteq U => F[S] <= F[U]}
<1>3. 0 \in P
  <2> SUFFICES ASSUME NEW U \in SUBSET Slot, Cardinality(U) <= 0, S \subseteq U PROVE F[S] <= F[U]
    OBVIOUS
  <2>1. U = {}
    BY FiniteSlots, FS_EmptySet
  <2>2. S = U
    BY <2>1
  <2> QED
    BY <1>2, <2>2
<1>4. ASSUME NEW n \in Nat, n \in P PROVE n + 1 \in P
  <2> SUFFICES ASSUME NEW U \in SUBSET Slot, Cardinality(U) <= n + 1, S \subseteq U
               PROVE  F[S] <= F[U]
    OBVIOUS
  <2>1. CASE S = U
    BY <1>2, <2>1
  <2>2. CASE S # U
    <3>1. PICK y \in U : y \notin S
      BY <2>2
    <3>2. /\ U \ {y} \in SUBSET Slot /\ S \subseteq U \ {y}
          /\ Cardinality(U \ {y}) <= n
      BY <3>1, OneTaken, FiniteSlots
    <3>3. F[S] <= F[U \ {y}]
      BY <1>4, <3>2
    <3>4. F[U] = Bytes(b[y]) + F[U \ {y}]
      <4>1. \A T1 \in SUBSET Slot : \A z \in T1 : F[T1] = Bytes(b[z]) + F[T1 \ {z}]
        BY <1>1, AnyFirst
      <4> QED
        BY <4>1
    <3>5. Bytes(b[y]) \in Nat /\ F[U \ {y}] \in Nat
      BY <3>2, BytesType
    <3> QED
      BY <1>2, <3>3, <3>4, <3>5
  <2> QED
    BY <2>1, <2>2
<1> HIDE DEF P
<1>5. Slots \in P
  BY <1>3, <1>4, Induction, BoundAssumption
<1> QED
  BY <1>2, <1>5, FiniteSlots DEF P
-----------------------------------------------------------------------------
(* What changes in the slots when a datagram is sent are the entries that  *)
(* went into it.                                                           *)
LEMMA SentChanged ==
  ASSUME TypeOK, NEW n \in Node, Send(n)
  PROVE  LET sent == {j \in Pending(slot[n]) : slot'[n][j] # slot[n][j]}
         IN  Packed(n, sent)
<1> DEFINE b == slot[n]
           sent == {j \in Pending(b) : slot'[n][j] # b[j]}
<1>1. PICK S \in SUBSET Pending(b) :
        /\ Packed(n, S)
        /\ slot' = [slot EXCEPT ![n] = [i \in Slot |-> IF i \in S THEN Kept(b[i]) ELSE b[i]]]
  BY DEF Send
<1>2. b \in [Slot -> Entry] /\ Pending(b) \subseteq Slot
  BY DEF TypeOK, Pending
<1>3. \A i \in Slot : slot'[n][i] = IF i \in S THEN Kept(b[i]) ELSE b[i]
  BY <1>1, <1>2 DEF TypeOK
<1>4. ASSUME NEW i \in S PROVE Kept(b[i]) # b[i]
  <2>1. b[i] \in Entry /\ b[i].art # "leer" /\ b[i].tries \in Nat
    BY <1>2 DEF Pending, Outgoing, Entry
  <2>2. CASE KeepsTrying(b[i])
    <3>1. Kept(b[i]).tries = b[i].tries - 1
      BY <2>1, <2>2 DEF Kept, Entry
    <3> QED
      BY <2>1, <3>1
  <2>3. CASE ~KeepsTrying(b[i])
    BY <2>1, <2>3 DEF Kept, Leer
  <2> QED
    BY <2>2, <2>3
<1>5. sent = S
  BY <1>2, <1>3, <1>4
<1> QED
  BY <1>1, <1>5

(* What has been used before an entry is part of all that is used, and of  *)
(* what has been used before a later one.                                  *)
LEMMA UsedGrows ==
  ASSUME TypeOK, NEW n \in Node, NEW S \in SUBSET Pending(slot[n]), NEW i \in Pending(slot[n])
  PROVE  /\ UsedBefore(n, S, i) \in Nat /\ Bytes(slot[n][i]) \in Nat
         /\ UsedBefore(n, S, i) <= IntroBytes(n) + Total(slot[n], S)
         /\ IntroBytes(n) + Total(slot[n], S) \in Nat
         /\ \A j \in Pending(slot[n]) : Before(slot[n], i, j) =>
              UsedBefore(n, S, i) <= UsedBefore(n, S, j)
<1> DEFINE b == slot[n]
           before(k) == {j \in S : Before(b, j, k)}
<1>1. b \in [Slot -> Entry] /\ Pending(b) \subseteq Slot /\ S \subseteq Slot
  BY DEF TypeOK, Pending
<1>2. IntroBytes(n) \in Nat
  BY BoundAssumption DEF IntroBytes
<1>3. \A k : UsedBefore(n, S, k) = IntroBytes(n) + Total(b, before(k))
  BY DEF UsedBefore, Total
<1>4. \A k : before(k) \in SUBSET S
  OBVIOUS
<1>5. Total(b, S) \in Nat /\ \A k : Total(b, before(k)) \in Nat /\ Total(b, before(k)) <= Total(b, S)
  BY <1>1, <1>4, TotalMonotone
<1>6. ASSUME NEW j \in Pending(b), Before(b, i, j) PROVE Total(b, before(i)) <= Total(b, before(j))
  <2>1. before(i) \in SUBSET before(j)
    <3>1. \A k \in Slot : k \in Nat /\ b[k].prio \in Nat
      <4> SUFFICES ASSUME NEW k \in Slot PROVE k \in Nat /\ b[k].prio \in Nat
        OBVIOUS
      <4>1. b[k] \in Entry
        BY <1>1
      <4> QED
        BY <4>1, BoundAssumption DEF Slot, Entry, Prio
    <3>2. i \in Slot /\ j \in Slot
      BY <1>1
    <3>3. \A k \in Slot : Before(b, k, i) => Before(b, k, j)
      BY <1>6, <3>1, <3>2 DEF Before
    <3> QED
      BY <1>1, <3>3
  <2>2. before(j) \in SUBSET Slot
    BY <1>1
  <2> QED
    BY <1>1, <2>1, <2>2, TotalMonotone
<1>7. Bytes(b[i]) \in Nat
  BY <1>1, BytesType
<1> HIDE DEF before, b
<1>8. /\ UsedBefore(n, S, i) \in Nat /\ Bytes(b[i]) \in Nat
      /\ UsedBefore(n, S, i) <= IntroBytes(n) + Total(b, S)
      /\ IntroBytes(n) + Total(b, S) \in Nat
  BY <1>2, <1>3, <1>5, <1>7
<1>9. \A j \in Pending(b) : Before(b, i, j) => UsedBefore(n, S, i) <= UsedBefore(n, S, j)
  BY <1>2, <1>3, <1>5, <1>6
<1> QED
  BY <1>8, <1>9 DEF b

(* A datagram of get_send_buffer leaves nothing behind that it has room    *)
(* for: what has been used before an entry left behind is part of all that *)
(* is used.                                                                *)
THEOREM DatagramsAreFull == Spec => DatagramIsFull
<1>1. TypeOK => \A n \in Node, i \in Slot :
        i \in Pending(slot[n]) /\ slot'[n][i] = slot[n][i] /\ Send(n) =>
          LET sent == {j \in Pending(slot[n]) : slot'[n][j] # slot[n][j]}
          IN  IntroBytes(n) + MapThenSumSet(LAMBDA j : Bytes(slot[n][j]), sent)
                + Bytes(slot[n][i]) >= MaxSize
  <2> SUFFICES ASSUME TypeOK, NEW n \in Node, NEW i \in Slot, i \in Pending(slot[n]),
                      slot'[n][i] = slot[n][i], Send(n)
               PROVE  LET sent == {j \in Pending(slot[n]) : slot'[n][j] # slot[n][j]}
                      IN  IntroBytes(n) + Total(slot[n], sent) + Bytes(slot[n][i]) >= MaxSize
    BY DEF Total
  <2> DEFINE sent == {j \in Pending(slot[n]) : slot'[n][j] # slot[n][j]}
  <2>1. Packed(n, sent) /\ i \notin sent /\ sent \in SUBSET Pending(slot[n])
    BY SentChanged
  <2> HIDE DEF sent
  <2>2. ~ (UsedBefore(n, sent, i) + Bytes(slot[n][i]) < MaxSize)
    BY <2>1 DEF Packed
  <2>3. /\ UsedBefore(n, sent, i) \in Nat /\ Bytes(slot[n][i]) \in Nat
        /\ UsedBefore(n, sent, i) <= IntroBytes(n) + Total(slot[n], sent)
        /\ IntroBytes(n) + Total(slot[n], sent) \in Nat
    BY <2>1, UsedGrows
  <2>4. IntroBytes(n) + Total(slot[n], sent) + Bytes(slot[n][i]) >= MaxSize
    BY <2>2, <2>3, BoundAssumption
  <2> QED
    BY <2>4 DEF sent
<1> QED
  BY <1>1, TypeCorrect, PTL DEF DatagramIsFull

(* get_send_buffer passes an entry over for a less important one only if   *)
(* that one is shorter.                                                    *)
THEOREM PrioritiesHold == Spec => NoPriorityInversion
<1>1. TypeOK => \A n \in Node, i, j \in Slot :
        LET b == slot[n] IN
        /\ {i, j} \subseteq Pending(b) /\ b[i].prio < b[j].prio
        /\ slot'[n][i] = b[i] /\ slot'[n][j] # b[j]
        /\ Send(n)
        => Bytes(b[j]) < Bytes(b[i])
  <2> SUFFICES ASSUME TypeOK, NEW n \in Node, NEW i \in Pending(slot[n]), NEW j \in Pending(slot[n]),
                      slot[n][i].prio < slot[n][j].prio,
                      slot'[n][i] = slot[n][i], slot'[n][j] # slot[n][j], Send(n)
               PROVE  Bytes(slot[n][j]) < Bytes(slot[n][i])
    OBVIOUS
  <2> DEFINE sent == {k \in Pending(slot[n]) : slot'[n][k] # slot[n][k]}
  <2>1. Packed(n, sent) /\ i \notin sent /\ j \in sent /\ sent \in SUBSET Pending(slot[n])
    BY SentChanged
  <2> HIDE DEF sent
  <2>2. /\ ~ (UsedBefore(n, sent, i) + Bytes(slot[n][i]) < MaxSize)
        /\ UsedBefore(n, sent, j) + Bytes(slot[n][j]) < MaxSize
    BY <2>1 DEF Packed
  <2>3. Before(slot[n], i, j)
    BY DEF Before
  <2>4. /\ UsedBefore(n, sent, i) \in Nat /\ Bytes(slot[n][i]) \in Nat
        /\ UsedBefore(n, sent, j) \in Nat /\ Bytes(slot[n][j]) \in Nat
        /\ UsedBefore(n, sent, i) <= UsedBefore(n, sent, j)
    BY <2>1, <2>3, UsedGrows
  <2> QED
    BY <2>2, <2>4, BoundAssumption
<1> QED
  BY <1>1, TypeCorrect, PTL DEF NoPriorityInversion
=============================================================================
