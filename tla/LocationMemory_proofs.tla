------------------------ MODULE LocationMemory_proofs ------------------------
(***************************************************************************)
(* Proofs about the memory of locations, for any size of its rings and any *)
(* number of times that are asked about, as long as the rings hold them.   *)
(***************************************************************************)
EXTENDS LocationMemory, FiniteSetTheorems, TLAPS

Entries(V) == [cycle : Nat, time : Nat, value : V]
PureValues == [of : Nat]
Starts == [time : Nat, of : Nat]
BothValues == [robot : Nat, ball : Nat, obstacles : Nat,
               startRobot : Starts, startBall : Starts, seen : Nat]
Memory == [robot : Seq(Entries(PureValues)), ball : Seq(Entries(PureValues)),
           both : Seq(Entries(BothValues)), obstacles : [cycle : Nat, value : PureValues]]

(* The answers of this cycle come first in a ring, and each is for a time  *)
(* of its own, out of T.                                                   *)
Current(r) == {i \in DOMAIN r : r[i].cycle = cycle}
Ring(r, T) ==
  /\ Len(r) <= Num
  /\ \A i \in DOMAIN r : r[i].cycle <= cycle
  /\ \A i \in Current(r) : r[i].time \in T
  /\ \A i \in Current(r) : \A j \in 1..i : j \in Current(r)
  /\ \A i, j \in Current(r) : r[i].time = r[j].time => i = j

(* What is current in r is still in s.                                     *)
Kept(r, s) == \A i \in Current(r) : \E j \in Current(s) : s[j] = r[i]

(* What is current in s is so in r, or is the answer v for t.              *)
Adds(r, s, v, t) ==
  \A j \in Current(s) : \/ \E i \in Current(r) : s[j] = r[i]
                       \/ s[j] = [cycle |-> cycle, time |-> t, value |-> v]

(* A set of times for which the rings have room.                           *)
Fits(T) == IsFiniteSet(T) /\ Cardinality(T) <= Num

LEMMA PutShape ==
  ASSUME NEW V, NEW r \in Seq(Entries(V)), Len(r) <= Num, NEW v \in V, NEW t \in Nat, cycle \in Nat
  PROVE  LET s == Put(r, v, t)
         IN  /\ s \in Seq(Entries(V))
             /\ Len(s) = IF Len(r) < Num THEN Len(r) + 1 ELSE Num
             /\ s[1] = [cycle |-> cycle, time |-> t, value |-> v]
             /\ \A i \in 1 .. Len(s) - 1 : i \in DOMAIN r /\ s[i + 1] = r[i]
             /\ \A i \in DOMAIN r : i < Num => i + 1 \in DOMAIN s
<1> DEFINE e == [cycle |-> cycle, time |-> t, value |-> v]
           q == <<e>> \o r
           k == IF Len(r) < Num THEN Len(r) + 1 ELSE Num
           s == SubSeq(q, 1, k)
<1>1. e \in Entries(V)
  BY DEF Entries
<1> HIDE DEF e
<1>2. Len(r) \in Nat /\ DOMAIN r = 1 .. Len(r) /\ Num \in Nat \ {0, 1}
  BY MemoryAssumption
<1>3. /\ q \in Seq(Entries(V)) /\ Len(q) = Len(r) + 1 /\ q[1] = e
      /\ \A i \in DOMAIN r : q[i + 1] = r[i]
  BY <1>1, <1>2
<1> HIDE DEF q
<1>4. k \in 1 .. Len(q) /\ k <= Len(r) + 1
  BY <1>2, <1>3
<1>5. s \in Seq(Entries(V)) /\ Len(s) = k /\ \A i \in 1..k : s[i] = q[i]
  BY <1>3, <1>4
<1>6. s[1] = e
  BY <1>3, <1>4, <1>5
<1>7. \A i \in 1 .. k - 1 : i \in DOMAIN r /\ s[i + 1] = r[i]
  BY <1>2, <1>3, <1>4, <1>5
<1>8. \A i \in DOMAIN r : i < Num => i + 1 \in DOMAIN s
  BY <1>2, <1>5
<1>9. Put(r, v, t) = s
  BY DEF Put, s, q, e, k
<1> QED
  BY <1>5, <1>6, <1>7, <1>8, <1>9 DEF e

(* The answer for a time is the only one.                                  *)
LEMMA AtFound ==
  ASSUME NEW V, NEW r \in Seq(Entries(V)), NEW T, Ring(r, T), NEW t, NEW i \in Found(r, t)
  PROVE  /\ i \in Current(r) /\ r[i].time = t
         /\ (CHOOSE n \in Found(r, t) : \A j \in Found(r, t) : n <= j) = i
         /\ At(r, t) = r[i]
<1>1. i \in Current(r) /\ r[i].time = t /\ i \in Int
  BY DEF Found, Current
<1>2. \A j \in Found(r, t) : j = i
  BY <1>1 DEF Found, Current, Ring
<1>3. \A j \in Found(r, t) : i <= j
  BY <1>1, <1>2
<1>4. (CHOOSE n \in Found(r, t) : \A j \in Found(r, t) : n <= j) = i
  BY <1>2, <1>3
<1> QED
  BY <1>1, <1>4 DEF At

(* An answer that was not there comes first.                               *)
LEMMA PutRing ==
  ASSUME NEW V, NEW r \in Seq(Entries(V)), NEW T, Ring(r, T),
         NEW v \in V, NEW t \in Nat, t \in T, Found(r, t) = {}, cycle \in Nat
  PROVE  LET s == Put(r, v, t)
         IN  s \in Seq(Entries(V)) /\ Ring(s, T) /\ 1 \in Found(s, t) /\ Adds(r, s, v, t)
<1> DEFINE s == Put(r, v, t)
<1>1. /\ s \in Seq(Entries(V))
      /\ Len(s) = IF Len(r) < Num THEN Len(r) + 1 ELSE Num
      /\ s[1] = [cycle |-> cycle, time |-> t, value |-> v]
      /\ \A i \in 1 .. Len(s) - 1 : i \in DOMAIN r /\ s[i + 1] = r[i]
  BY PutShape DEF Ring
<1> HIDE DEF s
<1>2. Len(r) \in Nat /\ DOMAIN r = 1 .. Len(r) /\ Num \in Nat \ {0, 1} /\ Len(r) <= Num
  BY MemoryAssumption DEF Ring
<1>3. Len(s) \in Nat \ {0} /\ Len(s) <= Num /\ DOMAIN s = 1 .. Len(s)
  BY <1>1, <1>2
<1>4. 1 \in Current(s) /\ 1 \in Found(s, t) /\ s[1].time = t /\ s[1].value = v
  BY <1>1, <1>3 DEF Found, Current
<1>5. ASSUME NEW i \in DOMAIN s, i # 1
      PROVE  i - 1 \in DOMAIN r /\ s[i] = r[i - 1] /\ i - 1 \in 1 .. Len(s) - 1
  <2>1. i - 1 \in 1 .. Len(s) - 1 /\ (i - 1) + 1 = i
    BY <1>3, <1>5
  <2> QED
    BY <1>1, <2>1
<1>6. ASSUME NEW i \in Current(s), i # 1
      PROVE  i \in DOMAIN s /\ i - 1 \in Current(r) /\ s[i] = r[i - 1] /\ s[i].time \in T /\ s[i].time # t
  <2>1. i \in DOMAIN s /\ s[i].cycle = cycle
    BY DEF Current
  <2>2. i - 1 \in Current(r) /\ s[i] = r[i - 1]
    BY <1>5, <1>6, <2>1 DEF Current
  <2>3. r[i - 1].time \in T /\ r[i - 1].time # t
    BY <2>2 DEF Ring, Current, Found
  <2> QED
    BY <2>1, <2>2, <2>3
<1>7. \A i \in DOMAIN s : s[i].cycle <= cycle
  <2> SUFFICES ASSUME NEW i \in DOMAIN s PROVE s[i].cycle <= cycle
    OBVIOUS
  <2>1. CASE i = 1
    BY <1>1, <2>1
  <2>2. CASE i # 1
    BY <1>5, <2>2 DEF Ring
  <2> QED
    BY <2>1, <2>2
<1>8. \A i \in Current(s) : s[i].time \in T
  BY <1>4, <1>6
<1>9. ASSUME NEW i \in Current(s), NEW j \in 1..i PROVE j \in Current(s)
  <2>1. CASE j = 1
    BY <1>4, <2>1
  <2>2. CASE j # 1
    <3>1. i \in DOMAIN s /\ i \in Int /\ i # 1
      BY <1>3, <2>2 DEF Current
    <3>2. j \in DOMAIN s /\ j \in Int
      BY <1>3, <3>1
    <3>3. i - 1 \in Current(r) /\ j - 1 \in 1 .. i - 1
      BY <1>6, <2>2, <3>1, <3>2
    <3>4. j - 1 \in Current(r)
      BY <3>3 DEF Ring
    <3>5. s[j] = r[j - 1]
      BY <1>5, <2>2, <3>2
    <3> QED
      BY <3>2, <3>4, <3>5 DEF Current
  <2> QED
    BY <2>1, <2>2
<1>10. ASSUME NEW i \in Current(s), NEW j \in Current(s), s[i].time = s[j].time PROVE i = j
  <2>1. CASE i = 1 \/ j = 1
    BY <1>4, <1>6, <1>10, <2>1
  <2>2. CASE i # 1 /\ j # 1
    <3>1. /\ i - 1 \in Current(r) /\ j - 1 \in Current(r) /\ r[i - 1].time = r[j - 1].time
          /\ i \in DOMAIN s /\ j \in DOMAIN s
      BY <1>6, <1>10, <2>2
    <3>2. i - 1 = j - 1 /\ i \in Int /\ j \in Int
      BY <1>3, <3>1 DEF Ring
    <3> QED
      BY <3>2
  <2> QED
    BY <2>1, <2>2
<1>11. Ring(s, T)
  BY <1>3, <1>7, <1>8, <1>9, <1>10 DEF Ring
<1>12. Adds(r, s, v, t)
  BY <1>1, <1>6, Zenon DEF Adds
<1> QED
  BY <1>1, <1>4, <1>11, <1>12 DEF s

(* The answers of this cycle and one more are for different times: if      *)
(* there is room for these, the oldest place is not that of one of them.   *)
LEMMA Room ==
  ASSUME NEW V, NEW r \in Seq(Entries(V)), NEW T, Ring(r, T), Fits(T),
         NEW t \in T, Found(r, t) = {}, NEW i \in Current(r)
  PROVE  i < Num /\ i \in DOMAIN r
<1>1. i \in Nat \ {0} /\ i \in DOMAIN r
  BY DEF Current
<1> DEFINE U == T \ {t}
           f == [j \in 1..i |-> r[j].time]
<1>2. \A j \in 1..i : j \in Current(r) /\ f[j] \in U
  <2>1. \A j \in 1..i : j \in Current(r)
    BY DEF Ring
  <2> QED
    BY <2>1 DEF Ring, Found, Current
<1>3. f \in [1..i -> U]
  BY <1>2
<1>4. \A j, k \in 1..i : f[j] = f[k] => j = k
  BY <1>2 DEF Ring
<1>5. IsFiniteSet(U) /\ Cardinality(U) = Cardinality(T) - 1 /\ Cardinality(T) \in Nat
  BY FS_RemoveElement, FS_CardinalityType DEF Fits
<1>6. IsFiniteSet(1..i) /\ Cardinality(1..i) = i
  <2>1. 1 \in Int /\ i \in Int /\ 1 <= i
    BY <1>1
  <2>2. IsFiniteSet(1..i) /\ Cardinality(1..i) = IF 1 > i THEN 0 ELSE i - 1 + 1
    BY <2>1, FS_Interval
  <2> QED
    BY <2>1, <2>2
<1> HIDE DEF f, U
<1>7. f \in Injection(1..i, U)
  BY <1>3, <1>4 DEF Injection, IsInjective
<1>8. Cardinality(1..i) <= Cardinality(U)
  BY <1>5, <1>6, <1>7, FS_Injection
<1> QED
  BY <1>1, <1>5, <1>6, <1>8, MemoryAssumption DEF Fits

LEMMA PutKeeps ==
  ASSUME NEW V, NEW r \in Seq(Entries(V)), NEW T, Ring(r, T), Fits(T),
         NEW v \in V, NEW t \in Nat, t \in T, Found(r, t) = {}, cycle \in Nat
  PROVE  /\ Kept(r, Put(r, v, t))
         /\ \A i \in Current(r) : i # Num /\ Put(r, v, t)[i + 1] = r[i]
<1> DEFINE s == Put(r, v, t)
<1>1. /\ s \in Seq(Entries(V))
      /\ Len(s) = IF Len(r) < Num THEN Len(r) + 1 ELSE Num
      /\ s[1] = [cycle |-> cycle, time |-> t, value |-> v]
      /\ \A i \in 1 .. Len(s) - 1 : i \in DOMAIN r /\ s[i + 1] = r[i]
      /\ \A i \in DOMAIN r : i < Num => i + 1 \in DOMAIN s
  BY PutShape DEF Ring
<1> HIDE DEF s
<1>2. ASSUME NEW i \in Current(r) PROVE i # Num /\ i + 1 \in Current(s) /\ s[i + 1] = r[i]
  <2>1. i < Num /\ i \in DOMAIN r
    BY Room
  <2>2. i + 1 \in DOMAIN s /\ i \in Nat \ {0} /\ DOMAIN s = 1 .. Len(s) /\ Len(s) \in Nat
    BY <1>1, <2>1
  <2>3. i \in 1 .. Len(s) - 1
    BY <2>2
  <2>4. s[i + 1] = r[i] /\ r[i].cycle = cycle
    BY <1>1, <2>3 DEF Current
  <2> QED
    BY <2>1, <2>2, <2>4, MemoryAssumption DEF Current
<1> QED
  BY <1>2 DEF Kept, s
-----------------------------------------------------------------------------
Clock == cycle \in Nat /\ updated \in BOOLEAN /\ (cycle = 0 => updated)

LEMMA ClockTypes ==
  ASSUME Clock
  PROVE  /\ cycle \in Nat /\ Estimate \in Nat /\ Pure \in PureValues /\ Pure.of = Estimate
         /\ LatestUpdate \in Nat /\ ImageTime \in Nat /\ StateTime \in Nat
         /\ \A slot \in Nat : TimeOf(slot) \in Nat /\ TimeOf(slot) >= ImageTime
<1>1. cycle \in Nat /\ Estimate \in Nat /\ Slots \in Nat
  BY MemoryAssumption DEF Clock, Estimate
<1>2. Slots * cycle \in Nat /\ Slots * Estimate \in Nat
  BY <1>1
<1> QED
  BY <1>1, <1>2 DEF Pure, PureValues, LatestUpdate, ImageTime, StateTime, TimeOf

(* The memory in good order: the pure answers are for times in T, those    *)
(* with interaction for times in U.                                        *)
Well(m, T, U) ==
  /\ m \in Memory
  /\ Ring(m.robot, T) /\ Ring(m.ball, T) /\ Ring(m.both, U)
  /\ m.obstacles.cycle <= cycle

Keeps(m, n) ==
  /\ Kept(m.robot, n.robot) /\ Kept(m.ball, n.ball) /\ Kept(m.both, n.both)
  /\ m.obstacles.cycle = cycle => n.obstacles = m.obstacles

LEMMA KeptAll == \A r : Kept(r, r)
BY DEF Kept

LEMMA KeptOn == ASSUME NEW r, NEW s, NEW q, Kept(r, s), Kept(s, q) PROVE Kept(r, q)
<1> SUFFICES ASSUME NEW i \in Current(r) PROVE \E j \in Current(q) : q[j] = r[i]
  BY DEF Kept
<1>1. PICK j \in Current(s) : s[j] = r[i]
  BY DEF Kept
<1>2. PICK k \in Current(q) : q[k] = s[j]
  BY DEF Kept
<1> QED
  BY <1>1, <1>2

LEMMA KeepsAll == ASSUME NEW m PROVE Keeps(m, m)
BY KeptAll DEF Keeps

LEMMA KeepsOn ==
  ASSUME NEW m, NEW n, NEW o, Keeps(m, n), Keeps(n, o)
  PROVE  Keeps(m, o)
<1>1. Kept(m.robot, o.robot) /\ Kept(m.ball, o.ball) /\ Kept(m.both, o.both)
  BY KeptOn DEF Keeps
<1>2. m.obstacles.cycle = cycle => o.obstacles = m.obstacles
  BY DEF Keeps
<1> QED
  BY <1>1, <1>2 DEF Keeps

(* What was found is found again.                                          *)
LEMMA FoundAgain ==
  ASSUME NEW V, NEW r \in Seq(Entries(V)), NEW s \in Seq(Entries(V)), NEW T, NEW U,
         Ring(r, T), Ring(s, U), Kept(r, s), NEW t, Found(r, t) # {}
  PROVE  Found(s, t) # {} /\ At(s, t) = At(r, t)
<1>1. PICK i \in Found(r, t) : TRUE
  OBVIOUS
<1>2. i \in Current(r) /\ r[i].time = t /\ At(r, t) = r[i]
  BY <1>1, AtFound
<1>3. PICK j \in Current(s) : s[j] = r[i]
  BY <1>2 DEF Kept
<1>4. j \in Found(s, t)
  BY <1>2, <1>3 DEF Found, Current
<1> QED
  BY <1>2, <1>3, <1>4, AtFound

(* A pure answer: remembered or added.                                     *)
RingAsked(r, t) == IF Found(r, t) # {} THEN r ELSE Put(r, Pure, t)

LEMMA RingStep ==
  ASSUME Clock, NEW T, NEW r \in Seq(Entries(PureValues)), Ring(r, T), NEW t \in Nat, t \in T
  PROVE  LET s == RingAsked(r, t)
         IN  /\ s \in Seq(Entries(PureValues)) /\ Ring(s, T) /\ Found(s, t) # {}
             /\ s = r \/ (Found(r, t) = {} /\ s = Put(r, Pure, t))
             /\ Adds(r, s, Pure, t)
             /\ Fits(T) => Kept(r, s)
<1>1. CASE Found(r, t) # {}
  <2>1. RingAsked(r, t) = r
    BY <1>1 DEF RingAsked
  <2>2. Adds(r, r, Pure, t)
    BY DEF Adds
  <2> QED
    BY <1>1, <2>1, <2>2, KeptAll
<1>2. CASE Found(r, t) = {}
  <2> DEFINE s == Put(r, Pure, t)
  <2>1. RingAsked(r, t) = s
    BY <1>2 DEF RingAsked
  <2>2. s \in Seq(Entries(PureValues)) /\ Ring(s, T) /\ 1 \in Found(s, t) /\ Adds(r, s, Pure, t)
    BY <1>2, PutRing, ClockTypes
  <2>3. Fits(T) => Kept(r, s)
    BY <1>2, PutKeeps, ClockTypes
  <2> HIDE DEF s
  <2> QED
    BY <1>2, <2>1, <2>2, <2>3 DEF s
<1> QED
  BY <1>1, <1>2

LEMMA RobotStep ==
  ASSUME Clock, NEW T, NEW U, NEW m, Well(m, T, U), NEW t \in Nat, t \in T
  PROVE  LET n == PureAsked(m, "robot", t)
         IN  /\ Well(n, T, U)
             /\ n.both = m.both /\ n.obstacles = m.obstacles /\ n.ball = m.ball
             /\ Found(n.robot, t) # {}
             /\ n.robot = m.robot \/ (Found(m.robot, t) = {} /\ n.robot = Put(m.robot, Pure, t))
             /\ Adds(m.robot, n.robot, Pure, t)
             /\ Fits(T) => Keeps(m, n)
<1> DEFINE n == PureAsked(m, "robot", t)
           s == RingAsked(m.robot, t)
<1>1. m.robot \in Seq(Entries(PureValues)) /\ Ring(m.robot, T) /\ m \in Memory
  BY DEF Well, Memory
<1>2. n = [m EXCEPT !.robot = s]
  <2>1. [m EXCEPT !.robot = m.robot] = m
    BY <1>1 DEF Memory
  <2> QED
    BY <2>1 DEF PureAsked, RingAsked
<1>3. /\ s \in Seq(Entries(PureValues)) /\ Ring(s, T) /\ Found(s, t) # {}
      /\ s = m.robot \/ (Found(m.robot, t) = {} /\ s = Put(m.robot, Pure, t))
      /\ Adds(m.robot, s, Pure, t)
      /\ Fits(T) => Kept(m.robot, s)
  BY <1>1, RingStep
<1> HIDE DEF s, n
<1>4. /\ n \in Memory /\ n.robot = s /\ n.ball = m.ball
      /\ n.both = m.both /\ n.obstacles = m.obstacles
  BY <1>1, <1>2, <1>3 DEF Memory
<1>5. Well(n, T, U)
  BY <1>3, <1>4 DEF Well
<1>6. Fits(T) => Keeps(m, n)
  BY <1>3, <1>4, KeptAll DEF Keeps
<1> QED
  BY <1>3, <1>4, <1>5, <1>6 DEF n

LEMMA BallStep ==
  ASSUME Clock, NEW T, NEW U, NEW m, Well(m, T, U), NEW t \in Nat, t \in T
  PROVE  LET n == PureAsked(m, "ball", t)
         IN  /\ Well(n, T, U)
             /\ n.both = m.both /\ n.obstacles = m.obstacles /\ n.robot = m.robot
             /\ Found(n.ball, t) # {}
             /\ n.ball = m.ball \/ (Found(m.ball, t) = {} /\ n.ball = Put(m.ball, Pure, t))
             /\ Adds(m.ball, n.ball, Pure, t)
             /\ Fits(T) => Keeps(m, n)
<1> DEFINE n == PureAsked(m, "ball", t)
           s == RingAsked(m.ball, t)
<1>1. m.ball \in Seq(Entries(PureValues)) /\ Ring(m.ball, T) /\ m \in Memory
  BY DEF Well, Memory
<1>2. n = [m EXCEPT !.ball = s]
  <2>1. [m EXCEPT !.ball = m.ball] = m
    BY <1>1 DEF Memory
  <2> QED
    BY <2>1 DEF PureAsked, RingAsked
<1>3. /\ s \in Seq(Entries(PureValues)) /\ Ring(s, T) /\ Found(s, t) # {}
      /\ s = m.ball \/ (Found(m.ball, t) = {} /\ s = Put(m.ball, Pure, t))
      /\ Adds(m.ball, s, Pure, t)
      /\ Fits(T) => Kept(m.ball, s)
  BY <1>1, RingStep
<1> HIDE DEF s, n
<1>4. /\ n \in Memory /\ n.ball = s /\ n.robot = m.robot
      /\ n.both = m.both /\ n.obstacles = m.obstacles
  BY <1>1, <1>2, <1>3 DEF Memory
<1>5. Well(n, T, U)
  BY <1>3, <1>4 DEF Well
<1>6. Fits(T) => Keeps(m, n)
  BY <1>3, <1>4, KeptAll DEF Keeps
<1> QED
  BY <1>3, <1>4, <1>5, <1>6 DEF n

LEMMA ObstaclesStep ==
  ASSUME Clock, NEW T, NEW U, NEW m, Well(m, T, U)
  PROVE  LET n == ObstaclesAsked(m)
         IN  /\ Well(n, T, U) /\ Keeps(m, n)
             /\ n.robot = m.robot /\ n.ball = m.ball /\ n.both = m.both
             /\ n.obstacles.cycle = cycle
             /\ n.obstacles = m.obstacles \/ n.obstacles.value = Pure
<1>1. CASE m.obstacles.cycle = cycle
  BY <1>1, KeepsAll DEF ObstaclesAsked
<1>2. CASE m.obstacles.cycle # cycle
  <2> DEFINE n == ObstaclesAsked(m)
  <2>1. n = [m EXCEPT !.obstacles = [cycle |-> cycle, value |-> Pure]]
    BY <1>2 DEF ObstaclesAsked
  <2> HIDE DEF n
  <2>2. /\ n \in Memory /\ n.robot = m.robot /\ n.ball = m.ball /\ n.both = m.both
        /\ n.obstacles = [cycle |-> cycle, value |-> Pure]
    BY <2>1, ClockTypes DEF Well, Memory
  <2>3. Well(n, T, U)
    BY <2>2, ClockTypes DEF Well
  <2>4. Keeps(m, n)
    BY <1>2, <2>2, KeptAll DEF Keeps
  <2> QED
    BY <2>2, <2>3, <2>4 DEF n
<1> QED
  BY <1>1, <1>2
-----------------------------------------------------------------------------
(* Robot and ball for one time.                                            *)
AskedPair(m, t) == PureAsked(PureAsked(m, "robot", t), "ball", t)

LEMMA PairStep ==
  ASSUME Clock, NEW T, NEW U, NEW m, Well(m, T, U), NEW t \in Nat, t \in T
  PROVE  LET n == AskedPair(m, t)
         IN  /\ Well(n, T, U)
             /\ Found(n.robot, t) # {} /\ Found(n.ball, t) # {}
             /\ n.both = m.both /\ n.obstacles = m.obstacles
             /\ n.robot = m.robot \/ (Found(m.robot, t) = {} /\ n.robot = Put(m.robot, Pure, t))
             /\ n.ball = m.ball \/ (Found(m.ball, t) = {} /\ n.ball = Put(m.ball, Pure, t))
             /\ Adds(m.robot, n.robot, Pure, t) /\ Adds(m.ball, n.ball, Pure, t)
             /\ Fits(T) => Keeps(m, n)
<1> DEFINE o == PureAsked(m, "robot", t)
           n == PureAsked(o, "ball", t)
<1>1. /\ Well(o, T, U)
      /\ o.both = m.both /\ o.obstacles = m.obstacles /\ o.ball = m.ball
      /\ Found(o.robot, t) # {}
      /\ o.robot = m.robot \/ (Found(m.robot, t) = {} /\ o.robot = Put(m.robot, Pure, t))
      /\ Adds(m.robot, o.robot, Pure, t)
      /\ Fits(T) => Keeps(m, o)
  BY RobotStep
<1> HIDE DEF o
<1>2. /\ Well(n, T, U)
      /\ n.both = o.both /\ n.obstacles = o.obstacles /\ n.robot = o.robot
      /\ Found(n.ball, t) # {}
      /\ n.ball = o.ball \/ (Found(o.ball, t) = {} /\ n.ball = Put(o.ball, Pure, t))
      /\ Adds(o.ball, n.ball, Pure, t)
      /\ Fits(T) => Keeps(o, n)
  BY <1>1, BallStep
<1> HIDE DEF n
<1>3. Fits(T) => Keeps(m, n)
  BY <1>1, <1>2, KeepsOn
<1>4. AskedPair(m, t) = n
  BY DEF AskedPair, n, o
<1> QED
  BY <1>1, <1>2, <1>3, <1>4

(* What a reference refers to after the ring has been stepped once: an     *)
(* answer in any case, and the one it was taken of if there was room.      *)
LEMMA ReferredEntry ==
  ASSUME cycle \in Nat, NEW V, NEW r \in Seq(Entries(V)), NEW T, Ring(r, T),
         NEW u, Found(r, u) # {}, NEW v \in V, NEW t \in Nat, t \in T,
         NEW s, s = r \/ (Found(r, t) = {} /\ s = Put(r, v, t))
  PROVE  /\ Referred(r, s, u) \in Entries(V)
         /\ Fits(T) => Referred(r, s, u) = At(r, u) /\ At(r, u).time = u
<1>1. PICK i \in Found(r, u) : TRUE
  OBVIOUS
<1>2. /\ i \in Current(r) /\ r[i].time = u /\ At(r, u) = r[i]
      /\ (CHOOSE n \in Found(r, u) : \A j \in Found(r, u) : n <= j) = i
  BY <1>1, AtFound
<1>3. Referred(r, s, u) = IF s = r THEN r[i] ELSE IF i = Num THEN s[1] ELSE s[i + 1]
  <2> DEFINE c == CHOOSE n \in Found(r, u) : \A j \in Found(r, u) : n <= j
  <2>1. c = i
    BY <1>2
  <2>2. Referred(r, s, u) = IF s = r THEN r[c] ELSE IF c = Num THEN s[1] ELSE s[c + 1]
    BY DEF Referred
  <2> HIDE DEF c
  <2> QED
    BY <2>1, <2>2
<1>4. i \in DOMAIN r /\ r[i] \in Entries(V)
  BY <1>2 DEF Current
<1>5. CASE s = r
  BY <1>2, <1>3, <1>4, <1>5
<1>6. CASE s # r
  <2>1. Found(r, t) = {} /\ s = Put(r, v, t)
    BY <1>6
  <2>2. /\ s \in Seq(Entries(V))
        /\ Len(s) = IF Len(r) < Num THEN Len(r) + 1 ELSE Num
        /\ s[1] = [cycle |-> cycle, time |-> t, value |-> v]
        /\ \A j \in 1 .. Len(s) - 1 : j \in DOMAIN r /\ s[j + 1] = r[j]
        /\ \A j \in DOMAIN r : j < Num => j + 1 \in DOMAIN s
    BY <2>1, PutShape DEF Ring
  <2>3. i \in Nat /\ i <= Num /\ Num \in Nat \ {0, 1}
    BY <1>4, MemoryAssumption DEF Ring
  <2>4. s[1] \in Entries(V)
    BY <2>2 DEF Entries
  <2>5. i # Num => s[i + 1] \in Entries(V)
    <3>1. i # Num => i + 1 \in DOMAIN s
      BY <1>4, <2>2, <2>3
    <3> QED
      BY <2>2, <3>1
  <2>6. Fits(T) => i # Num /\ s[i + 1] = r[i]
    BY <1>2, <2>1, PutKeeps
  <2> QED
    BY <1>2, <1>3, <1>6, <2>4, <2>5, <2>6
<1> QED
  BY <1>5, <1>6

(* The parts of get_interacted.                                            *)
Seen(m) == ObstaclesAsked(AskedPair(m, LatestUpdate))
Exec(m, t) == AskedPair(Seen(m), t)
Origin(r, s) == LET e == Referred(r, s, LatestUpdate) IN [time |-> e.time, of |-> e.value.of]
Value(m, t) ==
  [robot |-> At(Exec(m, t).robot, t).value.of, ball |-> At(Exec(m, t).ball, t).value.of,
   obstacles |-> Exec(m, t).obstacles.value.of,
   startRobot |-> Origin(Seen(m).robot, Exec(m, t).robot),
   startBall |-> Origin(Seen(m).ball, Exec(m, t).ball), seen |-> LatestUpdate]

LEMMA InteractedParts ==
  ASSUME NEW m, NEW t
  PROVE  Interacted(m, t) = [Exec(m, t) EXCEPT !.both = Put(@, Value(m, t), t)]
BY DEF Interacted, Exec, Seen, AskedPair, Origin, Value

(* Each answer of one kind in n is that of m, or a pure one for t or u.    *)
AddsTwo(r, s, t, u) ==
  \A j \in Current(s) : \/ \E i \in Current(r) : s[j] = r[i]
                       \/ (s[j].value = Pure /\ s[j].time \in {t, u})

LEMMA AddsBoth ==
  ASSUME NEW r, NEW q, NEW s, NEW t, NEW u, Adds(r, q, Pure, t), Adds(q, s, Pure, u)
  PROVE  AddsTwo(r, s, t, u)
<1> SUFFICES ASSUME NEW j \in Current(s)
             PROVE  \/ \E i \in Current(r) : s[j] = r[i]
                    \/ (s[j].value = Pure /\ s[j].time \in {t, u})
  BY Zenon DEF AddsTwo
<1>1. CASE s[j] = [cycle |-> cycle, time |-> u, value |-> Pure]
  BY <1>1
<1>2. CASE \E i \in Current(q) : s[j] = q[i]
  BY <1>2 DEF Adds
<1> QED
  BY <1>1, <1>2 DEF Adds

LEMMA SeenStep ==
  ASSUME Clock, NEW T, NEW U, NEW m, Well(m, T, U), LatestUpdate \in T
  PROVE  LET n == Seen(m)
         IN  /\ Well(n, T, U)
             /\ Found(n.robot, LatestUpdate) # {} /\ Found(n.ball, LatestUpdate) # {}
             /\ n.both = m.both /\ n.obstacles.cycle = cycle
             /\ n.obstacles = m.obstacles \/ n.obstacles.value = Pure
             /\ Adds(m.robot, n.robot, Pure, LatestUpdate)
             /\ Adds(m.ball, n.ball, Pure, LatestUpdate)
             /\ Fits(T) => Keeps(m, n)
<1> DEFINE u == LatestUpdate
           o == AskedPair(m, u)
           n == ObstaclesAsked(o)
<1>0. u \in Nat
  BY ClockTypes
<1> HIDE DEF u
<1>1. /\ Well(o, T, U)
      /\ Found(o.robot, u) # {} /\ Found(o.ball, u) # {}
      /\ o.both = m.both /\ o.obstacles = m.obstacles
      /\ Adds(m.robot, o.robot, Pure, u) /\ Adds(m.ball, o.ball, Pure, u)
      /\ Fits(T) => Keeps(m, o)
  <2>1. u \in T
    BY DEF u
  <2> QED
    BY <1>0, <2>1, PairStep
<1> HIDE DEF o
<1>2. /\ Well(n, T, U) /\ Keeps(o, n)
      /\ n.robot = o.robot /\ n.ball = o.ball /\ n.both = o.both
      /\ n.obstacles.cycle = cycle
      /\ n.obstacles = o.obstacles \/ n.obstacles.value = Pure
  BY <1>1, ObstaclesStep
<1> HIDE DEF n
<1>3. Fits(T) => Keeps(m, n)
  BY <1>1, <1>2, KeepsOn
<1>4. Seen(m) = n
  BY DEF Seen, n, o, u
<1> QED
  BY <1>1, <1>2, <1>3, <1>4 DEF u
-----------------------------------------------------------------------------
(* What get_interacted finds out before it remembers the result: n is the  *)
(* memory then, w the result.                                              *)
From(r) == [time |-> LatestUpdate, of |-> At(r, LatestUpdate).value.of]
FoundOut(m, n, w, t, T, U) ==
  /\ Well(n, T, U)
  /\ n.both = m.both /\ n.obstacles.cycle = cycle
  /\ n.obstacles = m.obstacles \/ n.obstacles.value = Pure
  /\ AddsTwo(m.robot, n.robot, LatestUpdate, t)
  /\ AddsTwo(m.ball, n.ball, LatestUpdate, t)
  /\ Found(n.robot, t) # {} /\ Found(n.ball, t) # {}
  /\ w \in BothValues /\ w.seen = LatestUpdate /\ w.obstacles = n.obstacles.value.of
  /\ w.robot = At(n.robot, t).value.of /\ w.ball = At(n.ball, t).value.of
  /\ Fits(T) => /\ Keeps(m, n)
                /\ Found(n.robot, LatestUpdate) # {} /\ w.startRobot = From(n.robot)
                /\ Found(n.ball, LatestUpdate) # {} /\ w.startBall = From(n.ball)

LEMMA ExecStep ==
  ASSUME Clock, NEW T, NEW U, NEW m, Well(m, T, U), LatestUpdate \in T, NEW t \in Nat, t \in T
  PROVE  FoundOut(m, Exec(m, t), Value(m, t), t, T, U)
<1> DEFINE u == LatestUpdate
           o == Seen(m)
           n == AskedPair(o, t)
           w == Value(m, t)
           start(r) == [time |-> u, of |-> At(r, u).value.of]
<1>0. u \in Nat
  BY ClockTypes
<1>1. /\ Well(o, T, U)
      /\ Found(o.robot, u) # {} /\ Found(o.ball, u) # {}
      /\ o.both = m.both /\ o.obstacles.cycle = cycle
      /\ o.obstacles = m.obstacles \/ o.obstacles.value = Pure
      /\ Adds(m.robot, o.robot, Pure, u) /\ Adds(m.ball, o.ball, Pure, u)
      /\ Fits(T) => Keeps(m, o)
  BY SeenStep
<1> HIDE DEF o, u
<1>2. /\ Well(n, T, U)
      /\ Found(n.robot, t) # {} /\ Found(n.ball, t) # {}
      /\ n.both = o.both /\ n.obstacles = o.obstacles
      /\ n.robot = o.robot \/ (Found(o.robot, t) = {} /\ n.robot = Put(o.robot, Pure, t))
      /\ n.ball = o.ball \/ (Found(o.ball, t) = {} /\ n.ball = Put(o.ball, Pure, t))
      /\ Adds(o.robot, n.robot, Pure, t) /\ Adds(o.ball, n.ball, Pure, t)
      /\ Fits(T) => Keeps(o, n)
  BY <1>1, PairStep
<1> HIDE DEF n, w
<1>3. AddsTwo(m.robot, n.robot, u, t) /\ AddsTwo(m.ball, n.ball, u, t)
  BY <1>1, <1>2, AddsBoth
<1>4. Fits(T) => Keeps(m, n)
  BY <1>1, <1>2, KeepsOn
<1>5. /\ Origin(o.robot, n.robot) \in Starts
      /\ Fits(T) => Found(n.robot, u) # {} /\ Origin(o.robot, n.robot) = start(n.robot)
  <2> DEFINE e == Referred(o.robot, n.robot, u)
  <2>1. o.robot \in Seq(Entries(PureValues)) /\ Ring(o.robot, T) /\ cycle \in Nat /\ Pure \in PureValues
    BY <1>1, ClockTypes DEF Well, Memory
  <2>2. e \in Entries(PureValues) /\ (Fits(T) => e = At(o.robot, u) /\ At(o.robot, u).time = u)
    BY <1>1, <1>2, <2>1, ReferredEntry
  <2>3. Fits(T) => Found(n.robot, u) # {} /\ At(n.robot, u) = At(o.robot, u)
    <3>1. n.robot \in Seq(Entries(PureValues)) /\ Ring(n.robot, T) /\ (Fits(T) => Kept(o.robot, n.robot))
      BY <1>2 DEF Well, Memory, Keeps
    <3> QED
      BY <1>1, <2>1, <3>1, FoundAgain
  <2>4. Origin(o.robot, n.robot) = [time |-> e.time, of |-> e.value.of]
    BY DEF Origin, u
  <2> HIDE DEF e
  <2> QED
    BY <2>2, <2>3, <2>4 DEF Entries, PureValues, Starts
<1>6. /\ Origin(o.ball, n.ball) \in Starts
      /\ Fits(T) => Found(n.ball, u) # {} /\ Origin(o.ball, n.ball) = start(n.ball)
  <2> DEFINE e == Referred(o.ball, n.ball, u)
  <2>1. o.ball \in Seq(Entries(PureValues)) /\ Ring(o.ball, T) /\ cycle \in Nat /\ Pure \in PureValues
    BY <1>1, ClockTypes DEF Well, Memory
  <2>2. e \in Entries(PureValues) /\ (Fits(T) => e = At(o.ball, u) /\ At(o.ball, u).time = u)
    BY <1>1, <1>2, <2>1, ReferredEntry
  <2>3. Fits(T) => Found(n.ball, u) # {} /\ At(n.ball, u) = At(o.ball, u)
    <3>1. n.ball \in Seq(Entries(PureValues)) /\ Ring(n.ball, T) /\ (Fits(T) => Kept(o.ball, n.ball))
      BY <1>2 DEF Well, Memory, Keeps
    <3> QED
      BY <1>1, <2>1, <3>1, FoundAgain
  <2>4. Origin(o.ball, n.ball) = [time |-> e.time, of |-> e.value.of]
    BY DEF Origin, u
  <2> HIDE DEF e
  <2> QED
    BY <2>2, <2>3, <2>4 DEF Entries, PureValues, Starts
<1>7. At(n.robot, t).value.of \in Nat /\ At(n.ball, t).value.of \in Nat
  <2>1. ASSUME NEW r \in Seq(Entries(PureValues)), Ring(r, T), Found(r, t) # {}
        PROVE  At(r, t).value.of \in Nat
    <3>1. PICK i \in Found(r, t) : TRUE
      BY <2>1
    <3>2. At(r, t) = r[i] /\ i \in DOMAIN r
      BY <2>1, AtFound DEF Found
    <3>3. r[i] \in Entries(PureValues)
      BY <3>2
    <3> QED
      BY <3>2, <3>3 DEF Entries, PureValues
  <2> QED
    BY <1>2, <2>1 DEF Well, Memory
<1>8. n.obstacles.value.of \in Nat
  BY <1>2 DEF Well, Memory, PureValues
<1>9. Exec(m, t) = n
  BY DEF Exec, n, o
<1>10. /\ w = [robot |-> At(n.robot, t).value.of, ball |-> At(n.ball, t).value.of,
               obstacles |-> n.obstacles.value.of, startRobot |-> Origin(o.robot, n.robot),
               startBall |-> Origin(o.ball, n.ball), seen |-> u]
  BY <1>9 DEF w, Value, o, u
<1>11. w \in BothValues
  BY <1>0, <1>5, <1>6, <1>7, <1>8, <1>10 DEF BothValues
<1> QED
  BY <1>1, <1>2, <1>3, <1>4, <1>5, <1>6, <1>9, <1>10, <1>11 DEF u, w, FoundOut, From

(* get_interacted for a time that was not asked for.                       *)
LEMMA InteractedStep ==
  ASSUME Clock, NEW T, NEW U, NEW m, Well(m, T, U), LatestUpdate \in T,
         NEW t \in Nat, t \in T, t \in U, Found(m.both, t) = {}
  PROVE  LET n == Interacted(m, t)
         IN  /\ Well(n, T, U)
             /\ n.robot = Exec(m, t).robot /\ n.ball = Exec(m, t).ball
             /\ n.obstacles = Exec(m, t).obstacles
             /\ Found(n.both, t) # {} /\ Adds(m.both, n.both, Value(m, t), t)
             /\ Fits(T) /\ Fits(U) => Keeps(m, n)
<1> DEFINE o == Exec(m, t)
           w == Value(m, t)
           s == Put(m.both, w, t)
           n == Interacted(m, t)
<1>1. /\ Well(o, T, U) /\ o.both = m.both /\ w \in BothValues
      /\ Fits(T) => Keeps(m, o)
  BY ExecStep DEF FoundOut
<1>2. n = [o EXCEPT !.both = Put(@, w, t)]
  BY InteractedParts
<1> HIDE DEF o, w, n
<1>3. m.both \in Seq(Entries(BothValues)) /\ Ring(m.both, U) /\ cycle \in Nat
  BY ClockTypes DEF Well, Memory
<1>4. s \in Seq(Entries(BothValues)) /\ Ring(s, U) /\ 1 \in Found(s, t) /\ Adds(m.both, s, w, t)
  BY <1>1, <1>3, PutRing
<1>5. Fits(U) => Kept(m.both, s)
  BY <1>1, <1>3, PutKeeps
<1>6. n = [o EXCEPT !.both = s]
  BY <1>1, <1>2
<1> HIDE DEF s
<1>7. /\ n \in Memory /\ n.both = s /\ n.robot = o.robot /\ n.ball = o.ball
      /\ n.obstacles = o.obstacles
  BY <1>1, <1>4, <1>6 DEF Well, Memory
<1>8. Well(n, T, U)
  BY <1>1, <1>4, <1>7 DEF Well
<1>9. Fits(T) /\ Fits(U) => Keeps(m, n)
  BY <1>1, <1>5, <1>7 DEF Keeps
<1> QED
  BY <1>4, <1>7, <1>8, <1>9 DEF n, o, w
-----------------------------------------------------------------------------
Kinds == {"robot", "ball", "both", "obstacles"}
Questions == [kind : Kinds, time : Nat]

(* There is an answer to q in the memory m, and it is x.                   *)
Answers(m, q, x) ==
  /\ q.kind = "robot" => Found(m.robot, q.time) # {} /\ x = At(m.robot, q.time).value
  /\ q.kind = "ball" => Found(m.ball, q.time) # {} /\ x = At(m.ball, q.time).value
  /\ q.kind = "both" => Found(m.both, q.time) # {} /\ x = At(m.both, q.time).value
  /\ q.kind = "obstacles" => m.obstacles.cycle = cycle /\ x = m.obstacles.value

(* The interaction was followed from where it was seen.                    *)
Started(v) == v.startRobot.time = v.seen /\ v.startBall.time = v.seen
AllStarted(m) == \A i \in Current(m.both) : Started(m.both[i].value)

LEMMA AnswersStay ==
  ASSUME NEW m, NEW n, NEW T, NEW U, Well(m, T, U), Well(n, T, U), Keeps(m, n),
         NEW q, NEW x, Answers(m, q, x)
  PROVE  Answers(n, q, x)
<1>0. /\ m.robot \in Seq(Entries(PureValues)) /\ n.robot \in Seq(Entries(PureValues))
      /\ m.ball \in Seq(Entries(PureValues)) /\ n.ball \in Seq(Entries(PureValues))
      /\ m.both \in Seq(Entries(BothValues)) /\ n.both \in Seq(Entries(BothValues))
      /\ Ring(m.robot, T) /\ Ring(n.robot, T) /\ Kept(m.robot, n.robot)
      /\ Ring(m.ball, T) /\ Ring(n.ball, T) /\ Kept(m.ball, n.ball)
      /\ Ring(m.both, U) /\ Ring(n.both, U) /\ Kept(m.both, n.both)
  BY DEF Well, Memory, Keeps
<1>1. q.kind = "robot" => Found(n.robot, q.time) # {} /\ x = At(n.robot, q.time).value
  <2>1. SUFFICES ASSUME q.kind = "robot" PROVE Found(n.robot, q.time) # {} /\ x = At(n.robot, q.time).value
    OBVIOUS
  <2>2. Found(m.robot, q.time) # {} /\ x = At(m.robot, q.time).value
    BY <2>1 DEF Answers
  <2> QED
    BY <1>0, <2>2, FoundAgain
<1>2. q.kind = "ball" => Found(n.ball, q.time) # {} /\ x = At(n.ball, q.time).value
  <2>1. SUFFICES ASSUME q.kind = "ball" PROVE Found(n.ball, q.time) # {} /\ x = At(n.ball, q.time).value
    OBVIOUS
  <2>2. Found(m.ball, q.time) # {} /\ x = At(m.ball, q.time).value
    BY <2>1 DEF Answers
  <2> QED
    BY <1>0, <2>2, FoundAgain
<1>3. q.kind = "both" => Found(n.both, q.time) # {} /\ x = At(n.both, q.time).value
  <2>1. SUFFICES ASSUME q.kind = "both" PROVE Found(n.both, q.time) # {} /\ x = At(n.both, q.time).value
    OBVIOUS
  <2>2. Found(m.both, q.time) # {} /\ x = At(m.both, q.time).value
    BY <2>1 DEF Answers
  <2> QED
    BY <1>0, <2>2, FoundAgain
<1>4. q.kind = "obstacles" => n.obstacles.cycle = cycle /\ x = n.obstacles.value
  BY DEF Answers, Keeps
<1> QED
  BY <1>1, <1>2, <1>3, <1>4 DEF Answers

(* What a question does to the memory.                                     *)
Done(m, n, q, T, U) ==
  /\ Well(n, T, U)
  /\ Answers(n, q, Answer(n, q))
  /\ Fits(T) /\ Fits(U) => Keeps(m, n) /\ (AllStarted(m) => AllStarted(n))

LEMMA AskedStep ==
  ASSUME Clock, NEW T, NEW U, NEW m, Well(m, T, U), NEW q \in Questions,
         q.time \in T, q.time \in U, q.kind = "both" => LatestUpdate \in T
  PROVE  Done(m, Asked(m, q), q, T, U)
<1> DEFINE t == q.time
           n == Asked(m, q)
<1>0. t \in Nat /\ q.kind \in Kinds
  BY DEF Questions
<1>1. CASE q.kind = "robot"
  <2>1. n = PureAsked(m, "robot", t)
    BY <1>1 DEF Asked
  <2>2. /\ Well(n, T, U) /\ n.both = m.both /\ Found(n.robot, t) # {}
        /\ Fits(T) => Keeps(m, n)
    BY <1>0, <2>1, RobotStep
  <2>3. Answer(n, q) = At(n.robot, t).value
    BY <1>1 DEF Answer
  <2> HIDE DEF n
  <2>4. Answers(n, q, Answer(n, q))
    BY <1>1, <2>2, <2>3 DEF Answers
  <2> QED
    BY <2>2, <2>4 DEF Done, AllStarted, n
<1>2. CASE q.kind = "ball"
  <2>1. n = PureAsked(m, "ball", t)
    BY <1>2 DEF Asked
  <2>2. /\ Well(n, T, U) /\ n.both = m.both /\ Found(n.ball, t) # {}
        /\ Fits(T) => Keeps(m, n)
    BY <1>0, <2>1, BallStep
  <2>3. Answer(n, q) = At(n.ball, t).value
    BY <1>2 DEF Answer
  <2> HIDE DEF n
  <2>4. Answers(n, q, Answer(n, q))
    BY <1>2, <2>2, <2>3 DEF Answers
  <2> QED
    BY <2>2, <2>4 DEF Done, AllStarted, n
<1>3. CASE q.kind = "obstacles"
  <2>1. n = ObstaclesAsked(m)
    BY <1>3 DEF Asked
  <2>2. Well(n, T, U) /\ Keeps(m, n) /\ n.both = m.both /\ n.obstacles.cycle = cycle
    BY <2>1, ObstaclesStep
  <2>3. Answer(n, q) = n.obstacles.value
    BY <1>3 DEF Answer
  <2> HIDE DEF n
  <2>4. Answers(n, q, Answer(n, q))
    BY <1>3, <2>2, <2>3 DEF Answers
  <2> QED
    BY <2>2, <2>4 DEF Done, AllStarted, n
<1>4. CASE q.kind = "both"
  <2>1. n = InteractedAsked(m, t)
    BY <1>4 DEF Asked
  <2>2. Answer(n, q) = At(n.both, t).value
    BY <1>4 DEF Answer
  <2>3. CASE Found(m.both, t) # {}
    <3>1. n = m
      BY <2>1, <2>3 DEF InteractedAsked
    <3>2. Answers(n, q, Answer(n, q))
      BY <1>4, <2>2, <2>3, <3>1 DEF Answers
    <3> QED
      BY <3>1, <3>2, KeepsAll DEF Done
  <2>4. CASE Found(m.both, t) = {}
    <3> DEFINE w == Value(m, t)
    <3>1. n = Interacted(m, t)
      BY <2>1, <2>4 DEF InteractedAsked
    <3>2. /\ Well(n, T, U) /\ Found(n.both, t) # {} /\ Adds(m.both, n.both, w, t)
          /\ Fits(T) /\ Fits(U) => Keeps(m, n)
      BY <1>0, <1>4, <2>4, <3>1, InteractedStep
    <3>3. Fits(T) => Started(w)
      <4>1. FoundOut(m, Exec(m, t), w, t, T, U)
        BY <1>0, <1>4, ExecStep
      <4> HIDE DEF w
      <4> QED
        BY <4>1 DEF FoundOut, Started, From
    <3> HIDE DEF n, w
    <3>4. Fits(T) => (AllStarted(m) => AllStarted(n))
      <4> SUFFICES ASSUME Fits(T), AllStarted(m), NEW j \in Current(n.both)
                   PROVE  Started(n.both[j].value)
        BY DEF AllStarted
      <4>1. CASE \E i \in Current(m.both) : n.both[j] = m.both[i]
        BY <4>1 DEF AllStarted
      <4>2. CASE n.both[j] = [cycle |-> cycle, time |-> t, value |-> w]
        BY <3>3, <4>2
      <4> QED
        BY <3>2, <4>1, <4>2 DEF Adds
    <3>5. Answers(n, q, Answer(n, q))
      BY <1>4, <2>2, <3>2 DEF Answers
    <3> QED
      BY <3>2, <3>4, <3>5 DEF Done, n
  <2> QED
    BY <2>3, <2>4
<1> QED
  BY <1>0, <1>1, <1>2, <1>3, <1>4 DEF Kinds
-----------------------------------------------------------------------------
LEMMA WellMore ==
  ASSUME NEW m, NEW T, NEW U, Well(m, T, U), NEW V, NEW W, T \subseteq V, U \subseteq W
  PROVE  Well(m, V, W)
BY DEF Well, Ring

(* The times that must be remembered: those asked for, and that from which *)
(* interactions are followed.                                              *)
EarlyBoth == \E q \in early : q.kind = "both"
Extra == IF EarlyBoth THEN Slots * (cycle - 1) ELSE ImageTime
Needed == TimesAsked \union {Extra}

Questioned ==
  /\ IsFiniteSet(given) /\ IsFiniteSet(early) /\ early \subseteq Questions
  /\ \A g \in given : g.question \in Questions
  /\ \A q \in early : q.kind = "both" => q.time = ImageTime /\ cycle > 0

MemoryInv ==
  /\ Clock
  /\ Questioned
  /\ Well(memory, Needed, TimesAsked)
  /\ Moderate => \A g \in given : Answers(memory, g.question, g.value)
  /\ Moderate => AllStarted(memory)

LEMMA FiniteTimes ==
  ASSUME NEW G, IsFiniteSet(G), NEW E, IsFiniteSet(E)
  PROVE  IsFiniteSet({g.question.time : g \in G} \union {q.time : q \in E})
<1>1. IsFiniteSet({g.question.time : g \in G})
  <2> DEFINE f == [g \in G |-> g.question.time]
             S == {g.question.time : g \in G}
  <2>1. f \in Surjection(G, S)
    BY DEF Surjection
  <2> HIDE DEF f, S
  <2>2. IsFiniteSet(S)
    BY <2>1, FS_Surjection
  <2> QED
    BY <2>2 DEF S
<1>2. IsFiniteSet({q.time : q \in E})
  <2> DEFINE f == [q \in E |-> q.time]
             S == {q.time : q \in E}
  <2>1. f \in Surjection(E, S)
    BY DEF Surjection
  <2> HIDE DEF f, S
  <2>2. IsFiniteSet(S)
    BY <2>1, FS_Surjection
  <2> QED
    BY <2>2 DEF S
<1> QED
  BY <1>1, <1>2, FS_Union

(* Room for the times asked for and one more.                              *)
LEMMA ModerateFits ==
  ASSUME NEW T, IsFiniteSet(T), Cardinality(T) + 1 <= Num, NEW t
  PROVE  Fits(T) /\ Fits(T \union {t})
<1>1. IsFiniteSet(T \union {t}) /\ Cardinality(T) \in Nat /\ Cardinality(T \union {t}) \in Nat
  BY FS_AddElement, FS_CardinalityType
<1>2. Cardinality(T \union {t}) <= Cardinality(T) + 1
  BY <1>1, FS_AddElement
<1> QED
  BY <1>1, <1>2, MemoryAssumption DEF Fits

LEMMA FewerTimes ==
  ASSUME NEW S, NEW T, S \subseteq T, IsFiniteSet(T), Cardinality(T) + 1 <= Num
  PROVE  Cardinality(S) + 1 <= Num
<1>1. IsFiniteSet(S) /\ Cardinality(S) <= Cardinality(T)
  BY FS_Subset
<1> QED
  BY <1>1, FS_CardinalityType, MemoryAssumption

(* A step within a cycle: the times asked for become more, and the memory  *)
(* keeps what it has as long as they are few.                              *)
LEMMA WithinCycle ==
  ASSUME MemoryInv, cycle' = cycle, Clock', Questioned',
         TimesAsked \subseteq TimesAsked', Needed \subseteq Needed',
         Well(memory', Needed', TimesAsked'),
         Fits(Needed') /\ Fits(TimesAsked') =>
           Keeps(memory, memory') /\ (AllStarted(memory) => AllStarted(memory')),
         \A g \in given' : g \in given \/ Answers(memory', g.question, g.value)
  PROVE  MemoryInv'
<1>1. Well(memory, Needed, TimesAsked)'
  BY DEF Well, Ring, Current
<1>2. IsFiniteSet(TimesAsked')
  BY FiniteTimes DEF Questioned, TimesAsked
<1>3. ASSUME Moderate' PROVE Moderate /\ Keeps(memory, memory') /\ AllStarted(memory')
  <2>1. Cardinality(TimesAsked') + 1 <= Num
    BY <1>3 DEF Moderate
  <2>2. Moderate
    BY <1>2, <2>1, FewerTimes DEF Moderate
  <2>3. Fits(TimesAsked') /\ Fits(Needed')
    BY <1>2, <2>1, ModerateFits DEF Needed
  <2> QED
    BY <2>2, <2>3 DEF MemoryInv
<1>4. ASSUME Moderate', NEW g \in given' PROVE Answers(memory', g.question, g.value)
  <2>1. CASE g \in given
    <3>1. Answers(memory, g.question, g.value) /\ Well(memory, Needed', TimesAsked')
      BY <1>3, <1>4, <2>1, WellMore DEF MemoryInv
    <3> QED
      BY <1>3, <1>4, <3>1, AnswersStay
  <2> QED
    BY <2>1
<1>5. (Moderate => \A g \in given : Answers(memory, g.question, g.value))'
  <2>1. \A q, x : Answers(memory, q, x)' <=> Answers(memory', q, x)
    BY DEF Answers, Found, At
  <2> QED
    BY <1>4, <2>1
<1>6. (Moderate => AllStarted(memory))'
  BY <1>3 DEF AllStarted, Current
<1> QED
  BY <1>1, <1>5, <1>6 DEF MemoryInv

LEMMA AskTimes ==
  ASSUME MemoryInv, NEW q \in Questions, cycle > 0, Ask(q),
         q.kind = "both" /\ ~updated => q.time = ImageTime
  PROVE  /\ Clock' /\ Questioned'
         /\ TimesAsked \subseteq TimesAsked' /\ Needed \subseteq Needed'
         /\ q.time \in TimesAsked' /\ q.time \in Needed'
         /\ q.kind = "both" => LatestUpdate \in Needed'
         /\ Well(memory, Needed', TimesAsked')
<1> DEFINE n == Asked(memory, q)
           g0 == [question |-> q, late |-> updated, value |-> Answer(n, q)]
<1>1. /\ cycle' = cycle /\ updated' = updated /\ memory' = n
      /\ given' = given \union {g0}
      /\ early' = IF updated THEN early ELSE early \union {q}
  BY DEF Ask, Given
<1>2. Clock' /\ Clock /\ Questioned /\ cycle \in Nat
  BY <1>1 DEF MemoryInv, Clock
<1>3. g0.question = q /\ g0.value = Answer(n, q)
  OBVIOUS
<1> HIDE DEF g0, n
<1>4. ImageTime' = ImageTime
  BY <1>1 DEF ImageTime, TimeOf
<1>5. Questioned'
  <2>1. IsFiniteSet(given') /\ IsFiniteSet(early')
    BY <1>1, <1>2, FS_AddElement DEF Questioned
  <2>2. early' \subseteq Questions /\ \A g \in given' : g.question \in Questions
    BY <1>1, <1>2, <1>3 DEF Questioned
  <2>3. \A p \in early' : p.kind = "both" => p.time = ImageTime' /\ cycle' > 0
    BY <1>1, <1>2, <1>4 DEF Questioned
  <2> QED
    BY <2>1, <2>2, <2>3 DEF Questioned
<1>6. TimesAsked \subseteq TimesAsked' /\ q.time \in TimesAsked'
  <2>1. given \subseteq given' /\ early \subseteq early' /\ g0 \in given'
    BY <1>1
  <2> QED
    BY <1>3, <2>1 DEF TimesAsked
<1>7. EarlyBoth => EarlyBoth'
  BY <1>1 DEF EarlyBoth
<1>8. ImageTime \in Needed'
  <2>1. CASE EarlyBoth'
    <3>1. PICK p \in early' : p.kind = "both" /\ p.time = ImageTime
      BY <1>4, <1>5, <2>1 DEF EarlyBoth, Questioned
    <3> QED
      BY <3>1 DEF Needed, TimesAsked
  <2>2. CASE ~EarlyBoth'
    BY <1>4, <2>2 DEF Needed, Extra
  <2> QED
    BY <2>1, <2>2
<1>9. Needed \subseteq Needed'
  BY <1>1, <1>6, <1>7, <1>8 DEF Needed, Extra
<1>10. q.kind = "both" => LatestUpdate \in Needed'
  <2>1. CASE updated
    BY <1>2, <1>8, <2>1, MemoryAssumption DEF LatestUpdate, Estimate, ImageTime, TimeOf
  <2>2. CASE ~updated /\ q.kind = "both"
    <3>1. EarlyBoth'
      BY <1>1, <2>2 DEF EarlyBoth
    <3>2. LatestUpdate = Slots * (cycle - 1)
      BY <2>2 DEF LatestUpdate, Estimate
    <3> QED
      BY <1>1, <3>1, <3>2 DEF Needed, Extra
  <2> QED
    BY <2>1, <2>2
<1>11. q.time \in Needed'
  BY <1>6 DEF Needed
<1>12. Well(memory, Needed', TimesAsked')
  BY <1>6, <1>9, WellMore DEF MemoryInv
<1> QED
  BY <1>2, <1>5, <1>6, <1>9, <1>10, <1>11, <1>12

LEMMA AskKeepsInv ==
  ASSUME MemoryInv, NEW q \in Questions, cycle > 0, Ask(q),
         q.kind = "both" /\ ~updated => q.time = ImageTime
  PROVE  MemoryInv'
<1> DEFINE n == Asked(memory, q)
<1>1. /\ cycle' = cycle /\ memory' = n
      /\ \A g \in given' : g \in given \/ (g.question = q /\ g.value = Answer(n, q))
  BY DEF Ask, Given
<1> HIDE DEF n
<1>2. /\ Clock' /\ Questioned'
      /\ TimesAsked \subseteq TimesAsked' /\ Needed \subseteq Needed'
      /\ q.time \in TimesAsked' /\ q.time \in Needed'
      /\ q.kind = "both" => LatestUpdate \in Needed'
      /\ Well(memory, Needed', TimesAsked')
  BY AskTimes
<1>3. Done(memory, n, q, Needed', TimesAsked')
  BY <1>2, AskedStep DEF n, MemoryInv
<1> QED
  BY <1>1, <1>2, <1>3, WithinCycle DEF Done

LEMMA UpdateTimes ==
  ASSUME MemoryInv, Update
  PROVE  /\ Clock' /\ Questioned'
         /\ TimesAsked \subseteq TimesAsked' /\ Needed \subseteq Needed'
         /\ StateTime \in TimesAsked' /\ StateTime \in Needed'
         /\ Well(memory, Needed', TimesAsked')
<1> DEFINE b == Question("ball", StateTime)
           r == Question("robot", StateTime)
<1>1. /\ cycle' = cycle /\ updated' = TRUE /\ cycle > 0
      /\ given' = given /\ early' = early \union {b, r}
  BY DEF Update
<1>2. /\ b.kind = "ball" /\ b.time = StateTime /\ b \in Questions
      /\ r.kind = "robot" /\ r.time = StateTime /\ r \in Questions
  <2>1. StateTime \in Nat
    BY ClockTypes DEF MemoryInv
  <2> QED
    BY <2>1 DEF Question, Questions, Kinds
<1>3. Clock' /\ Questioned
  BY <1>1 DEF MemoryInv, Clock
<1> HIDE DEF b, r
<1>4. Questioned' /\ ImageTime' = ImageTime
  <2>1. IsFiniteSet(early')
    <3>1. IsFiniteSet(early \union {b})
      BY <1>3, FS_AddElement DEF Questioned
    <3>2. IsFiniteSet((early \union {b}) \union {r})
      BY <3>1, FS_AddElement
    <3>3. early' = (early \union {b}) \union {r}
      BY <1>1
    <3> QED
      BY <3>2, <3>3
  <2>2. ImageTime' = ImageTime
    BY <1>1 DEF ImageTime, TimeOf
  <2> QED
    BY <1>1, <1>2, <1>3, <2>1, <2>2 DEF Questioned
<1>5. TimesAsked \subseteq TimesAsked' /\ StateTime \in TimesAsked'
  <2>1. given \subseteq given' /\ early \subseteq early' /\ b \in early'
    BY <1>1
  <2> QED
    BY <1>2, <2>1 DEF TimesAsked
<1>6. Extra' = Extra
  BY <1>1, <1>2, <1>4 DEF Extra, EarlyBoth
<1>7. Needed \subseteq Needed' /\ StateTime \in Needed'
  BY <1>5, <1>6 DEF Needed
<1>8. Well(memory, Needed', TimesAsked')
  BY <1>5, <1>7, WellMore DEF MemoryInv
<1> QED
  BY <1>3, <1>4, <1>5, <1>7, <1>8

LEMMA UpdateKeepsInv == ASSUME MemoryInv, Update PROVE MemoryInv'
<1> DEFINE b == Question("ball", StateTime)
           r == Question("robot", StateTime)
           m == Asked(memory, b)
           n == Asked(m, r)
<1>1. cycle' = cycle /\ memory' = n /\ given' = given /\ Clock
  BY DEF Update, Asked, Question, MemoryInv
<1>2. /\ b.kind = "ball" /\ b.time = StateTime /\ b \in Questions
      /\ r.kind = "robot" /\ r.time = StateTime /\ r \in Questions
  <2>1. StateTime \in Nat
    BY ClockTypes DEF MemoryInv
  <2> QED
    BY <2>1 DEF Question, Questions, Kinds
<1> HIDE DEF b, r, m, n
<1>3. /\ Clock' /\ Questioned'
      /\ TimesAsked \subseteq TimesAsked' /\ Needed \subseteq Needed'
      /\ StateTime \in TimesAsked' /\ StateTime \in Needed'
      /\ Well(memory, Needed', TimesAsked')
  BY UpdateTimes
<1>4. Done(memory, m, b, Needed', TimesAsked')
  BY <1>1, <1>2, <1>3, AskedStep DEF m
<1>5. Done(m, n, r, Needed', TimesAsked')
  BY <1>1, <1>2, <1>3, <1>4, AskedStep DEF n, Done
<1>6. Keeps(memory, m) /\ Keeps(m, n) => Keeps(memory, n)
  BY KeepsOn
<1> QED
  BY <1>1, <1>3, <1>4, <1>5, <1>6, WithinCycle DEF Done

(* In a new cycle no answer is current.                                    *)
LEMMA NothingCurrent ==
  ASSUME cycle \in Nat, cycle' = cycle + 1,
         NEW V, NEW r \in Seq(Entries(V)), NEW T, NEW U, Ring(r, T)
  PROVE  Ring(r, U)' /\ Current(r)' = {}
<1>1. \A i \in DOMAIN r : r[i].cycle \in Nat /\ r[i].cycle <= cycle
  <2> SUFFICES ASSUME NEW i \in DOMAIN r PROVE r[i].cycle \in Nat /\ r[i].cycle <= cycle
    OBVIOUS
  <2>1. r[i] \in Entries(V)
    OBVIOUS
  <2> QED
    BY <2>1 DEF Ring, Entries
<1>2. \A i \in DOMAIN r : r[i].cycle <= cycle' /\ r[i].cycle # cycle'
  BY <1>1
<1>3. Current(r)' = {}
  BY <1>2 DEF Current
<1> QED
  BY <1>2, <1>3 DEF Ring

LEMMA NewCycleKeepsInv == ASSUME MemoryInv, InitCycle PROVE MemoryInv'
<1>1. /\ updated /\ cycle' = cycle + 1 /\ updated' = FALSE /\ memory' = memory
      /\ given' = {} /\ early' = {} /\ cycle \in Nat /\ memory \in Memory
  BY DEF InitCycle, MemoryInv, Clock, Well
<1>2. Clock' /\ Questioned'
  <2>1. cycle' \in Nat /\ cycle' # 0
    BY <1>1
  <2>2. Clock'
    BY <1>1, <2>1 DEF Clock
  <2> QED
    BY <1>1, <2>2, FS_EmptySet DEF Questioned
<1>3. \A V, T, U : \A r \in Seq(Entries(V)) : Ring(r, T) => Ring(r, U)' /\ Current(r)' = {}
  BY <1>1, NothingCurrent
<1>4. /\ memory.robot \in Seq(Entries(PureValues)) /\ memory.ball \in Seq(Entries(PureValues))
      /\ memory.both \in Seq(Entries(BothValues))
      /\ Ring(memory.robot, Needed) /\ Ring(memory.ball, Needed) /\ Ring(memory.both, TimesAsked)
      /\ memory.obstacles.cycle \in Nat /\ memory.obstacles.cycle <= cycle
  BY DEF MemoryInv, Well, Memory
<1>5. Well(memory, Needed, TimesAsked)'
  <2>1. memory.obstacles.cycle <= cycle'
    BY <1>1, <1>4
  <2> QED
    BY <1>1, <1>3, <1>4, <2>1 DEF Well
<1>6. AllStarted(memory)'
  BY <1>1, <1>3, <1>4 DEF AllStarted
<1> QED
  BY <1>1, <1>2, <1>5, <1>6 DEF MemoryInv

LEMMA InitInv == MemoryInit => MemoryInv
<1> SUFFICES ASSUME MemoryInit PROVE MemoryInv
  OBVIOUS
<1>1. /\ cycle = 0 /\ updated = TRUE /\ given = {} /\ early = {}
      /\ memory = [robot |-> <<>>, ball |-> <<>>, both |-> <<>>, obstacles |-> [cycle |-> 0, value |-> Pure]]
  BY DEF MemoryInit
<1>2. Clock /\ Questioned
  BY <1>1, FS_EmptySet DEF Clock, Questioned
<1>3. Pure \in PureValues
  BY <1>2, ClockTypes
<1>4. memory \in Memory
  BY <1>1, <1>3 DEF Memory
<1>5. \A T : Ring(<<>>, T)
  BY MemoryAssumption DEF Ring, Current
<1>6. Well(memory, Needed, TimesAsked) /\ AllStarted(memory)
  BY <1>1, <1>4, <1>5 DEF Well, AllStarted, Current
<1> QED
  BY <1>1, <1>2, <1>6 DEF MemoryInv

LEMMA Invariance == MemorySpec => []MemoryInv
<1>1. ASSUME MemoryInv, [MemoryNext]_memoryVars PROVE MemoryInv'
  <2>1. CASE InitCycle
    BY <1>1, <2>1, NewCycleKeepsInv
  <2>2. CASE ProcessImage
    <3>1. ImageTime \in Nat
      BY <1>1, ClockTypes DEF MemoryInv
    <3>2. PICK kind \in {"robot", "both"} : Ask(Question(kind, ImageTime))
      BY <2>2 DEF ProcessImage
    <3>3. Question(kind, ImageTime) \in Questions /\ Question(kind, ImageTime).time = ImageTime
      BY <3>1 DEF Question, Questions, Kinds
    <3> QED
      BY <1>1, <2>2, <3>2, <3>3, AskKeepsInv DEF ProcessImage
  <2>3. CASE Update
    BY <1>1, <2>3, UpdateKeepsInv
  <2>4. CASE Play
    <3>1. PICK kind \in Kinds, slot \in (0 .. Slots - 1) \ {1} : Ask(Question(kind, TimeOf(slot)))
      BY <2>4 DEF Play, Kinds
    <3>2. slot \in Nat
      BY MemoryAssumption
    <3>3. TimeOf(slot) \in Nat
      BY <1>1, <3>2, ClockTypes DEF MemoryInv
    <3>4. Question(kind, TimeOf(slot)) \in Questions
      BY <3>3 DEF Question, Questions
    <3> QED
      BY <1>1, <2>4, <3>1, <3>4, AskKeepsInv DEF Play
  <2>5. CASE UNCHANGED memoryVars
    <3>1. /\ cycle' = cycle /\ updated' = updated /\ memory' = memory
          /\ given' = given /\ early' = early
      BY <2>5 DEF memoryVars
    <3>2. Clock' /\ Questioned' /\ TimesAsked' = TimesAsked /\ Needed' = Needed
      BY <1>1, <3>1 DEF MemoryInv, Clock, Questioned, TimesAsked, Needed, Extra, EarlyBoth,
                        ImageTime, TimeOf
    <3> QED
      BY <1>1, <3>1, <3>2, KeepsAll, WithinCycle DEF MemoryInv
  <2> QED
    BY <1>1, <2>1, <2>2, <2>3, <2>4, <2>5 DEF MemoryNext
<1> QED
  BY InitInv, <1>1, PTL DEF MemorySpec
-----------------------------------------------------------------------------
(* Whoever asks twice in a cycle gets the same answer, in every run, for   *)
(* rings of any size and any number of cycles, as long as the times asked  *)
(* for leave one place of the rings over.                                  *)
THEOREM AnswersAgree == MemorySpec => []SameAnswer
<1>1. MemoryInv => SameAnswer
  <2> SUFFICES ASSUME MemoryInv, Moderate, NEW g \in given
               PROVE  /\ g.question.kind = "obstacles" \/ Found(memory[g.question.kind], g.question.time) # {}
                      /\ Answer(memory, g.question) = g.value
    BY DEF SameAnswer
  <2>1. Answers(memory, g.question, g.value) /\ g.question.kind \in Kinds
    BY DEF MemoryInv, Questioned, Questions
  <2> QED
    BY <2>1 DEF Answers, Answer, Kinds
<1> QED
  BY <1>1, Invariance, PTL

(* And every interaction is followed from the latest image the filters     *)
(* knew of, although its start is held by reference.                       *)
THEOREM FollowedFromImage == MemorySpec => []StartsFromImage
<1>1. MemoryInv => StartsFromImage
  <2> SUFFICES ASSUME MemoryInv, Moderate, NEW g \in given, g.question.kind = "both"
               PROVE  Started(g.value)
    BY DEF StartsFromImage, Started
  <2>1. Found(memory.both, g.question.time) # {} /\ g.value = At(memory.both, g.question.time).value
    BY DEF MemoryInv, Answers
  <2>2. PICK i \in Found(memory.both, g.question.time) : TRUE
    BY <2>1
  <2>3. i \in Current(memory.both) /\ g.value = memory.both[i].value
    BY <2>1, <2>2, AtFound DEF MemoryInv, Well, Memory
  <2> QED
    BY <2>3 DEF MemoryInv, AllStarted
<1> QED
  BY <1>1, Invariance, PTL
-----------------------------------------------------------------------------
(* How old the answers of this cycle are, when E are the questions asked   *)
(* before the update.                                                      *)
Earlier(E, kinds, t) == \E q \in E : q.kind \in kinds /\ q.time = t
AnyBoth(E) == \E q \in E : q.kind = "both"
Young(E, k, of, t) == of = cycle \/ Earlier(E, {k, "both"}, t)
PureAges(E, k, r) ==
  \A i \in Current(r) : \/ Young(E, k, r[i].value.of, r[i].time)
                       \/ (AnyBoth(E) /\ r[i].time < ImageTime)
BothAge(E, t, v) ==
  \/ Earlier(E, {"both"}, t)
  \/ /\ Young(E, "robot", v.robot, t) /\ Young(E, "ball", v.ball, t)
     /\ Young(E, "robot", v.startRobot.of, ImageTime)
     /\ Young(E, "ball", v.startBall.of, ImageTime)
     /\ v.obstacles = cycle \/ AnyBoth(E)
BothAges(E, r) == \A i \in Current(r) : BothAge(E, r[i].time, r[i].value)
ObstacleAge(E, o) == o.cycle = cycle => o.value.of = cycle \/ AnyBoth(E)
Ages(m, E) ==
  PureAges(E, "robot", m.robot) /\ PureAges(E, "ball", m.ball) /\ ObstacleAge(E, m.obstacles)

LEMMA AgesMore ==
  ASSUME NEW E, NEW F, E \subseteq F
  PROVE  /\ \A m : Ages(m, E) => Ages(m, F)
         /\ \A r : BothAges(E, r) => BothAges(F, r)
<1>1. AnyBoth(E) => AnyBoth(F)
  BY DEF AnyBoth
<1>2. \A kinds, t : Earlier(E, kinds, t) => Earlier(F, kinds, t)
  BY DEF Earlier
<1>3. \A k, of, t : Young(E, k, of, t) => Young(F, k, of, t)
  BY <1>2 DEF Young
<1> QED
  BY <1>1, <1>2, <1>3 DEF Ages, PureAges, ObstacleAge, BothAges, BothAge

(* A pure answer given now: before the update, it was asked for.           *)
LEMMA PureAge ==
  ASSUME Clock, NEW E, NEW k, NEW t,
         ~updated => Earlier(E, {k, "both"}, t) \/ (AnyBoth(E) /\ t < ImageTime)
  PROVE  Young(E, k, Pure.of, t) \/ (AnyBoth(E) /\ t < ImageTime)
BY ClockTypes DEF Young, Estimate

LEMMA PureAgesAdd ==
  ASSUME Clock, NEW E, NEW k, NEW r, NEW s, NEW t, NEW u, PureAges(E, k, r), AddsTwo(r, s, t, u),
         ~updated => /\ Earlier(E, {k, "both"}, t) \/ (AnyBoth(E) /\ t < ImageTime)
                     /\ Earlier(E, {k, "both"}, u) \/ (AnyBoth(E) /\ u < ImageTime)
  PROVE  PureAges(E, k, s)
<1> SUFFICES ASSUME NEW j \in Current(s)
             PROVE  Young(E, k, s[j].value.of, s[j].time) \/ (AnyBoth(E) /\ s[j].time < ImageTime)
  BY DEF PureAges
<1>1. CASE \E i \in Current(r) : s[j] = r[i]
  BY <1>1 DEF PureAges
<1>2. CASE s[j].value = Pure /\ s[j].time \in {t, u}
  BY <1>2, PureAge
<1> QED
  BY <1>1, <1>2 DEF AddsTwo

LEMMA OneOrTwo == ASSUME NEW r, NEW s, NEW t, Adds(r, s, Pure, t) PROVE AddsTwo(r, s, t, t)
<1> SUFFICES ASSUME NEW j \in Current(s)
             PROVE  \/ \E i \in Current(r) : s[j] = r[i]
                    \/ (s[j].value = Pure /\ s[j].time \in {t, t})
  BY Zenon DEF AddsTwo
<1> QED
  BY DEF Adds

(* What is found for a time not before the image is young enough.          *)
LEMMA FoundYoung ==
  ASSUME NEW V, NEW r \in Seq(Entries(V)), NEW T, Ring(r, T), NEW E, NEW k, PureAges(E, k, r),
         NEW t \in Nat, t >= ImageTime, ImageTime \in Nat, Found(r, t) # {}
  PROVE  Young(E, k, At(r, t).value.of, t)
<1>1. PICK i \in Found(r, t) : TRUE
  OBVIOUS
<1>2. i \in Current(r) /\ r[i].time = t /\ At(r, t) = r[i]
  BY <1>1, AtFound
<1> QED
  BY <1>2 DEF PureAges

(* A question that may be asked: before the update it is one of E, and no  *)
(* interaction is asked for but at the time of the image.                  *)
Allowed(q, E) ==
  /\ q \in Questions /\ q.time >= ImageTime
  /\ ~updated => q \in E /\ (q.kind = "both" => q.time = ImageTime)

LEMMA FoundOutAges ==
  ASSUME Clock, NEW T, NEW U, NEW m, NEW n, NEW w, NEW E, NEW q, Allowed(q, E), q.kind = "both",
         FoundOut(m, n, w, q.time, T, U), Ages(m, E)
  PROVE  Ages(n, E) /\ (Fits(T) => BothAge(E, q.time, w))
<1> DEFINE t == q.time
           u == LatestUpdate
<1>1. /\ cycle \in Nat /\ u \in Nat /\ ImageTime \in Nat /\ t \in Nat /\ t >= ImageTime
      /\ updated => u = ImageTime
      /\ ~updated => u < ImageTime /\ Earlier(E, {"both"}, t) /\ AnyBoth(E)
  <2>1. t \in Nat /\ t >= ImageTime
    BY DEF Allowed, Questions
  <2>2. updated => u = ImageTime
    BY ClockTypes, MemoryAssumption DEF LatestUpdate, Estimate, ImageTime, TimeOf
  <2>3. ASSUME ~updated PROVE u < ImageTime
    <3>1. cycle \in Nat \ {0} /\ Slots \in Nat \ {0}
      BY <2>3, MemoryAssumption DEF Clock
    <3>2. u = Slots * (cycle - 1) /\ ImageTime = Slots * cycle + 0
      BY <2>3, <3>1 DEF LatestUpdate, Estimate, ImageTime, TimeOf
    <3>3. Slots * (cycle - 1) = Slots * cycle - Slots /\ Slots * cycle \in Nat
      BY <3>1
    <3> QED
      BY <3>1, <3>2, <3>3
  <2>4. ~updated => Earlier(E, {"both"}, t) /\ AnyBoth(E)
    BY DEF Allowed, Earlier, AnyBoth
  <2> QED
    BY <2>1, <2>2, <2>3, <2>4, ClockTypes
<1> HIDE DEF t, u
<1>2. /\ AddsTwo(m.robot, n.robot, u, t) /\ AddsTwo(m.ball, n.ball, u, t)
      /\ n.obstacles = m.obstacles \/ n.obstacles.value = Pure
      /\ w.obstacles = n.obstacles.value.of /\ n.obstacles.cycle = cycle
  BY DEF FoundOut, t, u
<1>3. \A k : Earlier(E, {"both"}, t) => Earlier(E, {k, "both"}, t)
  BY DEF Earlier
<1>4. PureAges(E, "robot", n.robot) /\ PureAges(E, "ball", n.ball)
  BY <1>1, <1>2, <1>3, PureAgesAdd DEF Ages
<1>5. ObstacleAge(E, n.obstacles)
  BY <1>1, <1>2, ClockTypes DEF Ages, ObstacleAge, Estimate
<1>6. ASSUME Fits(T) PROVE BothAge(E, t, w)
  <2>1. CASE ~updated
    BY <1>1, <2>1 DEF BothAge
  <2>2. CASE updated
    <3>1. /\ n.robot \in Seq(Entries(PureValues)) /\ Ring(n.robot, T)
          /\ n.ball \in Seq(Entries(PureValues)) /\ Ring(n.ball, T)
          /\ Found(n.robot, t) # {} /\ Found(n.ball, t) # {}
          /\ w.robot = At(n.robot, t).value.of /\ w.ball = At(n.ball, t).value.of
      BY DEF FoundOut, Well, Memory, t
    <3>2. /\ Found(n.robot, ImageTime) # {} /\ Found(n.ball, ImageTime) # {}
          /\ w.startRobot.of = At(n.robot, ImageTime).value.of
          /\ w.startBall.of = At(n.ball, ImageTime).value.of
      BY <1>1, <1>6, <2>2 DEF FoundOut, From, u
    <3>3. Young(E, "robot", w.robot, t) /\ Young(E, "ball", w.ball, t)
      BY <1>1, <1>4, <3>1, FoundYoung
    <3>4. Young(E, "robot", w.startRobot.of, ImageTime) /\ Young(E, "ball", w.startBall.of, ImageTime)
      <4>1. ImageTime >= ImageTime
        BY <1>1
      <4> QED
        BY <1>1, <1>4, <3>1, <3>2, <4>1, FoundYoung
    <3>5. w.obstacles = cycle \/ AnyBoth(E)
      BY <1>2, <1>5 DEF ObstacleAge
    <3> QED
      BY <3>3, <3>4, <3>5 DEF BothAge
  <2> QED
    BY <2>1, <2>2
<1> QED
  BY <1>4, <1>5, <1>6 DEF Ages, t

LEMMA AgesStep ==
  ASSUME Clock, NEW T, NEW U, NEW m, Well(m, T, U), NEW E, NEW q, Allowed(q, E),
         q.time \in T, q.time \in U, q.kind = "both" => LatestUpdate \in T, Ages(m, E),
         ~updated => q.kind # "obstacles"
  PROVE  /\ Ages(Asked(m, q), E)
         /\ Fits(T) /\ BothAges(E, m.both) => BothAges(E, Asked(m, q).both)
<1> DEFINE t == q.time
           n == Asked(m, q)
<1>0. /\ t \in Nat /\ q.kind \in Kinds
      /\ \A k : q.kind = k /\ ~updated => Earlier(E, {k, "both"}, t)
  BY DEF Allowed, Questions, Earlier
<1>1. CASE q.kind = "robot"
  <2>1. n = PureAsked(m, "robot", t)
    BY <1>1 DEF Asked
  <2>2. /\ n.both = m.both /\ n.ball = m.ball /\ n.obstacles = m.obstacles
        /\ Adds(m.robot, n.robot, Pure, t)
    BY <1>0, <2>1, RobotStep
  <2> HIDE DEF n
  <2>3. PureAges(E, "robot", n.robot)
    BY <1>0, <1>1, <2>2, OneOrTwo, PureAgesAdd DEF Ages
  <2> QED
    BY <2>2, <2>3 DEF Ages, n
<1>2. CASE q.kind = "ball"
  <2>1. n = PureAsked(m, "ball", t)
    BY <1>2 DEF Asked
  <2>2. /\ n.both = m.both /\ n.robot = m.robot /\ n.obstacles = m.obstacles
        /\ Adds(m.ball, n.ball, Pure, t)
    BY <1>0, <2>1, BallStep
  <2> HIDE DEF n
  <2>3. PureAges(E, "ball", n.ball)
    BY <1>0, <1>2, <2>2, OneOrTwo, PureAgesAdd DEF Ages
  <2> QED
    BY <2>2, <2>3 DEF Ages, n
<1>3. CASE q.kind = "obstacles"
  <2>1. n = ObstaclesAsked(m)
    BY <1>3 DEF Asked
  <2>2. /\ n.both = m.both /\ n.robot = m.robot /\ n.ball = m.ball
        /\ n.obstacles = m.obstacles \/ n.obstacles.value = Pure
    BY <2>1, ObstaclesStep
  <2> HIDE DEF n
  <2>3. updated /\ Pure.of = cycle
    BY <1>3, ClockTypes DEF Estimate
  <2>4. ObstacleAge(E, n.obstacles)
    BY <2>2, <2>3 DEF Ages, ObstacleAge
  <2> QED
    BY <2>2, <2>4 DEF Ages, n
<1>4. CASE q.kind = "both"
  <2>1. n = InteractedAsked(m, t)
    BY <1>4 DEF Asked
  <2>2. CASE Found(m.both, t) # {}
    BY <2>1, <2>2 DEF InteractedAsked
  <2>3. CASE Found(m.both, t) = {}
    <3> DEFINE w == Value(m, t)
               o == Exec(m, t)
    <3>1. n = Interacted(m, t)
      BY <2>1, <2>3 DEF InteractedAsked
    <3>2. /\ n.robot = o.robot /\ n.ball = o.ball /\ n.obstacles = o.obstacles
          /\ Adds(m.both, n.both, w, t)
      BY <1>0, <1>4, <2>3, <3>1, InteractedStep
    <3>3. FoundOut(m, o, w, t, T, U)
      BY <1>0, <1>4, ExecStep
    <3> HIDE DEF n, w, o
    <3>4. Ages(o, E) /\ (Fits(T) => BothAge(E, t, w))
      BY <1>4, <3>3, FoundOutAges
    <3>5. Ages(n, E)
      BY <3>2, <3>4 DEF Ages
    <3>6. ASSUME Fits(T), BothAges(E, m.both), NEW j \in Current(n.both)
          PROVE  BothAge(E, n.both[j].time, n.both[j].value)
      <4>1. CASE \E i \in Current(m.both) : n.both[j] = m.both[i]
        BY <3>6, <4>1 DEF BothAges
      <4>2. CASE n.both[j] = [cycle |-> cycle, time |-> t, value |-> w]
        BY <3>4, <3>6, <4>2
      <4> QED
        BY <3>2, <3>6, <4>1, <4>2 DEF Adds
    <3>7. Fits(T) /\ BothAges(E, m.both) => BothAges(E, n.both)
      BY <3>6 DEF BothAges
    <3> QED
      BY <3>5, <3>7 DEF n
  <2> QED
    BY <2>2, <2>3
<1> QED
  BY <1>0, <1>1, <1>2, <1>3, <1>4 DEF Kinds

AgeInv ==
  /\ \A g \in given : g.question.time >= ImageTime
  /\ Ages(memory, early)
  /\ Moderate => BothAges(early, memory.both)

LEMMA AgesWithinCycle ==
  ASSUME MemoryInv, AgeInv, cycle' = cycle, Questioned',
         TimesAsked \subseteq TimesAsked', early \subseteq early',
         \A g \in given' : g.question.time >= ImageTime,
         Ages(memory', early'),
         Fits(Needed') /\ BothAges(early', memory.both) => BothAges(early', memory'.both)
  PROVE  AgeInv'
<1>1. ImageTime' = ImageTime
  BY DEF ImageTime, TimeOf
<1>2. Ages(memory, early)'
  BY <1>1 DEF Ages, PureAges, ObstacleAge, Young, Current
<1>3. ASSUME Moderate' PROVE BothAges(early', memory'.both)
  <2>1. IsFiniteSet(TimesAsked')
    BY FiniteTimes DEF Questioned, TimesAsked
  <2>2. Cardinality(TimesAsked') + 1 <= Num
    BY <1>3 DEF Moderate
  <2>3. Moderate
    BY <2>1, <2>2, FewerTimes DEF Moderate
  <2>4. Fits(Needed')
    BY <2>1, <2>2, ModerateFits DEF Needed
  <2>5. BothAges(early', memory.both)
    BY <2>3, AgesMore DEF AgeInv
  <2> QED
    BY <2>4, <2>5
<1>4. (Moderate => BothAges(early, memory.both))'
  <2>1. BothAges(early', memory'.both) => BothAges(early, memory.both)'
    BY <1>1 DEF BothAges, BothAge, Young, Current
  <2> QED
    BY <1>3, <2>1
<1> QED
  BY <1>1, <1>2, <1>4 DEF AgeInv

LEMMA AskKeepsAges ==
  ASSUME MemoryInv, AgeInv, NEW q \in Questions, cycle > 0, Ask(q), q.time >= ImageTime,
         q.kind = "both" /\ ~updated => q.time = ImageTime,
         ~updated => q.kind # "obstacles"
  PROVE  AgeInv'
<1> DEFINE n == Asked(memory, q)
<1>1. /\ cycle' = cycle /\ memory' = n
      /\ \A g \in given' : g \in given \/ g.question = q
      /\ early' = IF updated THEN early ELSE early \union {q}
  BY DEF Ask, Given
<1> HIDE DEF n
<1>2. /\ Questioned'
      /\ TimesAsked \subseteq TimesAsked'
      /\ q.time \in TimesAsked' /\ q.time \in Needed'
      /\ q.kind = "both" => LatestUpdate \in Needed'
      /\ Well(memory, Needed', TimesAsked')
  BY AskTimes
<1>3. /\ early \subseteq early' /\ Allowed(q, early')
      /\ \A g \in given' : g.question.time >= ImageTime
  BY <1>1 DEF Allowed, AgeInv
<1>4. Ages(memory, early')
  BY <1>3, AgesMore DEF AgeInv
<1>5. /\ Ages(n, early')
      /\ Fits(Needed') /\ BothAges(early', memory.both) => BothAges(early', n.both)
  BY <1>2, <1>3, <1>4, AgesStep DEF n, MemoryInv
<1> QED
  BY <1>1, <1>2, <1>3, <1>5, AgesWithinCycle

LEMMA UpdateKeepsAges == ASSUME MemoryInv, AgeInv, Update PROVE AgeInv'
<1> DEFINE b == Question("ball", StateTime)
           r == Question("robot", StateTime)
           m == Asked(memory, b)
           n == Asked(m, r)
<1>1. /\ cycle' = cycle /\ ~updated /\ memory' = n /\ given' = given
      /\ early' = early \union {b, r}
  BY DEF Update, Asked, Question
<1>2. /\ StateTime \in Nat /\ StateTime >= ImageTime
      /\ b.kind = "ball" /\ b.time = StateTime /\ b \in Questions
      /\ r.kind = "robot" /\ r.time = StateTime /\ r \in Questions
  <2>1. StateTime \in Nat /\ StateTime >= ImageTime
    BY ClockTypes DEF MemoryInv, StateTime
  <2> QED
    BY <2>1 DEF Question, Questions, Kinds
<1> HIDE DEF b, r, m, n
<1>3. /\ Questioned' /\ TimesAsked \subseteq TimesAsked'
      /\ StateTime \in TimesAsked' /\ StateTime \in Needed'
      /\ Well(memory, Needed', TimesAsked')
  BY UpdateTimes
<1>4. early \subseteq early' /\ Allowed(b, early') /\ Allowed(r, early')
  BY <1>1, <1>2 DEF Allowed
<1>5. Ages(memory, early')
  BY <1>4, AgesMore DEF AgeInv
<1>6. Ages(m, early') /\ Well(m, Needed', TimesAsked')
      /\ (Fits(Needed') /\ BothAges(early', memory.both) => BothAges(early', m.both))
  BY <1>2, <1>3, <1>4, <1>5, AgesStep, AskedStep DEF m, MemoryInv, Done
<1>7. Ages(n, early')
      /\ (Fits(Needed') /\ BothAges(early', m.both) => BothAges(early', n.both))
  BY <1>2, <1>3, <1>4, <1>6, AgesStep DEF n, MemoryInv
<1>8. \A g \in given' : g.question.time >= ImageTime
  BY <1>1 DEF AgeInv
<1> QED
  BY <1>1, <1>3, <1>4, <1>6, <1>7, <1>8, AgesWithinCycle

LEMMA NewCycleKeepsAges == ASSUME MemoryInv, InitCycle PROVE AgeInv'
<1>1. /\ cycle' = cycle + 1 /\ memory' = memory
      /\ given' = {} /\ early' = {} /\ cycle \in Nat
  BY DEF InitCycle, MemoryInv, Clock
<1>2. /\ memory.robot \in Seq(Entries(PureValues)) /\ memory.ball \in Seq(Entries(PureValues))
      /\ memory.both \in Seq(Entries(BothValues))
      /\ Ring(memory.robot, Needed) /\ Ring(memory.ball, Needed) /\ Ring(memory.both, TimesAsked)
      /\ memory.obstacles.cycle \in Nat /\ memory.obstacles.cycle <= cycle
  BY DEF MemoryInv, Well, Memory
<1>3. Current(memory.robot)' = {} /\ Current(memory.ball)' = {} /\ Current(memory.both)' = {}
  BY <1>1, <1>2, NothingCurrent
<1>4. memory.obstacles.cycle # cycle'
  BY <1>1, <1>2
<1> QED
  BY <1>1, <1>3, <1>4 DEF AgeInv, Ages, PureAges, BothAges, ObstacleAge

LEMMA AgeInvariance == MemorySpec => []AgeInv
<1>1. MemoryInit => AgeInv
  <2> SUFFICES ASSUME MemoryInit PROVE AgeInv
    OBVIOUS
  <2>1. /\ cycle = 0 /\ given = {} /\ Pure.of = 0
        /\ memory = [robot |-> <<>>, ball |-> <<>>, both |-> <<>>, obstacles |-> [cycle |-> 0, value |-> Pure]]
    BY DEF MemoryInit, Pure, Estimate
  <2> QED
    BY <2>1 DEF AgeInv, Ages, PureAges, BothAges, ObstacleAge, Current
<1>2. ASSUME MemoryInv, AgeInv, [MemoryNext]_memoryVars PROVE AgeInv'
  <2>1. CASE InitCycle
    BY <1>2, <2>1, NewCycleKeepsAges
  <2>2. CASE ProcessImage
    <3>1. ImageTime \in Nat
      BY <1>2, ClockTypes DEF MemoryInv
    <3>2. PICK kind \in {"robot", "both"} : Ask(Question(kind, ImageTime))
      BY <2>2 DEF ProcessImage
    <3>3. /\ Question(kind, ImageTime) \in Questions /\ Question(kind, ImageTime).time = ImageTime
          /\ Question(kind, ImageTime).kind # "obstacles" /\ ImageTime >= ImageTime
      BY <3>1 DEF Question, Questions, Kinds
    <3> QED
      BY <1>2, <2>2, <3>2, <3>3, AskKeepsAges DEF ProcessImage
  <2>3. CASE Update
    BY <1>2, <2>3, UpdateKeepsAges
  <2>4. CASE Play
    <3>1. PICK kind \in Kinds, slot \in (0 .. Slots - 1) \ {1} : Ask(Question(kind, TimeOf(slot)))
      BY <2>4 DEF Play, Kinds
    <3>2. slot \in Nat
      BY MemoryAssumption
    <3>3. TimeOf(slot) \in Nat /\ TimeOf(slot) >= ImageTime
      BY <1>2, <3>2, ClockTypes DEF MemoryInv
    <3>4. Question(kind, TimeOf(slot)) \in Questions /\ Question(kind, TimeOf(slot)).time = TimeOf(slot)
      BY <3>3 DEF Question, Questions
    <3> QED
      BY <1>2, <2>4, <3>1, <3>3, <3>4, AskKeepsAges DEF Play
  <2>5. CASE UNCHANGED memoryVars
    BY <1>2, <2>5 DEF memoryVars, AgeInv, Ages, PureAges, BothAges, BothAge, ObstacleAge, Young,
                      Current, ImageTime, TimeOf, Moderate, TimesAsked
  <2> QED
    BY <1>2, <2>1, <2>2, <2>3, <2>4, <2>5 DEF MemoryNext
<1> QED
  BY <1>1, <1>2, Invariance, PTL DEF MemorySpec

(* And an answer given after the update is older than the latest image     *)
(* only where a question asked before the update made it so.               *)
THEOREM OldWhereAsked == MemorySpec => []OldOnlyIfAskedBefore
<1>1. MemoryInv /\ AgeInv => OldOnlyIfAskedBefore
  <2> SUFFICES ASSUME MemoryInv, AgeInv, Moderate, NEW g \in given
               PROVE  LET q == g.question
                          now(kind, of, t) == of = cycle \/ Before({kind, "both"}, t)
                      IN  g.late =>
                            CASE q.kind = "both" ->
                                   \/ Before({"both"}, q.time)
                                   \/ /\ now("robot", g.value.robot, q.time) /\ now("ball", g.value.ball, q.time)
                                      /\ now("robot", g.value.startRobot.of, ImageTime)
                                      /\ now("ball", g.value.startBall.of, ImageTime)
                                      /\ g.value.obstacles = cycle \/ (\E e \in early : e.kind = "both")
                              [] q.kind = "obstacles" -> g.value.of = cycle \/ (\E e \in early : e.kind = "both")
                              [] OTHER -> now(q.kind, g.value.of, q.time)
    BY DEF OldOnlyIfAskedBefore
  <2> DEFINE q == g.question
             x == g.value
  <2>1. /\ Answers(memory, q, x) /\ q \in Questions /\ q.time >= ImageTime
        /\ Ages(memory, early) /\ BothAges(early, memory.both) /\ ImageTime \in Nat
        /\ memory \in Memory
        /\ Ring(memory.robot, Needed) /\ Ring(memory.ball, Needed) /\ Ring(memory.both, TimesAsked)
    BY ClockTypes DEF MemoryInv, AgeInv, Questioned, Well
  <2>2. \A kinds, t : Before(kinds, t) <=> Earlier(early, kinds, t)
    BY DEF Before, Earlier
  <2> HIDE DEF q, x
  <2>3. q.kind \in {"robot", "ball", "both", "obstacles"} /\ q.time \in Nat
    BY <2>1 DEF Questions, Kinds
  <2>4. CASE q.kind = "robot"
    <3>1. Young(early, "robot", x.of, q.time)
      BY <2>1, <2>3, <2>4, FoundYoung DEF Answers, Memory, Ages
    <3> QED
      BY <2>2, <2>4, <3>1 DEF Young, q, x
  <2>5. CASE q.kind = "ball"
    <3>1. Young(early, "ball", x.of, q.time)
      BY <2>1, <2>3, <2>5, FoundYoung DEF Answers, Memory, Ages
    <3> QED
      BY <2>2, <2>5, <3>1 DEF Young, q, x
  <2>6. CASE q.kind = "both"
    <3>1. Found(memory.both, q.time) # {} /\ x = At(memory.both, q.time).value
      BY <2>1, <2>6 DEF Answers
    <3>2. PICK i \in Found(memory.both, q.time) : TRUE
      BY <3>1
    <3>3. memory.both \in Seq(Entries(BothValues))
      BY <2>1 DEF Memory
    <3>4. i \in Current(memory.both) /\ memory.both[i].time = q.time /\ x = memory.both[i].value
      BY <2>1, <3>1, <3>2, <3>3, AtFound
    <3>5. BothAge(early, q.time, x)
      BY <2>1, <3>4 DEF BothAges
    <3> QED
      BY <2>2, <2>6, <3>5 DEF BothAge, Young, AnyBoth, q, x
  <2>7. CASE q.kind = "obstacles"
    <3>1. x.of = cycle \/ AnyBoth(early)
      BY <2>1, <2>7 DEF Answers, Ages, ObstacleAge
    <3> QED
      BY <2>7, <3>1 DEF AnyBoth, q, x
  <2> QED
    BY <2>3, <2>4, <2>5, <2>6, <2>7
<1> QED
  BY <1>1, Invariance, AgeInvariance, PTL
=============================================================================
