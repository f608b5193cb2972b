--------------------------- MODULE LocationMemory ---------------------------
(***************************************************************************)
(* The short time memory of locations in the world model.  In every cycle  *)
(* of the control loop the positions of robot and ball are asked for       *)
(* several times; LocationShortTimeMemory keeps the latest answers in ring *)
(* buffers and finds them again by the number of the cycle and the time.   *)
(* An answer is either pure, what the filters say, or interacted: the way  *)
(* from the time of the latest image to the time asked for is followed     *)
(* among the obstacles.                                                    *)
(*                                                                         *)
(* In a cycle the image processing may ask (about the time of its image),  *)
(* then the filters are updated with what it has seen, then the player and *)
(* others ask.  A value is reduced to the number of the cycle whose image  *)
(* was the latest the filters knew of.                                     *)
(***************************************************************************)
EXTENDS Naturals, Sequences, FiniteSets

CONSTANTS
  Num,        \* size of the ring buffers
  Slots,      \* different times that are asked for in a cycle
  MaxCycles,  \* bound: cycles of the control loop
  MaxGiven    \* bound: different answers in a cycle

ASSUME MemoryAssumption == Num \in Nat \ {0, 1} /\ Slots \in Nat \ {0, 1} /\ MaxCycles \in Nat /\ MaxGiven \in Nat

VARIABLES
  cycle,       \* cycle_num
  updated,     \* has update_localisation been called in this cycle?
  memory,      \* [robot, ball: the rings of pure answers, newest first,
               \*  both: robots_interacted and balls_interacted, which are
               \*  always filled together, obstacles: the last answer]
  given,       \* history: the answers given in this cycle
  early        \* history: the questions of this cycle before the update

memoryVars == <<cycle, updated, memory, given, early>>

(* Times in milliseconds since the start; the first of a cycle is that of  *)
(* its image, the second that of the game state.                           *)
TimeOf(slot) == Slots * cycle + slot
ImageTime == TimeOf(0)
StateTime == TimeOf(1)
Estimate == IF updated \/ cycle = 0 THEN cycle ELSE cycle - 1
LatestUpdate == Slots * Estimate
Pure == [of |-> Estimate]

MemoryInit ==
  /\ cycle = 0 /\ updated = TRUE
  /\ memory = [robot |-> <<>>, ball |-> <<>>, both |-> <<>>, obstacles |-> [cycle |-> 0, value |-> Pure]]
  /\ given = {} /\ early = {}
-----------------------------------------------------------------------------
(* mutant: only the newest entry is looked at                              *)
FoundNewest(ring, t) == {i \in DOMAIN ring : i = 1 /\ ring[i].cycle = cycle /\ ring[i].time = t}

(* search_ringbuffer; RingBuffer::step(-1) and the new entry in the place  *)
(* of the oldest one.                                                      *)
Found(ring, t) == {i \in DOMAIN ring : ring[i].cycle = cycle /\ ring[i].time = t}
Put(ring, value, t) ==
  LET entry == [cycle |-> cycle, time |-> t, value |-> value]
  IN  SubSeq(<<entry>> \o ring, 1, IF Len(ring) < Num THEN Len(ring) + 1 ELSE Num)
At(ring, t) == ring[CHOOSE i \in Found(ring, t) : \A j \in Found(ring, t) : i <= j]

PureAsked(m, k, t) ==
  IF Found(m[k], t) # {} THEN m ELSE [m EXCEPT ![k] = Put(@, Pure, t)]

(* mutants: the obstacles are taken over once and for all; the reference   *)
(* is what has just been put in                                            *)
ObstaclesAskedOnce(m) ==
  IF m.obstacles.cycle # 0 THEN m ELSE [m EXCEPT !.obstacles = [cycle |-> cycle, value |-> Pure]]
ReferredNewest(before, after, t) == after[1]

(* get_obstacle_location: the time does not matter.                        *)
ObstaclesAsked(m) ==
  IF m.obstacles.cycle = cycle THEN m
  ELSE [m EXCEPT !.obstacles = [cycle |-> cycle, value |-> Pure]]

(* What a reference to the answer for t refers to when the ring may have   *)
(* been stepped since: its place may have been filled anew.                *)
Referred(before, after, t) ==
  LET i == CHOOSE i \in Found(before, t) : \A j \in Found(before, t) : i <= j
  IN  IF after = before THEN before[i]
      ELSE IF i = Num THEN after[1] ELSE after[i + 1]

(* get_interacted                                                          *)
Interacted(m, t) ==
  LET seen == ObstaclesAsked(PureAsked(PureAsked(m, "robot", LatestUpdate), "ball", LatestUpdate))
      exec == PureAsked(PureAsked(seen, "robot", t), "ball", t)
      origin(k) == LET e == Referred(seen[k], exec[k], LatestUpdate) IN [time |-> e.time, of |-> e.value.of]
      value == [robot |-> At(exec.robot, t).value.of, ball |-> At(exec.ball, t).value.of,
                obstacles |-> exec.obstacles.value.of,
                startRobot |-> origin("robot"), startBall |-> origin("ball"), seen |-> LatestUpdate]
  IN  [exec EXCEPT !.both = Put(@, value, t)]
InteractedAsked(m, t) == IF Found(m.both, t) # {} THEN m ELSE Interacted(m, t)

Asked(m, q) ==
  CASE q.kind = "both" -> InteractedAsked(m, q.time)
    [] q.kind = "obstacles" -> ObstaclesAsked(m)
    [] OTHER -> PureAsked(m, q.kind, q.time)
Answer(m, q) == IF q.kind = "obstacles" THEN m.obstacles.value ELSE At(m[q.kind], q.time).value

Question(kind, t) == [kind |-> kind, time |-> t]
Given(m, q) == [question |-> q, late |-> updated, value |-> Answer(m, q)]

(* A question put to the world model.                                      *)
Ask(q) ==
  /\ Cardinality(given) < MaxGiven
  /\ memory' = Asked(memory, q)
  /\ given' = given \union {Given(memory', q)}
  /\ early' = IF updated THEN early ELSE early \union {q}
  /\ UNCHANGED <<cycle, updated>>
-----------------------------------------------------------------------------
(* The control loop starts a cycle.                                        *)
InitCycle ==
  /\ updated /\ cycle < MaxCycles
  /\ cycle' = cycle + 1 /\ updated' = FALSE
  /\ given' = {} /\ early' = {}
  /\ UNCHANGED memory

(* process_image: for a ball pure positions, for a goal interacted ones.   *)
ProcessImage ==
  /\ cycle > 0 /\ ~updated
  /\ \E kind \in {"robot", "both"} : Ask(Question(kind, ImageTime))

(* update: the game state asks for robot and ball, then the filters are    *)
(* brought up to date.  Nothing is removed from the memory.                *)
Update ==
  /\ cycle > 0 /\ ~updated
  /\ updated' = TRUE
  /\ memory' = PureAsked(PureAsked(memory, "ball", StateTime), "robot", StateTime)
  /\ early' = early \union {Question("ball", StateTime), Question("robot", StateTime)}
  /\ UNCHANGED <<cycle, given>>

(* The log, the player and whoever else asks; the time of the game state   *)
(* has passed.                                                             *)
Play ==
  /\ cycle > 0 /\ updated
  /\ \E kind \in {"robot", "ball", "both", "obstacles"}, slot \in (0 .. Slots - 1) \ {1} :
       Ask(Question(kind, TimeOf(slot)))

MemoryNext == InitCycle \/ ProcessImage \/ Update \/ Play

MemorySpec == MemoryInit /\ [][MemoryNext]_memoryVars
-----------------------------------------------------------------------------
(* The pure answers of a cycle are for the times asked for and that of the *)
(* latest image, or of the one before if this one was asked about.         *)
TimesAsked == {g.question.time : g \in given} \union {q.time : q \in early}
Moderate == Cardinality(TimesAsked) + 1 <= Num

(* Whoever asks twice in a cycle gets the same answer: all parts of the    *)
(* player decide on the same picture, and the references they keep are     *)
(* not overwritten.                                                        *)
SameAnswer ==
  Moderate => \A g \in given :
    /\ g.question.kind = "obstacles" \/ Found(memory[g.question.kind], g.question.time) # {}
    /\ Answer(memory, g.question) = g.value

(* The interaction is followed from the latest image, although its start   *)
(* is a reference into a ring that is stepped meanwhile.                   *)
StartsFromImage ==
  Moderate => \A g \in given : g.question.kind = "both" =>
    g.value.startRobot.time = g.value.seen /\ g.value.startBall.time = g.value.seen

(* How old an answer after the update can be: the pure part is older only  *)
(* for a time asked about before the update, the start only if the time of *)
(* the image was, the obstacles only if any interaction was.               *)
Before(kinds, t) == \E q \in early : q.kind \in kinds /\ q.time = t
OldOnlyIfAskedBefore ==
  Moderate => \A g \in given :
    LET q == g.question
        now(kind, of, t) == of = cycle \/ Before({kind, "both"}, t)
    IN  g.late =>
          CASE q.kind = "both" ->
                 \/ Before({"both"}, q.time)
                 \/ /\ now("robot", g.value.robot, q.time) /\ now("ball", g.value.ball, q.time)
                    /\ now("robot", g.value.startRobot.of, ImageTime)
                    /\ now("ball", g.value.startBall.of, ImageTime)
                    /\ g.value.obstacles = cycle \/ (\E e \in early : e.kind = "both")
            [] q.kind = "obstacles" -> g.value.of = cycle \/ (\E e \in early : e.kind = "both")
            [] OTHER -> now(q.kind, g.value.of, q.time)
=============================================================================
