----------------------------- MODULE BallFilter -----------------------------
(***************************************************************************)
(* DynamicSlidingWindowBallFilter: which observations of the ball are kept *)
(* for the motion model, in a DynamicRingBuffer that grows and shrinks,    *)
(* and when the ball counts as known, raised, communicated or unknown.     *)
(*                                                                         *)
(* Positions are left out: how well an observation fits and how fast the   *)
(* model makes the ball is chosen freely.  An entry of the ring buffer is  *)
(* reduced to the number of observations taken in since.  Time passes in   *)
(* half seconds, with any number of observations in each.                  *)
(***************************************************************************)
EXTENDS Naturals, Sequences

CONSTANTS
  FirstNodes,   \* size of the ring buffer when it is created
  MinBuffer,    \* min_buffer_size
  MaxBuffer     \* max_buffer_size

ASSUME BallAssumption ==
  /\ FirstNodes \in Nat \ {0} /\ MinBuffer \in Nat \ {0, 1} /\ MaxBuffer \in Nat
  /\ MinBuffer <= MaxBuffer

VARIABLES
  posList,       \* the ring buffer
  firstCall,
  latestError,   \* is latest_error another than 0?
  raised,        \* ball_raised
  refAge,        \* half seconds since ref_time
  modelAge,      \* half seconds since latest_motion_model
  commAge,       \* half seconds since comm_ball_pos_time
  confirmed,     \* history: observations taken since the last implausible speed
  calm           \* history: slow observations in the field, without a gap, in a row

ballVars == <<posList, firstCall, latestError, raised, refAge, modelAge, commAge, confirmed, calm>>

Least(a, b) == IF a < b THEN a ELSE b
-----------------------------------------------------------------------------
(* DynamicRingBuffer: nodes linked in a ring, the anchor and the node      *)
(* before it, and a list of nodes that are not used.  It may be created    *)
(* with more nodes than are ever in use.                                   *)
Most == IF FirstNodes > MaxBuffer THEN FirstNodes ELSE MaxBuffer
Nodes == 1..Most
Ring(n) ==
  [size |-> n, anchor |-> 1, pred |-> n, empty |-> 0,
   next |-> [k \in Nodes |-> IF k < n THEN k + 1 ELSE IF k = n THEN 1 ELSE 0],
   elem |-> [k \in Nodes |-> 0]]

Stepped(r) == [r EXCEPT !.pred = r.next[@], !.anchor = r.next[r.next[r.pred]]]
Overwritten(r, e) == [r EXCEPT !.elem[r.anchor] = e]

(* mutant: the new node is linked in behind the anchor                     *)
InsertedBehind(r, e) ==
  LET node == IF r.empty # 0 THEN r.empty ELSE r.size + 1
  IN  [r EXCEPT !.size = @ + 1, !.empty = IF @ # 0 THEN r.next[@] ELSE 0,
                !.elem[node] = e, !.next[r.anchor] = node, !.next[node] = r.next[r.anchor]]

(* The new node becomes the anchor.                                        *)
Inserted(r, e) ==
  LET node == IF r.empty # 0 THEN r.empty ELSE r.size + 1
  IN  [r EXCEPT !.size = @ + 1, !.empty = IF @ # 0 THEN r.next[@] ELSE 0,
                !.elem[node] = e, !.anchor = node,
                !.next = [@ EXCEPT ![r.pred] = node, ![node] = r.anchor]]

Erased(r) ==
  IF r.size > 1
  THEN [r EXCEPT !.size = @ - 1, !.empty = r.anchor, !.anchor = r.next[r.anchor],
                 !.next = [@ EXCEPT ![r.pred] = r.next[r.anchor], ![r.anchor] = r.empty]]
  ELSE r

(* mutant: nothing is removed                                              *)
ShortenedNot(r, n) == r

(* rescale_ring_buffer                                                     *)
Shortened(r, n) ==
  LET after[k \in 0..Most] == IF k = 0 THEN r ELSE Erased(after[k - 1])
  IN  after[IF r.size > n THEN r.size - n ELSE 0]

(* get(0), get(1), ...                                                     *)
Listed(r) ==
  LET node[k \in 0..Most] == IF k = 0 THEN r.anchor ELSE r.next[node[k - 1]]
  IN  [k \in 1 .. r.size |-> r.elem[node[k - 1]]]
-----------------------------------------------------------------------------
(* All times start with the construction of the filter; latest_error has   *)
(* no initial value.                                                       *)
BallInit ==
  /\ posList = Shortened(Ring(FirstNodes), 1)
  /\ firstCall = TRUE /\ raised = FALSE
  /\ latestError \in BOOLEAN
  /\ refAge = 0 /\ modelAge = 0 /\ commAge = 0
  /\ confirmed = MinBuffer /\ calm = 0

(* One more observation lies behind every entry.                           *)
Older(r) == [r EXCEPT !.elem = [k \in Nodes |-> Least(Most, @[k] + 1)]]

(* After a second without any the earlier observations are forgotten.      *)
StartsAnew == firstCall \/ refAge > 2
TakenIn(r) ==
  IF StartsAnew THEN Overwritten(Shortened(r, 1), 0)
  ELSE Stepped(IF r.size < MaxBuffer THEN Inserted(r, 0) ELSE Overwritten(r, 0))

(* mutant: one observation too few is kept                                 *)
ConsideredFewer(r, misfit) == IF misfit THEN Shortened(r, MinBuffer - 1) ELSE r

(* The latest observations no longer fit the model.                        *)
Misfit(fit, again) == fit = "far" \/ (fit = "off" /\ latestError /\ again)
Considered(r, misfit) == IF misfit THEN Shortened(r, MinBuffer) ELSE r

(* A model with a speed no ball has is thrown away, and the time of the    *)
(* reference is put back.                                                  *)
Implausible(list) ==
  /\ posList' = Shortened(list, 1)
  /\ firstCall' = TRUE /\ raised' = TRUE
  /\ UNCHANGED <<refAge, modelAge>>
  /\ confirmed' = 0 /\ calm' = 0

(* The model counts when it is learned from enough observations; a raised  *)
(* ball has to be slow before it counts.                                   *)
Plausible(list, speed) ==
  LET enough == list.size >= MinBuffer
      doubted == raised /\ speed # "slow"
  IN  /\ firstCall' = FALSE /\ refAge' = 0
      /\ posList' = IF enough /\ doubted THEN Shortened(list, MinBuffer) ELSE list
      /\ modelAge' = IF enough /\ ~doubted THEN 0 ELSE modelAge
      /\ raised' = (raised /\ ~(enough /\ ~doubted))
      /\ confirmed' = Least(MinBuffer, confirmed + 1)
      /\ calm' = IF speed = "slow" THEN Least(MinBuffer, IF refAge > 2 THEN 1 ELSE calm + 1) ELSE 0

(* update: a ball in the field.  Of a single observation no model is made. *)
Seen(fit, again, speed) ==
  LET misfit == Misfit(fit, again)
      list == Considered(TakenIn(Older(posList)), misfit)
  IN  /\ latestError' = ~misfit
      /\ IF speed = "fast" /\ list.size > 1 THEN Implausible(list) ELSE Plausible(list, speed)
      /\ UNCHANGED commAge

(* update: a ball outside of the field.                                    *)
SeenOutside ==
  /\ raised' = TRUE /\ calm' = 0
  /\ UNCHANGED <<posList, firstCall, latestError, refAge, modelAge, commAge, confirmed>>

CommBall ==
  /\ commAge' = 0
  /\ UNCHANGED <<posList, firstCall, latestError, raised, refAge, modelAge, confirmed, calm>>

HalfSecond ==
  /\ refAge' = Least(3, refAge + 1) /\ modelAge' = Least(4, modelAge + 1) /\ commAge' = Least(2, commAge + 1)
  /\ UNCHANGED <<posList, firstCall, latestError, raised, confirmed, calm>>

BallNext ==
  \/ \E fit \in {"fits", "off", "far"}, again \in BOOLEAN, speed \in {"slow", "medium", "fast"} :
       Seen(fit, again, speed)
  \/ SeenOutside \/ CommBall \/ HalfSecond

BallSpec == BallInit /\ [][BallNext]_ballVars

(* get, for the present time                                               *)
PosKnown ==
  LET own == IF modelAge >= 4 THEN "unknown" ELSE IF raised THEN "raised" ELSE "known"
  IN  IF (own = "unknown" \/ (own = "raised" /\ modelAge >= 2)) /\ commAge < 2
      THEN "communicated" ELSE own
-----------------------------------------------------------------------------
(* However the ring grows, wraps around and is cut back, it holds the      *)
(* latest observations without a gap, the oldest at the anchor, where the  *)
(* next one is put in or the next cut begins.                              *)
BufferIsLatest ==
  /\ posList.size \in 1..MaxBuffer /\ (firstCall => posList.size = 1)
  /\ Listed(posList) = [k \in 1 .. posList.size |-> posList.size - k]

(* A ball is not taken for the ball of the game again before the fewest    *)
(* observations that make a model have come since it moved as no ball can. *)
RaisedNeedsObservations == [][raised /\ ~raised' => confirmed' >= MinBuffer]_ballVars

(* Whatever came before, as many slow observations in a row make the ball  *)
(* known, even when they do not fit the model, and it is as old as the     *)
(* latest of them.                                                         *)
CalmBallIsKnown == calm >= MinBuffer /\ refAge < 3 => PosKnown = "known" /\ modelAge = refAge
=============================================================================
