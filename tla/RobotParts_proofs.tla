------------------------- MODULE RobotParts_proofs --------------------------
(***************************************************************************)
(* Proofs about two parts of the program of a robot: the ramp of the wheel *)
(* speeds, for any finite number of wheels and any speeds and limits, and  *)
(* the ring buffer of the ball filter, for any length of it.  RobotControl *)
(* is extended for its ramp of one wheel only.                             *)
(***************************************************************************)
EXTENDS RobotControl, WheelRamp, BallFilter, NumberLemmas, FiniteSetTheorems, TLAPS

Vectors == [Wheels -> Int]

LEMMA MagnitudeType == \A x \in Int : Magnitude(x) \in Nat
BY DEF Magnitude

(* The largest magnitude is that of a wheel, and none is larger.           *)
LEMMA LargestIsLargest ==
  ASSUME IsFiniteSet(Wheels), NEW v \in Vectors
  PROVE  /\ Largest(v) \in Nat
         /\ \A w \in Wheels : Magnitude(v[w]) <= Largest(v)
<1> DEFINE S == {Magnitude(v[w]) : w \in Wheels}
<1>1. S \in SUBSET Nat /\ S # {}
  <2>1. \A w \in Wheels : Magnitude(v[w]) \in Nat
    BY DEF Vectors, Magnitude
  <2> QED
    BY <2>1, RampAssumption
<1>2. IsFiniteSet(S)
  <2> DEFINE f == [w \in Wheels |-> Magnitude(v[w])]
  <2>1. S = {f[w] : w \in Wheels}
    OBVIOUS
  <2>2. f \in [Wheels -> S]
    OBVIOUS
  <2>3. \A s \in S : \E w \in Wheels : f[w] = s
    OBVIOUS
  <2> HIDE DEF f, S
  <2>4. f \in Surjection(Wheels, S)
    BY <2>2, <2>3 DEF Surjection
  <2> QED
    BY <2>4, FS_Surjection
<1>3. \E m \in S : \A w \in Wheels : Magnitude(v[w]) <= m
  <2>1. PICK m \in S : \A n \in S : n <= m
    BY <1>1, <1>2, LargestIsThere
  <2> QED
    BY <2>1
<1>4. Largest(v) \in S /\ \A w \in Wheels : Magnitude(v[w]) <= Largest(v)
  BY <1>3 DEF Largest
<1> QED
  BY <1>1, <1>4
-----------------------------------------------------------------------------
(* What is within a bound stays so when it is multiplied.                  *)
LEMMA TimesBound ==
  ASSUME NEW a \in Int, NEW b \in Nat, NEW k \in Nat, Magnitude(a) <= b
  PROVE  k * a \in Int /\ k * b \in Nat /\ Magnitude(k * a) <= k * b
<1>1. -b <= a /\ a <= b
  BY DEF Magnitude
<1>2. -(k * b) <= k * a /\ k * a <= k * b
  <2>1. k * a <= k * b /\ k * (-b) <= k * a
    BY <1>1
  <2> QED
    BY <2>1
<1>3. k * a \in Int /\ k * b \in Nat
  OBVIOUS
<1> QED
  BY <1>2, <1>3 DEF Magnitude

(* A: no wheel is to run faster than MaxVel.                               *)
LEMMA ScaledFits ==
  ASSUME IsFiniteSet(Wheels), NEW v \in Vectors
  PROVE  /\ Scaled(v).den \in Nat \ {0}
         /\ Scaled(v).num \in Vectors
         /\ \A w \in Wheels : Magnitude(Scaled(v).num[w]) <= Scaled(v).den * MaxVel
<1>1. Largest(v) \in Nat /\ \A w \in Wheels : Magnitude(v[w]) <= Largest(v)
  BY LargestIsLargest
<1>2. MaxVel \in Nat \ {0} /\ \A w \in Wheels : v[w] \in Int
  BY RampAssumption DEF Vectors
<1>3. CASE Largest(v) > MaxVel
  <2>1. Scaled(v) = [num |-> [w \in Wheels |-> MaxVel * v[w]], den |-> Largest(v)]
    BY <1>3 DEF Scaled, Over, Times
  <2>2. \A w \in Wheels : /\ MaxVel * v[w] \in Int
                          /\ Magnitude(MaxVel * v[w]) <= MaxVel * Largest(v)
    BY <1>1, <1>2, TimesBound
  <2>3. MaxVel * Largest(v) = Largest(v) * MaxVel
    BY <1>1, <1>2
  <2>4. Largest(v) \in Nat \ {0}
    BY <1>1, <1>2, <1>3
  <2> QED
    BY <2>1, <2>2, <2>3, <2>4 DEF Vectors
<1>4. CASE ~(Largest(v) > MaxVel)
  <2>1. Scaled(v) = [num |-> v, den |-> 1]
    BY <1>4 DEF Scaled, Over
  <2>2. \A w \in Wheels : Magnitude(v[w]) <= 1 * MaxVel
    <3>1. Largest(v) <= MaxVel
      BY <1>1, <1>2, <1>4
    <3>2. ASSUME NEW w \in Wheels PROVE Magnitude(v[w]) <= 1 * MaxVel
      <4>1. Magnitude(v[w]) \in Nat /\ Magnitude(v[w]) <= Largest(v)
        BY <1>1, <1>2, MagnitudeType
      <4> QED
        BY <1>1, <1>2, <3>1, <4>1
    <3> QED
      BY <3>2
  <2> QED
    BY <2>1, <2>2
<1> QED
  BY <1>3, <1>4

(* B: the limit is that of the case, and positive.                         *)
LEMMA LimitFits ==
  ASSUME NEW speedsUp
  PROVE  /\ Limit(speedsUp) \in Nat \ {0}
         /\ (\A w \in Wheels : speedsUp[w]) => Limit(speedsUp) = MaxAcc
         /\ (\A w \in Wheels : ~speedsUp[w]) => Limit(speedsUp) = MaxDeacc
BY RampAssumption DEF Limit

(* A change by a multiple goes the same way.                               *)
LEMMA SameWay ==
  ASSUME NEW k \in Nat \ {0}, NEW d \in Int, NEW o \in Int
  PROVE  (k * d) * o > 0 <=> d * o > 0
<1> DEFINE p == d * o
<1>1. p \in Int /\ (k * d) * o = k * p
  OBVIOUS
<1> HIDE DEF p
<1>2. k * p > 0 <=> p > 0
  BY <1>1
<1> QED
  BY <1>1, <1>2 DEF p

(* How result and goal are related: of the change that is wanted, multi-   *)
(* plied by den, the result has the part lim / top, or all of it.          *)
Part(res, from, goal, den, k) ==
  \A w \in Wheels : res.num[w] - res.den * from[w] = k * (goal[w] - den * from[w])

LEMMA ChangedFits ==
  ASSUME IsFiniteSet(Wheels), NEW from \in Vectors, NEW goal \in Vectors,
         NEW den \in Nat \ {0}, NEW limit \in Nat \ {0},
         \A w \in Wheels : Magnitude(from[w]) <= MaxVel /\ Magnitude(goal[w]) <= den * MaxVel
  PROVE  LET diff == [w \in Wheels |-> goal[w] - den * from[w]]
             res == Changed(from, diff, den, limit)
         IN  /\ res.den \in Nat \ {0} /\ res.num \in Vectors
             /\ \E k \in Nat \ {0} : Part(res, from, goal, den, k)
             /\ \A w \in Wheels :
                  /\ Magnitude(res.num[w] - res.den * from[w]) <= res.den * limit
                  /\ Magnitude(res.num[w]) <= res.den * MaxVel
<1> DEFINE diff == [w \in Wheels |-> goal[w] - den * from[w]]
           D == Largest(diff)
           res == Changed(from, diff, den, limit)
<1>1. ASSUME NEW w \in Wheels PROVE from[w] \in Int /\ goal[w] \in Int /\ diff[w] \in Int
  <2>1. from[w] \in Int /\ goal[w] \in Int
    BY DEF Vectors
  <2>2. den * from[w] \in Int
    BY <2>1
  <2> QED
    BY <2>1, <2>2
<1>2. MaxVel \in Nat /\ limit \in Nat /\ limit * den \in Nat \ {0}
  BY RampAssumption
<1>3. D \in Nat /\ \A w \in Wheels : Magnitude(diff[w]) <= D
  <2>1. diff \in Vectors
    BY <1>1 DEF Vectors
  <2> QED
    BY <2>1, LargestIsLargest
<1>4. CASE D > limit * den
  <2>1. res = [num |-> [w \in Wheels |-> D * from[w] + limit * diff[w]], den |-> D]
    BY <1>4 DEF Changed, Over
  <2> HIDE DEF D, res
  <2>2. D \in Nat \ {0}
    BY <1>2, <1>3, <1>4
  <2>3. ASSUME NEW w \in Wheels
        PROVE  /\ res.num[w] \in Int
               /\ res.num[w] - res.den * from[w] = limit * (goal[w] - den * from[w])
               /\ Magnitude(res.num[w] - res.den * from[w]) <= res.den * limit
               /\ Magnitude(res.num[w]) <= res.den * MaxVel
    <3> DEFINE f == from[w]
               g == goal[w]
               d == diff[w]
    <3>1. f \in Int /\ g \in Int /\ d \in Int /\ d = g - den * f
      BY <1>1
    <3>2. res.num[w] = D * f + limit * d /\ res.den = D
      BY <2>1
    <3>3. Magnitude(f) <= MaxVel /\ Magnitude(g) <= den * MaxVel /\ Magnitude(d) <= D
      BY <1>3
    <3> HIDE DEF f, g, d
    <3>4. (D * f + limit * d) - D * f = limit * d /\ D * f + limit * d \in Int
      <4>1. D * f \in Int /\ limit * d \in Int
        BY <2>2, <3>1
      <4> QED
        BY <4>1
    <3>5. Magnitude(limit * d) <= D * limit
      <4>1. limit * d \in Int /\ limit * D \in Nat /\ Magnitude(limit * d) <= limit * D
        BY <2>2, <3>1, <3>3, TimesBound
      <4>3. limit * D = D * limit /\ limit * D \in Nat
        BY <1>2, <2>2
      <4>4. Magnitude(limit * d) \in Nat
        BY <4>1 DEF Magnitude
      <4> QED
        BY <4>1, <4>3, <4>4
    <3>6. Magnitude(D * f + limit * d) <= D * MaxVel
      <4> DEFINE rest == D - limit * den
      <4>1. rest \in Nat
        BY <1>2, <1>4, <2>2
      <4>2. D * f + limit * d = rest * f + limit * g
        <5>1. limit * d = limit * g - (limit * den) * f
          BY <3>1
        <5>2. rest * f = D * f - (limit * den) * f
          BY <1>2, <2>2, <3>1
        <5>3. D * f \in Int /\ limit * g \in Int /\ (limit * den) * f \in Int
          BY <1>2, <2>2, <3>1
        <5> HIDE DEF rest
        <5> QED
          BY <5>1, <5>2, <5>3
      <4>3. rest * MaxVel + limit * (den * MaxVel) = D * MaxVel
        <5>1. rest * MaxVel = D * MaxVel - (limit * den) * MaxVel
          BY <1>2, <2>2
        <5>2. limit * (den * MaxVel) = (limit * den) * MaxVel
          BY <1>2
        <5>3. D * MaxVel \in Int /\ (limit * den) * MaxVel \in Int
          BY <1>2, <2>2
        <5> HIDE DEF rest
        <5> QED
          BY <5>1, <5>2, <5>3
      <4> HIDE DEF rest
      <4>4. rest * f \in Int /\ rest * MaxVel \in Nat /\ Magnitude(rest * f) <= rest * MaxVel
        BY <1>2, <3>1, <3>3, <4>1, TimesBound
      <4>5. /\ limit * g \in Int /\ limit * (den * MaxVel) \in Nat
            /\ Magnitude(limit * g) <= limit * (den * MaxVel)
        <5>1. den * MaxVel \in Nat
          BY <1>2
        <5> QED
          BY <3>1, <3>3, <5>1, TimesBound
      <4> QED
        BY <4>2, <4>3, <4>4, <4>5 DEF Magnitude
    <3> QED
      BY <3>1, <3>2, <3>4, <3>5, <3>6 DEF f, g, d
  <2>4. res.num \in Vectors
    BY <2>1, <2>3 DEF Vectors
  <2>5. Part(res, from, goal, den, limit)
    BY <2>3 DEF Part
  <2>6. res.den \in Nat \ {0}
    BY <2>1, <2>2
  <2> QED
    BY <2>3, <2>4, <2>5, <2>6 DEF res
<1>5. CASE ~(D > limit * den)
  <2>1. res = [num |-> [w \in Wheels |-> den * from[w] + diff[w]], den |-> den]
    BY <1>5 DEF Changed, Over
  <2> HIDE DEF D, res
  <2>2. D <= den * limit
    <3>1. D <= limit * den
      BY <1>2, <1>3, <1>5
    <3>2. limit * den = den * limit
      BY <1>2
    <3>3. den * limit \in Nat
      BY <1>2
    <3> QED
      BY <1>2, <1>3, <3>1, <3>2, <3>3
  <2>3. ASSUME NEW w \in Wheels
        PROVE  /\ res.num[w] = goal[w] /\ res.den = den
               /\ res.num[w] - res.den * from[w] = 1 * (goal[w] - den * from[w])
               /\ Magnitude(res.num[w] - res.den * from[w]) <= res.den * limit
    <3>1. res.num[w] = den * from[w] + diff[w] /\ res.den = den
      BY <2>1
    <3>2. from[w] \in Int /\ goal[w] \in Int /\ den * from[w] \in Int
      BY <1>1
    <3>3. diff[w] = goal[w] - den * from[w] /\ Magnitude(diff[w]) <= D
      BY <1>3
    <3>4. res.num[w] = goal[w] /\ res.num[w] - res.den * from[w] = diff[w]
      BY <3>1, <3>2, <3>3
    <3>5. Magnitude(diff[w]) \in Nat /\ den * limit \in Nat
      BY <1>1, <1>2 DEF Magnitude
    <3>6. Magnitude(diff[w]) <= den * limit
      BY <1>3, <2>2, <3>3, <3>5
    <3> QED
      BY <3>1, <3>2, <3>3, <3>4, <3>6
  <2>4. res.num = goal
    BY <2>1, <2>3 DEF Vectors
  <2>5. Part(res, from, goal, den, 1)
    BY <2>3 DEF Part
  <2>6. res.den = den /\ 1 \in Nat \ {0}
    BY <2>1
  <2>7. /\ res.den \in Nat \ {0} /\ res.num \in Vectors
        /\ \E k \in Nat \ {0} : Part(res, from, goal, den, k)
        /\ \A w \in Wheels :
             /\ Magnitude(res.num[w] - res.den * from[w]) <= res.den * limit
             /\ Magnitude(res.num[w]) <= res.den * MaxVel
    BY <2>3, <2>4, <2>5, <2>6
  <2> QED
    BY <2>7 DEF res
<1> QED
  BY <1>4, <1>5
-----------------------------------------------------------------------------
(* Before the ramp has been computed the result is what the wheels do.     *)
RampInv ==
  /\ old \in Vectors /\ new \in Vectors
  /\ \A w \in Wheels : Magnitude(old[w]) <= MaxVel
  /\ done \in BOOLEAN
  /\ result = IF done THEN RealizableVelVec(old, new) ELSE Over(old, 1)

LEMMA RampHolds == RampSpec => []RampInv
<1>1. RampInit => RampInv
  BY RampAssumption DEF RampInit, RampInv, Vectors
<1>2. RampInv /\ [Ramp]_rampVars => RampInv'
  <2> SUFFICES ASSUME RampInv, [Ramp]_rampVars PROVE RampInv'
    OBVIOUS
  <2>1. CASE Ramp
    <3>1. old' = old /\ new' = new /\ done' = TRUE /\ result' = RealizableVelVec(old, new)
      BY <2>1 DEF Ramp
    <3>2. result' = IF done' THEN RealizableVelVec(old, new)' ELSE Over(old, 1)'
      BY <3>1 DEF RealizableVelVec, Scaled
    <3> QED
      BY <3>1, <3>2 DEF RampInv
  <2>2. CASE UNCHANGED rampVars
    <3>1. old' = old /\ new' = new /\ done' = done /\ result' = result
      BY <2>2 DEF rampVars
    <3>2. /\ RealizableVelVec(old, new)' = RealizableVelVec(old, new)
          /\ Over(old, 1)' = Over(old, 1)
      BY <3>1 DEF RealizableVelVec, Scaled, Over
    <3> QED
      BY <3>1, <3>2, Zenon DEF RampInv
  <2> QED
    BY <2>1, <2>2
<1> QED
  BY <1>1, <1>2, PTL DEF RampSpec

(* What get_realizable_vel_vec returns, for wheels that run at speeds they *)
(* can reach.                                                              *)
LEMMA Reachable ==
  ASSUME IsFiniteSet(Wheels), RampInv, done
  PROVE  LET goal == Scaled(new)
         IN  /\ goal.den \in Nat \ {0} /\ goal.num \in Vectors
             /\ \E k \in Nat \ {0} : Part(result, old, goal.num, goal.den, k)
             /\ WithinLimits
<1> DEFINE goal == Scaled(new)
           diff == [w \in Wheels |-> goal.num[w] - goal.den * old[w]]
           speedsUp == [w \in Wheels |-> diff[w] * old[w] > 0]
           limit == Limit(speedsUp)
<1>1. /\ goal.den \in Nat \ {0} /\ goal.num \in Vectors
      /\ \A w \in Wheels : Magnitude(goal.num[w]) <= goal.den * MaxVel
  BY ScaledFits DEF RampInv
<1>2. /\ limit \in Nat \ {0}
      /\ (\A w \in Wheels : speedsUp[w]) => limit = MaxAcc
      /\ (\A w \in Wheels : ~speedsUp[w]) => limit = MaxDeacc
  BY LimitFits
<1>3. result = Changed(old, diff, goal.den, limit)
  BY DEF RampInv, RealizableVelVec
<1>4. old \in Vectors /\ \A w \in Wheels : Magnitude(old[w]) <= MaxVel
  BY DEF RampInv
<1> HIDE DEF goal, limit
<1>5. /\ \E k \in Nat \ {0} : Part(result, old, goal.num, goal.den, k)
      /\ \A w \in Wheels :
           /\ Magnitude(result.num[w] - result.den * old[w]) <= result.den * limit
           /\ Magnitude(result.num[w]) <= result.den * MaxVel
  BY <1>1, <1>2, <1>3, <1>4, ChangedFits
<1>6. \A w \in Wheels : SpeedsUp(w) <=> speedsUp[w]
  <2>1. PICK k \in Nat \ {0} : Part(result, old, goal.num, goal.den, k)
    BY <1>5
  <2> TAKE w \in Wheels
  <2>2. old[w] \in Int /\ diff[w] \in Int /\ diff[w] = goal.num[w] - goal.den * old[w]
    BY <1>1, <1>4 DEF Vectors
  <2>3. Change(w) = k * diff[w]
    BY <2>1, <2>2 DEF Part, Change
  <2>4. (k * diff[w]) * old[w] > 0 <=> diff[w] * old[w] > 0
    BY <2>2, SameWay
  <2> QED
    BY <2>3, <2>4 DEF SpeedsUp
<1>7. ChangeAtMost(limit)
  BY <1>5 DEF ChangeAtMost, Change
<1>8. WithinLimits
  BY <1>2, <1>5, <1>6, <1>7 DEF WithinLimits
<1> QED
  BY <1>1, <1>5, <1>8 DEF goal

(* Whatever is wished for, no wheel has to run faster than the motors can, *)
(* so the robot never leaves the speeds the next call relies on; if all    *)
(* wheels get faster none changes by more than it may when accelerating,   *)
(* and if none gets faster by no more than when braking.                   *)
THEOREM StaysWithinLimits == ASSUME IsFiniteSet(Wheels) PROVE RampSpec => []WithinLimits
<1>1. RampInv => WithinLimits
  <2> SUFFICES ASSUME RampInv PROVE WithinLimits
    OBVIOUS
  <2>1. CASE done
    BY <2>1, Reachable
  <2>2. CASE ~done
    <3>1. result = [num |-> old, den |-> 1] /\ {MaxVel, MaxAcc, MaxDeacc} \subseteq Nat
      BY <2>2, RampAssumption DEF RampInv, Over
    <3>2. ASSUME NEW w \in Wheels
          PROVE  Change(w) = 0 /\ Magnitude(result.num[w]) <= result.den * MaxVel
      <4>1. old[w] \in Int /\ Magnitude(old[w]) <= MaxVel
        BY DEF RampInv, Vectors
      <4> QED
        BY <3>1, <4>1 DEF Change, Magnitude
    <3>3. \A limit \in {MaxAcc, MaxDeacc} : ChangeAtMost(limit)
      BY <3>1, <3>2 DEF ChangeAtMost, Magnitude
    <3> QED
      BY <3>2, <3>3 DEF WithinLimits
  <2> QED
    BY <2>1, <2>2
<1> QED
  BY <1>1, RampHolds, PTL

(* The wheels change in the proportion in which they would have to, and    *)
(* all of them towards the goal: the robot turns and drives on the line to *)
(* the wanted vector.                                                      *)
THEOREM StaysOnPath == ASSUME IsFiniteSet(Wheels) PROVE RampSpec => []KeepsThePath
<1>1. RampInv => KeepsThePath
  <2> DEFINE goal == Scaled(new)
             wanted == [w \in Wheels |-> goal.num[w] - goal.den * old[w]]
  <2> SUFFICES ASSUME RampInv, done
               PROVE  /\ \A w, x \in Wheels : Change(w) * wanted[x] = Change(x) * wanted[w]
                      /\ \A w \in Wheels : wanted[w] # 0 => Change(w) * wanted[w] > 0
    BY DEF KeepsThePath
  <2>1. /\ goal.den \in Nat \ {0} /\ goal.num \in Vectors
        /\ \E k \in Nat \ {0} : Part(result, old, goal.num, goal.den, k)
    BY Reachable
  <2> HIDE DEF goal
  <2>2. PICK k \in Nat \ {0} : Part(result, old, goal.num, goal.den, k)
    BY <2>1
  <2>3. ASSUME NEW w \in Wheels PROVE Change(w) = k * wanted[w] /\ wanted[w] \in Int
    <3>1. old[w] \in Int /\ goal.num[w] \in Int
      BY <2>1 DEF RampInv, Vectors
    <3>2. goal.den * old[w] \in Int
      BY <2>1, <3>1
    <3> QED
      BY <2>2, <3>1, <3>2 DEF Part, Change
  <2> HIDE DEF wanted
  <2>4. ASSUME NEW w \in Wheels, NEW x \in Wheels
        PROVE  Change(w) * wanted[x] = Change(x) * wanted[w]
    <3>1. \A a, b \in Int : (k * a) * b = (k * b) * a
      OBVIOUS
    <3> QED
      BY <2>3, <3>1
  <2>5. ASSUME NEW w \in Wheels, wanted[w] # 0 PROVE Change(w) * wanted[w] > 0
    <3>1. ASSUME NEW a \in Int, a # 0 PROVE (k * a) * a > 0
      <4>1. a * a \in Int /\ a * a > 0
        BY <3>1
      <4>2. (k * a) * a = k * (a * a)
        OBVIOUS
      <4>3. k * (a * a) > 0
        BY <4>1
      <4> QED
        BY <4>2, <4>3
    <3> QED
      BY <2>3, <2>5, <3>1
  <2> QED
    BY <2>4, <2>5
<1> QED
  BY <1>1, RampHolds, PTL

(* If all wheels are as fast, the largest magnitude is that of each.       *)
LEMMA SameEverywhere ==
  ASSUME NEW o \in Int, NEW v \in [Wheels -> Int], \A w \in Wheels : v[w] = o
  PROVE  Largest(v) = Magnitude(o)
<1>1. PICK x \in Wheels : TRUE
  BY RampAssumption
<1>2. {Magnitude(v[w]) : w \in Wheels} = {Magnitude(o)}
  BY <1>1
<1>3. \A w \in Wheels : Magnitude(v[w]) <= Magnitude(o)
  <2>1. Magnitude(o) \in Int /\ \A w \in Wheels : Magnitude(v[w]) = Magnitude(o)
    BY DEF Magnitude
  <2>2. Magnitude(o) <= Magnitude(o)
    BY <2>1
  <2> QED
    BY <2>1, <2>2, Zenon
<1> QED
  BY <1>2, <1>3 DEF Largest

(* RobotControl computes the ramp for one wheel, in dt cycles, and lets it *)
(* stand for all.  This is what get_realizable_vel_vec returns for every   *)
(* wheel if all run as fast and are to change as much, as when the robot   *)
(* turns on the spot.                                                      *)
THEOREM OneWheelStandsForAll ==
  ASSUME NEW dt \in Nat, MaxAcc = dt * Acc, MaxDeacc = dt * Deacc,
         NEW o \in Int, NEW n \in Int, Magnitude(n) <= MaxVel
  PROVE  LET r == RealizableVelVec([w \in Wheels |-> o], [w \in Wheels |-> n])
         IN  \A w \in Wheels : r.num[w] = r.den * Realizable(o, n, dt)
<1> DEFINE from == [w \in Wheels |-> o]
           to == [w \in Wheels |-> n]
           d == n - o
           diff == [w \in Wheels |-> 1 * n - 1 * o]
           limit == IF d * o > 0 THEN MaxAcc ELSE MaxDeacc
<1>1. Scaled(to) = Over(to, 1)
  <2>1. Largest(to) = Magnitude(n)
    BY SameEverywhere
  <2>2. Magnitude(n) \in Int /\ MaxVel \in Int
    BY RampAssumption DEF Magnitude
  <2> QED
    BY <2>1, <2>2 DEF Scaled
<1> DEFINE wanted == [w \in Wheels |-> Scaled(to).num[w] - Scaled(to).den * from[w]]
           up == [w \in Wheels |-> wanted[w] * from[w] > 0]
<1>2. wanted \in [Wheels -> Int] /\ (\A w \in Wheels : wanted[w] = d) /\ Scaled(to).den = 1
  BY <1>1 DEF Over
<1>3. Limit(up) = limit
  <2>1. \A w \in Wheels : up[w] = (d * o > 0)
    BY <1>2
  <2>2. Wheels # {}
    BY RampAssumption
  <2> HIDE DEF up
  <2>3. CASE d * o > 0
    BY <2>1, <2>2, <2>3 DEF Limit
  <2>4. CASE ~ (d * o > 0)
    BY <2>1, <2>2, <2>4 DEF Limit
  <2> QED
    BY <2>3, <2>4
<1>4. RealizableVelVec(from, to) = Changed(from, wanted, 1, limit)
  BY <1>2, <1>3 DEF RealizableVelVec
<1>5. limit \in Nat \ {0} /\ d \in Int
  BY RampAssumption
<1>6. Largest(wanted) = Magnitude(d)
  <2> HIDE DEF wanted
  <2> QED
    BY <1>2, <1>5, SameEverywhere
<1>7. Realizable(o, n, dt) = IF Magnitude(d) <= limit THEN n ELSE IF d > 0 THEN o + limit ELSE o - limit
  <2>1. dt * (IF d * o > 0 THEN Acc ELSE Deacc) = limit
    OBVIOUS
  <2>2. Abs(n - o) = Magnitude(d)
    BY DEF Abs, Magnitude
  <2>3. n > o <=> d > 0
    OBVIOUS
  <2> HIDE DEF limit
  <2> QED
    BY <2>1, <2>2, <2>3 DEF Realizable
<1> DEFINE r == RealizableVelVec(from, to)
<1> HIDE DEF wanted, limit, d, r
<1>8. CASE Magnitude(d) <= limit
  <2>1. r = Over([w \in Wheels |-> 1 * from[w] + wanted[w]], 1)
    BY <1>4, <1>5, <1>6, <1>8 DEF Changed, r, Magnitude
  <2>2. r.den = 1 /\ \A w \in Wheels : r.num[w] = 1 * o + d
    BY <1>2, <2>1 DEF Over
  <2>3. 1 * o + d = 1 * n
    BY DEF d
  <2> QED
    BY <1>7, <1>8, <2>2, <2>3 DEF r
<1>9. CASE ~ (Magnitude(d) <= limit)
  <2>1. r = Over([w \in Wheels |-> Magnitude(d) * from[w] + limit * wanted[w]], Magnitude(d))
    BY <1>4, <1>5, <1>6, <1>9 DEF Changed, r, Magnitude
  <2>2. \A w \in Wheels : r.num[w] = Magnitude(d) * o + limit * d
    BY <1>2, <2>1 DEF Over
  <2>3. r.den = Magnitude(d)
    BY <2>1 DEF Over
  <2>4. Magnitude(d) * o + limit * d = Magnitude(d) * (IF d > 0 THEN o + limit ELSE o - limit)
    BY <1>5, <1>9 DEF Magnitude
  <2> QED
    BY <1>7, <1>9, <2>2, <2>3, <2>4 DEF r
<1> QED
  BY <1>8, <1>9 DEF r
-----------------------------------------------------------------------------
(* The ring buffer of the ball filter.                                     *)
Rings == [size : Nat, anchor : Nat, pred : Nat, empty : Nat,
          next : [Nodes -> Nat], elem : [Nodes -> Nat]]

(* Every node that is made has its place.                                  *)
LEMMA MostType == Most \in Nat /\ FirstNodes <= Most /\ MaxBuffer <= Most
  BY BallAssumption DEF Most

(* The nodes 1 to m have been made: s goes through those in the ring, from *)
(* the anchor on, and then through those that are free.                    *)
Way(m, s) == s \in [1..m -> 1..m] /\ \A j, k \in 1..m : s[j] = s[k] => j = k
InRing(r, s) ==
  /\ r.anchor = s[1] /\ r.pred = s[r.size] /\ r.next[s[r.size]] = s[1]
  /\ \A k \in 1 .. r.size - 1 : r.next[s[k]] = s[k + 1]
NotUsed(r, m, s) ==
  /\ r.empty = IF r.size = m THEN 0 ELSE s[r.size + 1]
  /\ \A k \in r.size + 1 .. m - 1 : r.next[s[k]] = s[k + 1]
  /\ r.size < m => r.next[s[m]] = 0
Path(r, m, s) ==
  r \in Rings /\ m \in Nodes /\ Way(m, s) /\ r.size \in 1..m /\ InRing(r, s) /\ NotUsed(r, m, s)

(* From the anchor on each element is one less than that before it, and    *)
(* the last of them is d.                                                  *)
Falling(r, s, d) == \A k \in 1 .. r.size : r.elem[s[k]] = r.size - k + d
Kept(d) == {r \in Rings : \E m \in Nodes : \E s \in [1..m -> 1..m] : Path(r, m, s) /\ Falling(r, s, d)}

(* The first becomes the last of the ring.                                 *)
Rotated(n, m, s) == [k \in 1..m |-> IF k < n THEN s[k + 1] ELSE IF k = n THEN s[1] ELSE s[k]]

(* Each node is still gone through once.                                   *)
LEMMA RotatedWay ==
  ASSUME NEW m \in Nodes, NEW s, Way(m, s), NEW n \in 1..m
  PROVE  /\ Way(m, Rotated(n, m, s))
         /\ \A k \in 1 .. n - 1 : Rotated(n, m, s)[k] = s[k + 1]
         /\ Rotated(n, m, s)[n] = s[1]
         /\ \A k \in n + 1 .. m : Rotated(n, m, s)[k] = s[k]
<1> DEFINE q == Rotated(n, m, s)
<1>1. m \in Nat \ {0} /\ n \in Nat \ {0} /\ n <= m
  BY MostType DEF Nodes
<1>2. \A k \in 1 .. n - 1 : k \in 1..m /\ k + 1 \in 1..m /\ q[k] = s[k + 1]
  BY <1>1 DEF Rotated
<1>3. q[n] = s[1] /\ 1 \in 1..m /\ n \in 1..m
  BY <1>1 DEF Rotated
<1>4. \A k \in n + 1 .. m : k \in 1..m /\ q[k] = s[k]
  BY <1>1 DEF Rotated
<1>5. q \in [1..m -> 1..m]
  BY <1>1 DEF Rotated, Way
<1>6. ASSUME NEW j \in 1..m, NEW k \in 1..m, q[j] = q[k] PROVE j = k
  <2> DEFINE place(x) == IF x < n THEN x + 1 ELSE IF x = n THEN 1 ELSE x
  <2>1. place(j) \in 1..m /\ place(k) \in 1..m /\ q[j] = s[place(j)] /\ q[k] = s[place(k)]
    BY <1>1 DEF Rotated
  <2>2. place(j) = place(k)
    BY <1>6, <2>1 DEF Way
  <2> QED
    BY <1>1, <2>2
<1> HIDE DEF q
<1> QED
  BY <1>2, <1>3, <1>4, <1>5, <1>6 DEF Way, q

(* What is known of a ring by its type.                                    *)
LEMMA PathTypes ==
  ASSUME NEW r, NEW m, NEW s, Path(r, m, s)
  PROVE  /\ m \in Nat \ {0} /\ m <= Most /\ Most \in Nat
         /\ r.size \in Nat \ {0} /\ r.size <= m
         /\ \A k \in 1..m : s[k] \in Nodes /\ s[k] \in Nat \ {0} /\ s[k] <= m
         /\ r.next \in [Nodes -> Nat] /\ r.elem \in [Nodes -> Nat]
         /\ Way(m, s) /\ InRing(r, s) /\ NotUsed(r, m, s)
<1>1. m \in Nat \ {0} /\ m <= Most /\ Most \in Nat
  BY MostType DEF Path, Nodes
<1>2. r.size \in Nat \ {0} /\ r.size <= m
  BY <1>1 DEF Path
<1>3. \A k \in 1..m : s[k] \in 1..m
  BY DEF Path, Way
<1>4. \A k \in 1..m : s[k] \in Nodes /\ s[k] \in Nat \ {0} /\ s[k] <= m
  BY <1>1, <1>3 DEF Nodes
<1>5. r.next \in [Nodes -> Nat] /\ r.elem \in [Nodes -> Nat]
  BY DEF Path, Rings
<1> QED
  BY <1>1, <1>2, <1>4, <1>5 DEF Path

(* RingBuffer::step                                                        *)
LEMMA SteppedPath ==
  ASSUME NEW r, NEW m, NEW s, Path(r, m, s)
  PROVE  /\ Path(Stepped(r), m, Rotated(r.size, m, s))
         /\ Stepped(r).size = r.size /\ Stepped(r).elem = r.elem
<1> DEFINE n == r.size
           q == Rotated(n, m, s)
           x == Stepped(r)
<1>1. /\ m \in Nat \ {0} /\ n \in Nat \ {0} /\ n <= m /\ m \in Nodes /\ n \in 1..m
      /\ Way(m, s) /\ InRing(r, s) /\ NotUsed(r, m, s) /\ r \in Rings
      /\ \A k \in 1..m : s[k] \in Nodes /\ s[k] \in Nat
  BY PathTypes DEF Path
<1> HIDE DEF x, q, n
<1>2. /\ Way(m, q)
      /\ \A k \in 1 .. n - 1 : q[k] = s[k + 1]
      /\ q[n] = s[1]
      /\ \A k \in n + 1 .. m : q[k] = s[k]
  BY <1>1, RotatedWay DEF q
<1> USE DEF n, x
<1>3. r.next[r.pred] = s[1] /\ r.next[s[1]] = q[1]
  <2>1. CASE n = 1
    BY <1>1, <1>2, <2>1 DEF InRing
  <2>2. CASE n # 1
    BY <1>1, <1>2, <2>2 DEF InRing
  <2> QED
    BY <1>1, <2>1, <2>2 DEF InRing
<1>4. /\ x.size = n /\ x.empty = r.empty /\ x.next = r.next /\ x.elem = r.elem
      /\ x.pred = s[1] /\ x.anchor = q[1] /\ x \in Rings
  <2>1. s[1] \in Nat /\ q[1] \in Nat /\ 1 \in 1..m
    <3>1. 1 \in 1..m /\ q[1] \in 1..m
      BY <1>1, <1>2 DEF Way
    <3> QED
      BY <1>1, <3>1
  <2> QED
    BY <1>1, <1>3, <2>1 DEF Stepped, Rings
<1> HIDE DEF x, q, n
<1>5. ASSUME NEW k \in 1 .. n - 1 PROVE r.next[q[k]] = q[k + 1]
  <2>1. CASE k + 1 = n
    BY <1>1, <1>2, <2>1 DEF InRing, n
  <2>2. CASE k + 1 # n
    <3>1. k + 1 \in 1 .. n - 1
      BY <1>1, <2>2
    <3> QED
      BY <1>1, <1>2, <3>1 DEF InRing, n
  <2> QED
    BY <2>1, <2>2
<1>6. InRing(x, q)
  BY <1>2, <1>3, <1>4, <1>5 DEF InRing
<1>7. NotUsed(x, m, q)
  <2>1. r.empty = IF n = m THEN 0 ELSE q[n + 1]
    BY <1>1, <1>2 DEF NotUsed, n
  <2>2. \A k \in n + 1 .. m - 1 : r.next[q[k]] = q[k + 1]
    BY <1>1, <1>2 DEF NotUsed, n
  <2>3. n < m => r.next[q[m]] = 0
    BY <1>1, <1>2 DEF NotUsed, n
  <2> QED
    BY <1>4, <2>1, <2>2, <2>3 DEF NotUsed
<1> QED
  BY <1>1, <1>2, <1>4, <1>6, <1>7 DEF Path, x, q, n

(* DynamicRingBuffer::erase                                                *)
LEMMA ErasedPath ==
  ASSUME NEW r, NEW m, NEW s, Path(r, m, s), r.size > 1
  PROVE  /\ Path(Erased(r), m, Rotated(r.size, m, s))
         /\ Erased(r).size = r.size - 1 /\ Erased(r).elem = r.elem
<1> DEFINE n == r.size
           q == Rotated(n, m, s)
           x == Erased(r)
<1>1. /\ m \in Nat \ {0} /\ n \in Nat \ {0} /\ n <= m /\ m \in Nodes /\ n \in 1..m /\ n > 1
      /\ Way(m, s) /\ InRing(r, s) /\ NotUsed(r, m, s) /\ r \in Rings
      /\ \A k \in 1..m : s[k] \in Nodes /\ s[k] \in Nat
  BY PathTypes DEF Path
<1> HIDE DEF x, q, n
<1>2. /\ Way(m, q)
      /\ \A k \in 1 .. n - 1 : q[k] = s[k + 1]
      /\ q[n] = s[1]
      /\ \A k \in n + 1 .. m : q[k] = s[k]
  BY <1>1, RotatedWay DEF q
<1> USE DEF n, x
<1>3. r.next[r.anchor] = s[2] /\ s[2] = q[1] /\ 2 \in 1..m /\ s[1] # s[n] /\ 1 \in 1..m
  <2>1. 1 \in 1 .. n - 1 /\ 1 \in 1..m /\ 2 \in 1..m /\ n \in 1..m /\ 1 # n /\ 1 + 1 = 2
    BY <1>1
  <2>2. r.next[s[1]] = s[2] /\ r.anchor = s[1]
    BY <1>1, <2>1 DEF InRing
  <2>3. s[1] # s[n]
    BY <1>1, <2>1 DEF Way
  <2> QED
    BY <1>2, <2>1, <2>2, <2>3
<1>4. /\ x.size = n - 1 /\ x.empty = s[1] /\ x.anchor = q[1] /\ x.pred = s[n]
      /\ x.next = [r.next EXCEPT ![s[n]] = s[2], ![s[1]] = r.empty]
      /\ x.elem = r.elem /\ x \in Rings
  <2>1. /\ r.anchor = s[1] /\ r.pred = s[n] /\ r.empty \in Nat
        /\ s[1] \in Nat /\ s[2] \in Nat /\ s[n] \in Nat /\ r.next \in [Nodes -> Nat]
    BY <1>1, <1>3 DEF InRing, Rings
  <2> DEFINE links == [r.next EXCEPT ![s[n]] = s[2], ![s[1]] = r.empty]
  <2>2. x = [r EXCEPT !.size = n - 1, !.empty = s[1], !.anchor = s[2], !.next = links]
    BY <1>1, <1>3, <2>1 DEF Erased, Rings
  <2>3. links \in [Nodes -> Nat]
    BY <2>1
  <2>4. n - 1 \in Nat
    BY <1>1
  <2> HIDE DEF x, links, n
  <2>5. /\ x.size = n - 1 /\ x.empty = s[1] /\ x.anchor = s[2] /\ x.pred = r.pred
        /\ x.next = links /\ x.elem = r.elem /\ x \in Rings
    BY <1>1, <2>1, <2>2, <2>3, <2>4 DEF Rings
  <2> QED
    BY <1>3, <2>1, <2>5 DEF links
<1>5. /\ x.next[s[n]] = s[2] /\ x.next[s[1]] = r.empty
      /\ \A k \in 1..m : k # 1 /\ k # n => x.next[s[k]] = r.next[s[k]]
  <2>1. r.next \in [Nodes -> Nat]
    BY <1>1 DEF Rings
  <2>2. \A k \in 1..m : (k # 1 => s[k] # s[1]) /\ (k # n => s[k] # s[n])
    BY <1>1, <1>3 DEF Way
  <2> QED
    BY <1>1, <1>3, <1>4, <2>1, <2>2
<1> HIDE DEF x, q, n
<1>6. InRing(x, q)
  <2>1. x.anchor = q[1] /\ x.pred = q[n - 1] /\ x.next[q[n - 1]] = q[1]
    BY <1>1, <1>2, <1>3, <1>4, <1>5
  <2>2. ASSUME NEW k \in 1 .. (n - 1) - 1 PROVE x.next[q[k]] = q[k + 1]
    <3>1. k + 1 \in 1..m /\ k + 1 # 1 /\ k + 1 # n /\ k + 1 \in 1 .. n - 1 /\ k \in 1 .. n - 1
      BY <1>1
    <3>2. r.next[s[k + 1]] = s[(k + 1) + 1]
      BY <1>1, <3>1 DEF InRing, n
    <3> QED
      BY <1>2, <1>5, <3>1, <3>2
  <2> QED
    BY <1>4, <2>1, <2>2 DEF InRing
<1>7. NotUsed(x, m, q)
  <2>1. x.empty = IF n - 1 = m THEN 0 ELSE q[(n - 1) + 1]
    BY <1>1, <1>2, <1>4
  <2>2. ASSUME NEW k \in (n - 1) + 1 .. m - 1 PROVE x.next[q[k]] = q[k + 1]
    <3>1. CASE k = n
      <4>1. n # m /\ n + 1 \in n + 1 .. m
        BY <1>1, <3>1
      <4>2. r.empty = s[n + 1]
        BY <1>1, <4>1 DEF NotUsed, n
      <4> QED
        BY <1>2, <1>5, <3>1, <4>1, <4>2
    <3>2. CASE k # n
      <4>1. k \in n + 1 .. m - 1 /\ k \in n + 1 .. m /\ k + 1 \in n + 1 .. m /\ k \in 1..m /\ k # 1
        BY <1>1, <3>2
      <4>2. r.next[s[k]] = s[k + 1]
        BY <1>1, <4>1 DEF NotUsed, n
      <4> QED
        BY <1>2, <1>5, <3>2, <4>1, <4>2
    <3> QED
      BY <3>1, <3>2
  <2>3. x.next[q[m]] = 0
    <3>1. CASE n = m
      BY <1>1, <1>2, <1>5, <3>1 DEF NotUsed, n
    <3>2. CASE n # m
      <4>1. m \in n + 1 .. m /\ m \in 1..m /\ m # 1 /\ n < m
        BY <1>1, <3>2
      <4> QED
        BY <1>1, <1>2, <1>5, <3>2, <4>1 DEF NotUsed, n
    <3> QED
      BY <3>1, <3>2
  <2> QED
    BY <1>4, <2>1, <2>2, <2>3 DEF NotUsed
<1>8. x.size \in 1..m
  BY <1>1, <1>4
<1> QED
  BY <1>1, <1>2, <1>4, <1>6, <1>7, <1>8 DEF Path, x, q, n

(* Where the next node comes from: s goes on with the node that is taken,  *)
(* the first of the free ones or one that is made.                         *)
Continued(r, s, i, t) ==
  /\ Way(i, t) /\ InRing(r, t) /\ r.size + 1 <= i
  /\ t[r.size + 1] = IF r.empty # 0 THEN r.empty ELSE r.size + 1
  /\ (IF r.empty # 0 THEN r.next[r.empty] ELSE 0) = IF r.size + 1 = i THEN 0 ELSE t[r.size + 2]
  /\ \A k \in r.size + 2 .. i - 1 : r.next[t[k]] = t[k + 1]
  /\ r.size + 1 < i => r.next[t[i]] = 0
  /\ \A k \in 1 .. r.size : t[k] = s[k]

(* Such a continuation exists as long as the ring may grow.                *)
LEMMA NextNode ==
  ASSUME NEW r, NEW m, NEW s, Path(r, m, s), r.size < Most
  PROVE  \E i \in Nodes : \E t \in [1..i -> 1..i] : Continued(r, s, i, t)
<1> DEFINE n == r.size
<1>1. /\ m \in Nat \ {0} /\ n \in Nat \ {0} /\ n <= m /\ m \in Nodes /\ n \in 1..m
      /\ Way(m, s) /\ InRing(r, s) /\ NotUsed(r, m, s) /\ r \in Rings
      /\ m <= Most /\ Most \in Nat
      /\ \A k \in 1..m : s[k] \in Nodes /\ s[k] \in Nat \ {0} /\ s[k] <= m
  BY PathTypes DEF Path
<1> HIDE DEF n
<1>2. CASE n < m
  <2>1. n + 1 \in 1..m /\ n + 1 <= m /\ n # m /\ s \in [1..m -> 1..m]
    BY <1>1, <1>2 DEF Way
  <2>2. r.empty = s[n + 1] /\ r.empty # 0
    BY <1>1, <1>2, <2>1 DEF NotUsed, n
  <2>3. r.next[r.empty] = IF n + 1 = m THEN 0 ELSE s[n + 2]
    <3>1. CASE n + 1 = m
      BY <1>1, <2>2, <3>1 DEF NotUsed, n
    <3>2. CASE n + 1 # m
      <4>1. n + 1 \in n + 1 .. m - 1 /\ (n + 1) + 1 = n + 2
        BY <1>1, <1>2, <3>2
      <4>2. r.next[s[n + 1]] = s[n + 2]
        BY <1>1, <4>1 DEF NotUsed, n
      <4> QED
        BY <2>2, <3>2, <4>2
    <3> QED
      BY <3>1, <3>2
  <2>4. /\ \A k \in n + 2 .. m - 1 : r.next[s[k]] = s[k + 1]
        /\ n + 1 < m => r.next[s[m]] = 0
    BY <1>1, <1>2 DEF NotUsed, n
  <2> QED
    BY <1>1, <2>1, <2>2, <2>3, <2>4 DEF Continued, n
<1>3. CASE n = m
  <2> DEFINE t == [k \in 1 .. n + 1 |-> IF k = n + 1 THEN n + 1 ELSE s[k]]
  <2>1. n + 1 \in Nodes /\ n + 1 <= n + 1 /\ r.empty = 0
    BY <1>1, <1>3 DEF Nodes, NotUsed, n
  <2>2. t[n + 1] = n + 1 /\ \A k \in 1..n : t[k] = s[k] /\ s[k] # n + 1
    BY <1>1, <1>3
  <2>3. t \in [1 .. n + 1 -> 1 .. n + 1]
    BY <1>1, <1>3
  <2> HIDE DEF t
  <2>4. Way(n + 1, t)
    <3>1. ASSUME NEW j \in 1 .. n + 1, NEW k \in 1 .. n + 1, t[j] = t[k] PROVE j = k
      <4>1. (j \in 1..n \/ j = n + 1) /\ (k \in 1..n \/ k = n + 1)
        BY <1>1
      <4>2. \A h, i \in 1..n : s[h] = s[i] => h = i
        BY <1>1, <1>3 DEF Way
      <4> QED
        BY <2>2, <3>1, <4>1, <4>2
    <3> QED
      BY <2>3, <3>1 DEF Way
  <2>5. InRing(r, t)
    <3>1. 1 \in 1..n /\ n \in 1..n /\ \A k \in 1 .. n - 1 : k \in 1..n /\ k + 1 \in 1..n
      BY <1>1
    <3>2. r.anchor = t[1] /\ r.pred = t[n] /\ r.next[t[n]] = t[1]
      BY <1>1, <2>2, <3>1 DEF InRing, n
    <3>3. \A k \in 1 .. n - 1 : r.next[t[k]] = t[k + 1]
      BY <1>1, <2>2, <3>1 DEF InRing, n
    <3> QED
      BY <3>2, <3>3 DEF InRing, n
  <2>6. \A k \in n + 2 .. (n + 1) - 1 : FALSE
    BY <1>1
  <2>7. ~ (n + 1 < n + 1)
    BY <1>1
  <2> QED
    BY <1>1, <2>1, <2>2, <2>3, <2>4, <2>5, <2>6, <2>7 DEF Continued, n
<1>4. n < m \/ n = m
  BY <1>1
<1> QED
  BY <1>2, <1>3, <1>4

(* The node with number n + 1 becomes the first of the ring.               *)
Taken(n, m, s) == [k \in 1..m |-> IF k = 1 THEN s[n + 1] ELSE IF k <= n + 1 THEN s[k - 1] ELSE s[k]]

(* Each node is still gone through once.                                   *)
LEMMA TakenWay ==
  ASSUME NEW m \in Nodes, NEW s, Way(m, s), NEW n \in 1 .. m - 1
  PROVE  /\ Way(m, Taken(n, m, s))
         /\ Taken(n, m, s)[1] = s[n + 1]
         /\ \A k \in n + 2 .. m : Taken(n, m, s)[k] = s[k]
<1> DEFINE q == Taken(n, m, s)
<1>1. m \in Nat \ {0} /\ n \in Nat \ {0} /\ n + 1 <= m
  BY MostType DEF Nodes
<1>2. q[1] = s[n + 1]
  BY <1>1 DEF Taken
<1>4. \A k \in n + 2 .. m : q[k] = s[k]
  BY <1>1 DEF Taken
<1>5. q \in [1..m -> 1..m]
  BY <1>1 DEF Taken, Way
<1>6. ASSUME NEW j \in 1..m, NEW k \in 1..m, q[j] = q[k] PROVE j = k
  <2> DEFINE place(x) == IF x = 1 THEN n + 1 ELSE IF x <= n + 1 THEN x - 1 ELSE x
  <2>1. place(j) \in 1..m /\ place(k) \in 1..m /\ q[j] = s[place(j)] /\ q[k] = s[place(k)]
    BY <1>1 DEF Taken
  <2>2. place(j) = place(k)
    BY <1>6, <2>1 DEF Way
  <2> QED
    BY <1>1, <2>2
<1> HIDE DEF q
<1> QED
  BY <1>2, <1>4, <1>5, <1>6 DEF Way, q

(* x is r with e put in before the others.                                 *)
Grown(r, s, e, x, q) ==
  /\ x.size = r.size + 1 /\ x.elem[q[1]] = e
  /\ \A k \in 1 .. r.size : x.elem[q[k + 1]] = r.elem[s[k]]

(* DynamicRingBuffer::insert                                               *)
LEMMA InsertedPath ==
  ASSUME NEW r, NEW m, NEW s, Path(r, m, s), r.size < Most, NEW e \in Nat
  PROVE  \E i \in Nodes : \E q \in [1..i -> 1..i] :
           Path(Inserted(r, e), i, q) /\ Grown(r, s, e, Inserted(r, e), q)
<1> DEFINE n == r.size
           x == Inserted(r, e)
<1>1. n \in Nat \ {0} /\ r \in Rings /\ Most \in Nat /\ n < Most
  BY PathTypes DEF Path
<1> DEFINE node == IF r.empty # 0 THEN r.empty ELSE n + 1
           rest == IF r.empty # 0 THEN r.next[r.empty] ELSE 0
<1> HIDE DEF x, n, node, rest
<1>2a. PICK i \in Nodes : \E t \in [1..i -> 1..i] : Continued(r, s, i, t)
  BY <1>1, NextNode DEF n
<1>2b. PICK t \in [1..i -> 1..i] : Continued(r, s, i, t)
  BY <1>2a
<1>2. /\ Way(i, t) /\ InRing(r, t) /\ n + 1 <= i
      /\ t[n + 1] = node
      /\ rest = IF n + 1 = i THEN 0 ELSE t[n + 2]
      /\ \A k \in n + 2 .. i - 1 : r.next[t[k]] = t[k + 1]
      /\ n + 1 < i => r.next[t[i]] = 0
      /\ \A k \in 1 .. n : t[k] = s[k]
  BY <1>2b DEF Continued, n, node, rest
<1> DEFINE q == Taken(n, i, t)
<1> HIDE DEF q
<1>3. /\ Way(i, q) /\ q[1] = t[n + 1]
      /\ \A k \in 1..n : q[k + 1] = t[k]
      /\ \A k \in n + 2 .. i : q[k] = t[k]
  <2>1. n \in 1 .. i - 1 /\ Way(i, t) /\ i \in Nodes
    BY <1>1, <1>2 DEF Nodes
  <2>2. Way(i, Taken(n, i, t)) /\ Taken(n, i, t)[1] = t[n + 1]
    BY <2>1, TakenWay
  <2>3. ASSUME NEW k \in 1..n PROVE Taken(n, i, t)[k + 1] = t[k]
    <3>1. i \in Nat /\ n \in Nat /\ n + 1 <= i
      BY <1>1, <1>2 DEF Nodes
    <3> QED
      BY <3>1 DEF Taken
  <2>4. \A k \in n + 2 .. i : Taken(n, i, t)[k] = t[k]
    BY <2>1, TakenWay
  <2> QED
    BY <2>2, <2>3, <2>4 DEF q
<1>4. i \in Nat \ {0} /\ i <= Most /\ \A k \in 1..i : t[k] \in Nodes /\ t[k] \in Nat
  <2>1. i \in Nat \ {0} /\ i <= Most
    BY <1>1 DEF Nodes
  <2>2. \A k \in 1..i : t[k] \in 1..i
    OBVIOUS
  <2> QED
    BY <1>1, <2>1, <2>2 DEF Nodes
<1> DEFINE links == [r.next EXCEPT ![t[n]] = node, ![node] = t[1]]
           elems == [r.elem EXCEPT ![node] = e]
<1>5. 1 \in 1..n /\ 1 \in 1..i /\ n \in 1..i /\ n + 1 \in 1..i /\ n # n + 1 /\ \A k \in 1..n : k \in 1..i /\ k # n + 1
  BY <1>1, <1>2, <1>4
<1>6. /\ t[1] \in Nodes /\ t[n] \in Nodes /\ node \in Nodes /\ t[n] # node /\ rest \in Nat
      /\ node \in Nat /\ t[1] \in Nat
  <2>1. t[n] # node
    BY <1>2, <1>5 DEF Way
  <2>2. rest \in Nat
    <3>1. CASE n + 1 = i
      BY <1>2, <3>1
    <3>2. CASE n + 1 # i
      <4>1. n + 2 \in 1..i
        BY <1>1, <1>2, <1>4, <3>2
      <4> QED
        BY <1>2, <1>4, <3>2, <4>1
    <3> QED
      BY <3>1, <3>2
  <2> QED
    BY <1>2, <1>4, <1>5, <2>1, <2>2
<1>7. r.anchor = t[1] /\ r.pred = t[n] /\ r.next \in [Nodes -> Nat] /\ r.elem \in [Nodes -> Nat]
  BY <1>1, <1>2 DEF InRing, n, Rings
<1>8. links \in [Nodes -> Nat] /\ elems \in [Nodes -> Nat]
  BY <1>6, <1>7
<1>9. x = [r EXCEPT !.size = n + 1, !.empty = rest, !.elem = elems, !.anchor = node, !.next = links]
  BY <1>1, <1>7 DEF Inserted, Rings, x, n, node, rest
<1>10. n + 1 \in Nat
  BY <1>1
<1>11. /\ links[t[n]] = node /\ links[node] = t[1] /\ elems[node] = e
       /\ \A k \in 1..i : k # n /\ k # n + 1 => links[t[k]] = r.next[t[k]]
       /\ \A k \in 1..n : elems[t[k]] = r.elem[t[k]]
  <2>1. \A k \in 1..i : (k # n => t[k] # t[n]) /\ (k # n + 1 => t[k] # node)
    BY <1>2, <1>5 DEF Way
  <2>2. \A k \in 1..i : k # n /\ k # n + 1 => links[t[k]] = r.next[t[k]]
    BY <1>4, <1>6, <1>7, <2>1
  <2>3. \A k \in 1..n : elems[t[k]] = r.elem[t[k]]
    BY <1>4, <1>5, <1>6, <1>7, <2>1
  <2> QED
    BY <1>6, <1>7, <2>2, <2>3
<1> HIDE DEF links, elems
<1>12. /\ x.size = n + 1 /\ x.empty = rest /\ x.elem = elems /\ x.anchor = node
       /\ x.next = links /\ x.pred = t[n] /\ x \in Rings
  BY <1>1, <1>6, <1>7, <1>8, <1>9, <1>10 DEF Rings
<1>13. InRing(x, q)
  <2>1. x.anchor = q[1] /\ q[n + 1] = t[n] /\ x.pred = q[n + 1] /\ x.next[q[n + 1]] = q[1]
    BY <1>1, <1>2, <1>3, <1>5, <1>11, <1>12
  <2>2. ASSUME NEW k \in 1 .. (n + 1) - 1 PROVE x.next[q[k]] = q[k + 1]
    <3>1. CASE k = 1
      BY <1>1, <1>2, <1>3, <1>5, <1>11, <1>12, <3>1
    <3>2. CASE k # 1
      <4>1. k - 1 \in 1 .. n - 1 /\ k - 1 \in 1..n /\ k - 1 \in 1..i /\ k - 1 # n /\ k - 1 # n + 1
            /\ (k - 1) + 1 = k /\ k \in 1..n
        BY <1>1, <1>2, <1>4, <3>2
      <4>2. r.next[t[k - 1]] = t[k]
        BY <1>2, <4>1 DEF InRing, n
      <4>3. q[k] = t[k - 1] /\ q[k + 1] = t[k]
        BY <1>3, <4>1
      <4>4. links[t[k - 1]] = r.next[t[k - 1]]
        BY <1>11, <4>1
      <4> QED
        BY <1>12, <4>2, <4>3, <4>4
    <3> QED
      BY <3>1, <3>2
  <2> QED
    BY <1>12, <2>1, <2>2 DEF InRing
<1>14. NotUsed(x, i, q)
  <2>1. x.empty = IF n + 1 = i THEN 0 ELSE q[(n + 1) + 1]
    <3>1. CASE n + 1 = i
      BY <1>2, <1>12, <3>1
    <3>2. CASE n + 1 # i
      <4>1. n + 2 \in n + 2 .. i /\ (n + 1) + 1 = n + 2
        <5>1. n \in Nat /\ i \in Nat /\ n + 1 <= i
          BY <1>1, <1>2, <1>4
        <5> QED
          BY <3>2, <5>1
      <4> QED
        BY <1>2, <1>3, <1>12, <3>2, <4>1
    <3> QED
      BY <3>1, <3>2
  <2>2. ASSUME NEW k \in (n + 1) + 1 .. i - 1 PROVE x.next[q[k]] = q[k + 1]
    <3>1. k \in n + 2 .. i - 1 /\ k \in n + 2 .. i /\ k + 1 \in n + 2 .. i /\ k \in 1..i /\ k # n /\ k # n + 1
      BY <1>1, <1>4
    <3> QED
      BY <1>2, <1>3, <1>11, <1>12, <3>1
  <2>3. n + 1 < i => x.next[q[i]] = 0
    <3> SUFFICES ASSUME n + 1 < i PROVE x.next[q[i]] = 0
      OBVIOUS
    <3>1. i \in n + 2 .. i /\ i \in 1..i /\ i # n /\ i # n + 1
      BY <1>1, <1>4
    <3> QED
      BY <1>2, <1>3, <1>11, <1>12, <3>1
  <2> QED
    BY <1>12, <2>1, <2>2, <2>3 DEF NotUsed
<1>15. x.size \in 1..i
  BY <1>1, <1>2, <1>4, <1>12
<1>16. Path(x, i, q)
  BY <1>2, <1>3, <1>12, <1>13, <1>14, <1>15 DEF Path
<1>17. /\ x.elem[q[1]] = e
       /\ \A k \in 1..n : x.elem[q[k + 1]] = r.elem[s[k]]
  <2>1. x.elem[q[1]] = e
    BY <1>2, <1>3, <1>11, <1>12
  <2>2. ASSUME NEW k \in 1..n PROVE x.elem[q[k + 1]] = r.elem[s[k]]
    <3>1. q[k + 1] = t[k] /\ t[k] = s[k] /\ elems[t[k]] = r.elem[t[k]]
      BY <1>2, <1>3, <1>11
    <3> QED
      BY <1>12, <3>1
  <2> QED
    BY <2>1, <2>2
<1>18. q \in [1..i -> 1..i]
  BY <1>3 DEF Way
<1>19. Grown(r, s, e, x, q)
  BY <1>12, <1>17 DEF Grown, n
<1> QED
  BY <1>16, <1>18, <1>19 DEF x

(* RingBuffer::RingBuffer                                                  *)
LEMMA RingPath ==
  Path(Ring(FirstNodes), FirstNodes, [k \in 1..FirstNodes |-> k])
<1> DEFINE s == [k \in 1..FirstNodes |-> k]
           r == Ring(FirstNodes)
<1>1. FirstNodes \in Nat \ {0} /\ FirstNodes <= Most /\ Most \in Nat
  BY MostType, BallAssumption
<1>2. FirstNodes \in Nodes /\ Way(FirstNodes, s) /\ FirstNodes \in 1..FirstNodes
  BY <1>1 DEF Nodes, Way
<1> DEFINE links == [k \in Nodes |-> IF k < FirstNodes THEN k + 1 ELSE IF k = FirstNodes THEN 1 ELSE 0]
           elems == [k \in Nodes |-> 0]
<1>3. links \in [Nodes -> Nat] /\ elems \in [Nodes -> Nat]
  BY <1>1 DEF Nodes
<1>4. /\ r.size = FirstNodes /\ r.anchor = 1 /\ r.pred = FirstNodes /\ r.empty = 0
      /\ r.next = links /\ r.elem = elems
  BY DEF Ring
<1>5. links[FirstNodes] = 1 /\ \A k \in 1 .. FirstNodes - 1 : links[k] = k + 1
  <2>1. ASSUME NEW k \in 1 .. FirstNodes - 1 PROVE k \in Nodes /\ k < FirstNodes
    BY <1>1 DEF Nodes
  <2>2. FirstNodes \in Nodes /\ ~ (FirstNodes < FirstNodes)
    BY <1>1, <1>2
  <2> QED
    BY <2>1, <2>2
<1>6. s[1] = 1 /\ \A k \in 1..FirstNodes : s[k] = k
  BY <1>1
<1>7. r \in Rings
  <2> HIDE DEF links, elems
  <2>1. r = [size |-> FirstNodes, anchor |-> 1, pred |-> FirstNodes, empty |-> 0, next |-> links, elem |-> elems]
    BY DEF Ring, links, elems
  <2> HIDE DEF r
  <2> QED
    BY <1>1, <1>3, <2>1 DEF Rings
<1> HIDE DEF s, r, links, elems
<1>8. InRing(r, s)
  BY <1>1, <1>4, <1>5, <1>6 DEF InRing
<1>9. NotUsed(r, FirstNodes, s)
  BY <1>1, <1>4 DEF NotUsed
<1> QED
  BY <1>2, <1>4, <1>7, <1>8, <1>9 DEF Path, s, r

(* Only the elements change.                                               *)
LEMMA ElementsChange ==
  ASSUME NEW r, NEW m, NEW s, Path(r, m, s), NEW e \in [Nodes -> Nat]
  PROVE  /\ Path([r EXCEPT !.elem = e], m, s)
         /\ [r EXCEPT !.elem = e].elem = e /\ [r EXCEPT !.elem = e].size = r.size
<1> DEFINE x == [r EXCEPT !.elem = e]
<1>1. r \in Rings
  BY DEF Path
<1>2. /\ x \in Rings /\ x.elem = e /\ x.size = r.size /\ x.anchor = r.anchor /\ x.pred = r.pred
      /\ x.empty = r.empty /\ x.next = r.next
  BY <1>1 DEF Rings
<1> HIDE DEF x
<1>3. InRing(x, s) /\ NotUsed(x, m, s)
  BY <1>2 DEF Path, InRing, NotUsed
<1> QED
  BY <1>2, <1>3 DEF Path, x

(* rescale_ring_buffer: what every erasure keeps is kept.                  *)
LEMMA ShortenedKeeps ==
  ASSUME NEW S, NEW r \in S, NEW n \in Nat \ {0},
         \A x \in S : /\ x.size \in 1..Most /\ Erased(x) \in S
                      /\ Erased(x).size = IF x.size > 1 THEN x.size - 1 ELSE x.size
  PROVE  Shortened(r, n) \in S /\ Shortened(r, n).size = Least(n, r.size)
<1>1. Most \in Nat
  BY MostType
<1> DEFINE g == [x \in S |-> Erased(x)]
<1>2. g \in [S -> S]
  OBVIOUS
<1> HIDE DEF g
<1>3a. PICK f \in [0..Most -> S] : Iterated(f, g, r, Most)
  BY <1>1, <1>2, Iterates
<1>3. f[0] = r /\ \A k \in 1..Most : f[k] = g[f[k - 1]]
  BY <1>3a DEF Iterated
<1> DEFINE step(h) == [k \in 0..Most |-> IF k = 0 THEN r ELSE Erased(h[k - 1])]
           after == CHOOSE h : h = step(h)
<1>4. f = step(f)
  <2>1. ASSUME NEW k \in 0..Most PROVE f[k] = IF k = 0 THEN r ELSE Erased(f[k - 1])
    <3>1. CASE k = 0
      BY <1>3, <3>1
    <3>2. CASE k # 0
      <4>1. k \in 1..Most /\ k - 1 \in 0..Most
        BY <1>1, <3>2
      <4>2. f[k] = g[f[k - 1]] /\ f[k - 1] \in S
        BY <1>3, <4>1
      <4> QED
        BY <3>2, <4>2 DEF g
    <3> QED
      BY <3>1, <3>2
  <2> QED
    BY <2>1
<1>5. after = step(after)
  BY <1>4
<1> DEFINE cut == IF r.size > n THEN r.size - n ELSE 0
<1>6. Shortened(r, n) = after[cut]
  BY DEF Shortened
<1>7. after[0] = r /\ \A k \in 1..Most : after[k] = Erased(after[k - 1])
  <2> HIDE DEF after
  <2> QED
    BY <1>1, <1>5
<1> HIDE DEF after
<1> DEFINE P == {k \in Nat : k <= Most =>
                   after[k] \in S /\ after[k].size = IF r.size > k THEN r.size - k ELSE 1}
<1>8. r.size \in Nat \ {0} /\ r.size <= Most
  BY <1>1
<1>9. 0 \in P
  BY <1>7, <1>8
<1>10. ASSUME NEW k \in Nat, k \in P PROVE k + 1 \in P
  <2> SUFFICES ASSUME k + 1 <= Most
               PROVE  after[k + 1] \in S /\ after[k + 1].size = IF r.size > k + 1 THEN r.size - (k + 1) ELSE 1
    OBVIOUS
  <2>1. after[k] \in S /\ after[k].size = IF r.size > k THEN r.size - k ELSE 1
    BY <1>1, <1>10
  <2>2. after[k + 1] = Erased(after[k])
    <3>1. k + 1 \in 1..Most /\ (k + 1) - 1 = k
      BY <1>1
    <3> QED
      BY <1>7, <3>1
  <2>3. after[k + 1] \in S /\ after[k + 1].size = IF after[k].size > 1 THEN after[k].size - 1 ELSE after[k].size
    BY <2>1, <2>2
  <2> QED
    BY <1>8, <2>1, <2>3
<1> HIDE DEF P
<1>11. Nat \subseteq P
  BY <1>9, <1>10, Induction
<1>12. cut \in Nat /\ cut <= Most /\ (IF r.size > cut THEN r.size - cut ELSE 1) = Least(n, r.size)
  BY <1>1, <1>8 DEF Least
<1> HIDE DEF cut
<1>13. cut \in P
  BY <1>11, <1>12
<1> QED
  BY <1>6, <1>12, <1>13 DEF P

(* RingBuffer::get goes from the anchor along the ring.                    *)
InOrder(r, s) == [k \in 1 .. r.size |-> r.elem[s[k]]]

(* The elements are listed in this order.                                  *)
LEMMA ListedAlong ==
  ASSUME NEW r, NEW m, NEW s, Path(r, m, s)
  PROVE  Listed(r) = InOrder(r, s)
<1> DEFINE n == r.size
           S == {s[j] : j \in 1..n}
           g == [x \in S |-> r.next[x]]
<1>1. /\ m \in Nat \ {0} /\ n \in Nat \ {0} /\ n <= m /\ m <= Most /\ Most \in Nat
      /\ r.anchor = s[1] /\ r.next[s[n]] = s[1] /\ \A j \in 1 .. n - 1 : r.next[s[j]] = s[j + 1]
  BY PathTypes DEF InRing
<1>2. r.anchor \in S /\ g \in [S -> S]
  <2>1. 1 \in 1..n
    BY <1>1
  <2>2. ASSUME NEW j \in 1..n PROVE r.next[s[j]] \in S
    <3>1. CASE j = n
      BY <1>1, <2>1, <3>1
    <3>2. CASE j # n
      <4>1. j \in 1 .. n - 1 /\ j + 1 \in 1..n
        BY <1>1, <3>2
      <4>2. r.next[s[j]] = s[j + 1]
        BY <1>1, <4>1
      <4> QED
        BY <4>1, <4>2
    <3> QED
      BY <3>1, <3>2
  <2> QED
    BY <1>1, <2>1, <2>2
<1> HIDE DEF g, S, n
<1>3. PICK f \in [0..Most -> S] : Iterated(f, g, r.anchor, Most)
  BY <1>1, <1>2, Iterates
<1> DEFINE step(h) == [j \in 0..Most |-> IF j = 0 THEN r.anchor ELSE r.next[h[j - 1]]]
           node == CHOOSE h : h = step(h)
<1>4. f = step(f)
  <2>1. ASSUME NEW j \in 0..Most PROVE f[j] = IF j = 0 THEN r.anchor ELSE r.next[f[j - 1]]
    <3>1. CASE j = 0
      BY <1>3, <3>1 DEF Iterated
    <3>2. CASE j # 0
      <4>1. j \in 1..Most /\ j - 1 \in 0..Most
        BY <1>1, <3>2
      <4>2. f[j] = g[f[j - 1]] /\ f[j - 1] \in S
        BY <1>3, <4>1 DEF Iterated
      <4> QED
        BY <3>2, <4>2 DEF g
    <3> QED
      BY <3>1, <3>2
  <2> QED
    BY <2>1
<1>5. node = step(node)
  BY <1>4
<1>6. Listed(r) = [k \in 1 .. r.size |-> r.elem[node[k - 1]]]
  BY DEF Listed
<1>7. node[0] = r.anchor /\ \A j \in 1..Most : node[j] = r.next[node[j - 1]]
  <2> HIDE DEF node
  <2> QED
    BY <1>1, <1>5
<1> HIDE DEF node
<1> DEFINE P == {j \in Nat : j < n => node[j] = s[j + 1]}
<1>8. 0 \in P
  BY <1>1, <1>7
<1>9. ASSUME NEW j \in Nat, j \in P PROVE j + 1 \in P
  <2> SUFFICES ASSUME j + 1 < n PROVE node[j + 1] = s[(j + 1) + 1]
    OBVIOUS
  <2>1. j + 1 \in 1..Most /\ (j + 1) - 1 = j /\ j + 1 \in 1 .. n - 1 /\ j < n
    BY <1>1
  <2>2. node[j] = s[j + 1] /\ node[j + 1] = r.next[node[j]]
    BY <1>7, <1>9, <2>1
  <2> QED
    BY <1>1, <2>1, <2>2
<1> HIDE DEF P
<1>10. Nat \subseteq P
  BY <1>8, <1>9, Induction
<1>11. ASSUME NEW k \in 1..n PROVE node[k - 1] = s[k]
  <2>1. k - 1 \in Nat /\ k - 1 < n /\ (k - 1) + 1 = k
    BY <1>1
  <2>2. k - 1 \in P
    BY <1>10, <2>1
  <2> QED
    BY <2>1, <2>2 DEF P
<1> QED
  BY <1>6, <1>11 DEF InOrder, n

(* A ring that is kept is listed without a gap.                            *)
LEMMA KeptIsListed ==
  ASSUME NEW r \in Kept(0)
  PROVE  /\ r.size \in 1..Most
         /\ Listed(r) = [k \in 1 .. r.size |-> r.size - k]
<1>1. PICK m \in Nodes : \E s \in [1..m -> 1..m] : Path(r, m, s) /\ Falling(r, s, 0)
  BY DEF Kept
<1>2. PICK s \in [1..m -> 1..m] : Path(r, m, s) /\ Falling(r, s, 0)
  BY <1>1
<1>3. r.size \in Nat \ {0} /\ r.size <= m /\ m <= Most /\ Most \in Nat /\ m \in Nat
  BY <1>2, PathTypes
<1>4. Listed(r) = InOrder(r, s)
  BY <1>2, ListedAlong
<1>5. ASSUME NEW k \in 1 .. r.size PROVE r.elem[s[k]] = r.size - k
  <2>1. r.elem[s[k]] = r.size - k + 0
    BY <1>2 DEF Falling
  <2> QED
    BY <1>3, <2>1
<1>6. r.size \in 1..Most
  BY <1>3
<1> QED
  BY <1>4, <1>5, <1>6 DEF InOrder

(* An erasure takes the oldest away and the others stay as they are.       *)
LEMMA KeptErased ==
  ASSUME NEW d \in {0, 1}, NEW r \in Kept(d)
  PROVE  /\ r.size \in 1..Most /\ Erased(r) \in Kept(d)
         /\ Erased(r).size = IF r.size > 1 THEN r.size - 1 ELSE r.size
<1>1. PICK m \in Nodes : \E s \in [1..m -> 1..m] : Path(r, m, s) /\ Falling(r, s, d)
  BY DEF Kept
<1>2. PICK s \in [1..m -> 1..m] : Path(r, m, s) /\ Falling(r, s, d)
  BY <1>1
<1>3. r.size \in Nat \ {0} /\ r.size <= m /\ m <= Most /\ Most \in Nat /\ m \in Nat /\ Way(m, s)
  BY <1>2, PathTypes
<1>4. CASE r.size > 1
  <2> DEFINE n == r.size
             q == Rotated(n, m, s)
             x == Erased(r)
  <2>1. Path(x, m, q) /\ x.size = n - 1 /\ x.elem = r.elem
    BY <1>2, <1>4, ErasedPath
  <2> HIDE DEF x
  <2>2. n \in 1..m /\ n \in Nat
    BY <1>3
  <2> HIDE DEF n, q
  <2>3. /\ Way(m, q) /\ \A k \in 1 .. n - 1 : q[k] = s[k + 1]
    BY <1>3, <2>2, RotatedWay DEF q
  <2>4. ASSUME NEW k \in 1 .. x.size PROVE x.elem[q[k]] = x.size - k + d
    <3>1. k \in 1 .. n - 1 /\ k + 1 \in 1..n /\ n \in Nat
      BY <2>1, <2>2
    <3>2. r.elem[s[k + 1]] = n - (k + 1) + d
      BY <1>2, <3>1 DEF Falling, n
    <3>3. x.elem[q[k]] = r.elem[s[k + 1]]
      BY <2>1, <2>3, <3>1
    <3> QED
      BY <2>1, <3>1, <3>2, <3>3
  <2>5. Falling(x, q, d) /\ q \in [1..m -> 1..m] /\ x \in Rings
    BY <2>1, <2>3, <2>4 DEF Falling, Way, Path
  <2>6. x \in Kept(d)
    BY <2>1, <2>5 DEF Kept
  <2>7. r.size \in 1..Most
    BY <1>3
  <2> QED
    BY <1>4, <2>1, <2>6, <2>7 DEF x, n
<1>5. CASE ~ (r.size > 1)
  BY <1>3, <1>5 DEF Erased
<1> QED
  BY <1>4, <1>5

(* So do several.                                                          *)
LEMMA KeptShortened ==
  ASSUME NEW d \in {0, 1}, NEW r \in Kept(d), NEW n \in Nat \ {0}
  PROVE  /\ Shortened(r, n) \in Kept(d) /\ Shortened(r, n).size = Least(n, r.size)
         /\ Shortened(r, n).size \in 1..Most
<1>1. \A x \in Kept(d) : /\ x.size \in 1..Most /\ Erased(x) \in Kept(d)
                          /\ Erased(x).size = IF x.size > 1 THEN x.size - 1 ELSE x.size
  BY KeptErased
<1>2. Shortened(r, n) \in Kept(d) /\ Shortened(r, n).size = Least(n, r.size)
  BY <1>1, ShortenedKeeps
<1> QED
  BY <1>1, <1>2

(* Each observation becomes older by one; none is older than the ring is   *)
(* long, so the largest age that is counted does not matter.               *)
LEMMA OlderKept ==
  ASSUME NEW r \in Kept(0)
  PROVE  Older(r) \in Kept(1) /\ Older(r).size = r.size
<1>1. PICK m \in Nodes : \E s \in [1..m -> 1..m] : Path(r, m, s) /\ Falling(r, s, 0)
  BY DEF Kept
<1>2. PICK s \in [1..m -> 1..m] : Path(r, m, s) /\ Falling(r, s, 0)
  BY <1>1
<1>3. /\ r.size \in Nat \ {0} /\ r.size <= m /\ m <= Most /\ Most \in Nat /\ m \in Nat
      /\ r.elem \in [Nodes -> Nat] /\ \A k \in 1..m : s[k] \in Nodes
  BY <1>2, PathTypes
<1> DEFINE e == [k \in Nodes |-> Least(Most, r.elem[k] + 1)]
           x == [r EXCEPT !.elem = e]
<1>4. e \in [Nodes -> Nat]
  BY <1>3 DEF Least
<1>5. Older(r) = x
  BY <1>2 DEF Older, Path, Rings
<1> HIDE DEF e
<1>6. Path(x, m, s) /\ x.elem = e /\ x.size = r.size
  BY <1>2, <1>4, ElementsChange
<1> HIDE DEF x
<1>7. ASSUME NEW k \in 1 .. x.size PROVE x.elem[s[k]] = x.size - k + 1
  <2>1. k \in 1 .. r.size /\ k \in 1..m /\ s[k] \in Nodes
    BY <1>3, <1>6
  <2>2. r.elem[s[k]] = r.size - k + 0
    BY <1>2, <2>1 DEF Falling
  <2>3. e[s[k]] = Least(Most, r.elem[s[k]] + 1)
    BY <2>1 DEF e
  <2> QED
    BY <1>3, <1>6, <2>1, <2>2, <2>3 DEF Least
<1>8. Falling(x, s, 1) /\ x \in Rings
  BY <1>6, <1>7 DEF Falling, Path
<1> QED
  BY <1>5, <1>6, <1>8 DEF Kept

(* The newest element is at the anchor, the others behind it fall to 1.    *)
Fresh(r, s) == r.elem[s[1]] = 0 /\ \A k \in 2 .. r.size : r.elem[s[k]] = r.size + 1 - k

(* With the next step the newest is the last.                              *)
LEMMA SteppedKept ==
  ASSUME NEW r, NEW m \in Nodes, NEW s, Path(r, m, s), Fresh(r, s)
  PROVE  Stepped(r) \in Kept(0) /\ Stepped(r).size = r.size
<1> DEFINE n == r.size
           q == Rotated(n, m, s)
           x == Stepped(r)
<1>1. n \in Nat \ {0} /\ n <= m /\ m \in Nat /\ Way(m, s)
  BY PathTypes
<1>2. Path(x, m, q) /\ x.size = n /\ x.elem = r.elem
  BY SteppedPath
<1> HIDE DEF x, n, q
<1>3. n \in 1..m
  BY <1>1
<1>4. Way(m, q) /\ q[n] = s[1] /\ \A k \in 1 .. n - 1 : q[k] = s[k + 1]
  BY <1>1, <1>3, RotatedWay DEF q
<1>5. ASSUME NEW k \in 1 .. x.size PROVE x.elem[q[k]] = x.size - k + 0
  <2>1. CASE k = n
    BY <1>1, <1>2, <1>4, <2>1 DEF Fresh
  <2>2. CASE k # n
    <3>1. k \in 1 .. n - 1 /\ k + 1 \in 2..n
      BY <1>1, <1>2, <2>2
    <3>2. r.elem[s[k + 1]] = n + 1 - (k + 1)
      BY <3>1 DEF Fresh, n
    <3>3. x.elem[q[k]] = r.elem[s[k + 1]]
      BY <1>2, <1>4, <3>1
    <3> QED
      BY <1>1, <1>2, <3>1, <3>2, <3>3
  <2> QED
    BY <2>1, <2>2
<1>6. Falling(x, q, 0) /\ x \in Rings /\ q \in [1..m -> 1..m]
  BY <1>2, <1>4, <1>5 DEF Falling, Path, Way
<1> QED
  BY <1>2, <1>6 DEF Kept, x, n

(* The oldest is overwritten with the newest when the ring cannot grow.    *)
LEMMA OverwrittenFresh ==
  ASSUME NEW r, NEW m \in Nodes, NEW s, Path(r, m, s), Falling(r, s, 1)
  PROVE  /\ Path(Overwritten(r, 0), m, s) /\ Fresh(Overwritten(r, 0), s)
         /\ Overwritten(r, 0).size = r.size
<1>1. /\ r.size \in Nat \ {0} /\ r.size <= m /\ m \in Nat /\ Way(m, s) /\ r.anchor = s[1]
      /\ r.elem \in [Nodes -> Nat] /\ \A k \in 1..m : s[k] \in Nodes
  BY PathTypes DEF InRing
<1> DEFINE e == [r.elem EXCEPT ![r.anchor] = 0]
           x == [r EXCEPT !.elem = e]
<1>2. e \in [Nodes -> Nat]
  BY <1>1
<1>3. Overwritten(r, 0) = x
  BY DEF Overwritten, Path, Rings
<1> HIDE DEF e
<1>4. Path(x, m, s) /\ x.elem = e /\ x.size = r.size
  BY <1>2, ElementsChange
<1> HIDE DEF x
<1>5. 1 \in 1..m /\ \A k \in 2 .. r.size : k \in 1..m /\ k \in 1 .. r.size /\ k # 1
  BY <1>1
<1>6. e[s[1]] = 0
  BY <1>1, <1>5 DEF e
<1>7. ASSUME NEW k \in 2 .. x.size PROVE x.elem[s[k]] = x.size + 1 - k
  <2>1. k \in 1..m /\ k \in 1 .. r.size /\ k # 1 /\ s[k] # s[1]
    BY <1>1, <1>4, <1>5 DEF Way
  <2>2. e[s[k]] = r.elem[s[k]]
    BY <1>1, <1>5, <2>1 DEF e
  <2>3. r.elem[s[k]] = r.size - k + 1
    BY <2>1 DEF Falling
  <2> QED
    BY <1>1, <1>4, <2>1, <2>2, <2>3
<1>8. Fresh(x, s)
  BY <1>4, <1>6, <1>7 DEF Fresh
<1> QED
  BY <1>3, <1>4, <1>8

(* A new observation is taken in: the ring is kept, and one longer unless  *)
(* it starts anew or has its greatest length.                              *)
LEMMA TakenInKept ==
  ASSUME NEW r \in Kept(1), r.size <= MaxBuffer
  PROVE  /\ TakenIn(r) \in Kept(0)
         /\ TakenIn(r).size = IF StartsAnew THEN 1 ELSE Least(MaxBuffer, r.size + 1)
<1>1. PICK m \in Nodes : \E s \in [1..m -> 1..m] : Path(r, m, s) /\ Falling(r, s, 1)
  BY DEF Kept
<1>2. PICK s \in [1..m -> 1..m] : Path(r, m, s) /\ Falling(r, s, 1)
  BY <1>1
<1>3. /\ r.size \in Nat \ {0} /\ r.size <= m /\ m \in Nat
      /\ Most \in Nat /\ MaxBuffer \in Nat /\ MaxBuffer <= Most /\ r.size <= MaxBuffer
  BY <1>2, PathTypes, MostType, BallAssumption
<1>4. CASE StartsAnew
  <2> DEFINE y == Shortened(r, 1)
             x == Overwritten(y, 0)
  <2>1. y \in Kept(1) /\ y.size = Least(1, r.size)
    BY KeptShortened
  <2>2. TakenIn(r) = x
    BY <1>4 DEF TakenIn
  <2> HIDE DEF y
  <2>3. PICK i \in Nodes : \E t \in [1..i -> 1..i] : Path(y, i, t) /\ Falling(y, t, 1)
    BY <2>1 DEF Kept
  <2>4. PICK t \in [1..i -> 1..i] : Path(y, i, t) /\ Falling(y, t, 1)
    BY <2>3
  <2>5. Path(x, i, t) /\ Fresh(x, t) /\ x.size = y.size
    BY <2>4, OverwrittenFresh
  <2> HIDE DEF x
  <2>6. x.size = 1
    <3>1. y.size = IF 1 < r.size THEN 1 ELSE r.size
      BY <2>1 DEF Least
    <3>2. r.size \in Nat \ {0}
      BY <1>3
    <3>3. y.size = 1
      BY <3>1, <3>2
    <3> QED
      BY <2>5, <3>3
  <2>7. ASSUME NEW k \in 1 .. x.size PROVE x.elem[t[k]] = x.size - k + 0
    BY <2>5, <2>6 DEF Fresh
  <2>8. Falling(x, t, 0) /\ x \in Rings
    BY <2>5, <2>7 DEF Falling, Path
  <2>9. x \in Kept(0)
    BY <2>5, <2>8 DEF Kept
  <2> QED
    BY <1>4, <2>2, <2>6, <2>9
<1>5. CASE ~StartsAnew /\ r.size < MaxBuffer
  <2> DEFINE x == Inserted(r, 0)
  <2>1. TakenIn(r) = Stepped(x)
    BY <1>5 DEF TakenIn
  <2>0. r.size < Most /\ 0 \in Nat
    BY <1>3, <1>5
  <2>2. PICK i \in Nodes : \E q \in [1..i -> 1..i] : Path(x, i, q) /\ Grown(r, s, 0, x, q)
    BY <1>2, <2>0, InsertedPath
  <2> HIDE DEF x
  <2>3a. PICK q \in [1..i -> 1..i] : Path(x, i, q) /\ Grown(r, s, 0, x, q)
    BY <2>2
  <2>3. /\ Path(x, i, q) /\ x.size = r.size + 1 /\ x.elem[q[1]] = 0
        /\ \A k \in 1 .. r.size : x.elem[q[k + 1]] = r.elem[s[k]]
    BY <2>3a DEF Grown
  <2>4. ASSUME NEW k \in 2 .. x.size PROVE x.elem[q[k]] = x.size + 1 - k
    <3>1. k - 1 \in 1 .. r.size /\ (k - 1) + 1 = k /\ k \in Nat
      BY <1>3, <2>3
    <3>2. r.elem[s[k - 1]] = r.size - (k - 1) + 1
      BY <1>2, <3>1 DEF Falling
    <3>3. x.elem[q[(k - 1) + 1]] = r.elem[s[k - 1]]
      BY <2>3, <3>1
    <3>4. x.elem[q[k]] = r.size - (k - 1) + 1
      BY <3>1, <3>2, <3>3
    <3>5. r.size \in Nat /\ x.size = r.size + 1
      BY <1>3, <2>3
    <3> QED
      BY <3>1, <3>4, <3>5
  <2>5. Fresh(x, q)
    BY <2>3, <2>4 DEF Fresh
  <2>6. Stepped(x) \in Kept(0) /\ Stepped(x).size = x.size
    BY <2>3, <2>5, SteppedKept
  <2>7. Least(MaxBuffer, r.size + 1) = r.size + 1
    BY <1>3, <1>5 DEF Least
  <2> QED
    BY <1>5, <2>1, <2>3, <2>6, <2>7
<1>6. CASE ~StartsAnew /\ ~ (r.size < MaxBuffer)
  <2> DEFINE x == Overwritten(r, 0)
  <2>1. TakenIn(r) = Stepped(x)
    BY <1>6 DEF TakenIn
  <2>2. Path(x, m, s) /\ Fresh(x, s) /\ x.size = r.size
    BY <1>2, OverwrittenFresh
  <2> HIDE DEF x
  <2>3. Stepped(x) \in Kept(0) /\ Stepped(x).size = x.size
    BY <2>2, SteppedKept
  <2>4. Least(MaxBuffer, r.size + 1) = r.size
    BY <1>3, <1>6 DEF Least
  <2> QED
    BY <1>6, <2>1, <2>2, <2>3, <2>4
<1> QED
  BY <1>4, <1>5, <1>6
-----------------------------------------------------------------------------
(* The ring is kept and is a single node when the filter starts anew.  The *)
(* slow observations in a row are at most as many as the ring holds, those *)
(* since a speed no ball has at least as many or enough, unless it starts  *)
(* anew; enough slow ones make the ball count again, its model as old as   *)
(* the latest observation.                                                 *)
BallTypes ==
  /\ posList \in Kept(0)
  /\ firstCall \in BOOLEAN /\ raised \in BOOLEAN
  /\ refAge \in Nat /\ modelAge \in Nat /\ confirmed \in 0..MinBuffer /\ calm \in 0..MinBuffer
Counted ==
  /\ firstCall => posList.size = 1 /\ calm = 0
  /\ posList.size <= MaxBuffer
  /\ confirmed = MinBuffer \/ firstCall \/ confirmed >= posList.size
  /\ calm <= posList.size
CalmCounts == calm >= MinBuffer => ~raised /\ (refAge < 3 => modelAge = refAge)
BallInv == BallTypes /\ Counted /\ CalmCounts

(* The ring the filter starts with is cut back to one node.                *)
LEMMA FirstKept ==
  Shortened(Ring(FirstNodes), 1) \in Kept(0) /\ Shortened(Ring(FirstNodes), 1).size = 1
<1> DEFINE e == [k \in Nodes |-> 0]
           S == {x \in Rings : x.elem = e /\ \E m \in Nodes : \E s \in [1..m -> 1..m] : Path(x, m, s)}
           r == Ring(FirstNodes)
           x0 == Shortened(r, 1)
<1>1. FirstNodes \in Nat \ {0} /\ FirstNodes <= Most /\ Most \in Nat /\ FirstNodes \in Nodes
  BY MostType, BallAssumption DEF Nodes
<1>2. r \in S /\ r.size = FirstNodes
  <2>1. [k \in 1..FirstNodes |-> k] \in [1..FirstNodes -> 1..FirstNodes] /\ r.elem = e /\ r.size = FirstNodes
    BY DEF Ring
  <2>2. Path(r, FirstNodes, [k \in 1..FirstNodes |-> k])
    BY RingPath
  <2>3. r \in Rings
    BY <2>2 DEF Path
  <2> HIDE DEF r, e
  <2> QED
    BY <1>1, <2>1, <2>2, <2>3
<1>3. ASSUME NEW x \in S
      PROVE  /\ x.size \in 1..Most /\ Erased(x) \in S
             /\ Erased(x).size = IF x.size > 1 THEN x.size - 1 ELSE x.size
  <2>1. PICK m \in Nodes : \E s \in [1..m -> 1..m] : Path(x, m, s)
    OBVIOUS
  <2>2. PICK s \in [1..m -> 1..m] : Path(x, m, s)
    BY <2>1
  <2>3. x.size \in Nat \ {0} /\ x.size <= m /\ m <= Most /\ m \in Nat /\ Way(m, s) /\ x.elem = e
    BY <2>2, PathTypes
  <2>4. x.size \in 1..Most /\ x.size \in 1..m
    BY <1>1, <2>3
  <2>5. CASE x.size > 1
    <3> DEFINE q == Rotated(x.size, m, s)
               y == Erased(x)
    <3>1. Path(y, m, q) /\ y.size = x.size - 1 /\ y.elem = x.elem
      BY <2>2, <2>5, ErasedPath
    <3>2. Way(m, q)
      BY <2>3, <2>4, RotatedWay
    <3> HIDE DEF q, y, e
    <3>3. y \in Rings /\ y.elem = e /\ q \in [1..m -> 1..m]
      BY <2>3, <3>1, <3>2 DEF Path, Way
    <3>4. y \in S
      BY <3>1, <3>3
    <3> QED
      BY <2>4, <2>5, <3>1, <3>4 DEF y
  <2>6. CASE ~ (x.size > 1)
    BY <2>4, <2>6 DEF Erased
  <2> QED
    BY <2>5, <2>6
<1>4. x0 \in S /\ x0.size = Least(1, r.size)
  <2> HIDE DEF S, r
  <2>1. \A x \in S : /\ x.size \in 1..Most /\ Erased(x) \in S
                      /\ Erased(x).size = IF x.size > 1 THEN x.size - 1 ELSE x.size
    BY <1>3
  <2> QED
    BY <1>2, <2>1, ShortenedKeeps
<1> HIDE DEF x0, r
<1>5. x0.size = 1
  <2>1. x0.size = IF 1 < FirstNodes THEN 1 ELSE FirstNodes
    BY <1>2, <1>4 DEF Least
  <2> QED
    BY <1>1, <2>1
<1>6. PICK m \in Nodes : \E s \in [1..m -> 1..m] : Path(x0, m, s)
  BY <1>4
<1>7. PICK s \in [1..m -> 1..m] : Path(x0, m, s)
  BY <1>6
<1>8. ASSUME NEW k \in 1 .. x0.size PROVE x0.elem[s[k]] = x0.size - k + 0
  <2>1. k = 1 /\ x0.elem = e
    BY <1>4, <1>5
  <2>2. 1 \in 1..m /\ s[1] \in Nodes
    BY <1>7, PathTypes
  <2> QED
    BY <1>5, <2>1, <2>2
<1>9. Falling(x0, s, 0) /\ x0 \in Rings
  BY <1>7, <1>8 DEF Falling, Path
<1> QED
  BY <1>5, <1>7, <1>9 DEF Kept, x0, r

(* The filter starts with the invariant.                                   *)
LEMMA BallStarts ==
  ASSUME BallInit
  PROVE  BallInv
<1>1. posList \in Kept(0) /\ posList.size = 1
  BY FirstKept DEF BallInit
<1>2. BallTypes
  <2>1. MinBuffer \in 0..MinBuffer /\ 0 \in 0..MinBuffer
    BY BallAssumption
  <2>2. /\ firstCall = TRUE /\ raised = FALSE /\ refAge = 0 /\ modelAge = 0
        /\ confirmed = MinBuffer /\ calm = 0
    BY DEF BallInit
  <2> QED
    BY <1>1, <2>1, <2>2 DEF BallTypes
<1>3. Counted
  BY <1>1, BallAssumption DEF BallInit, Counted
<1>4. CalmCounts
  BY BallAssumption DEF BallInit, CalmCounts
<1> QED
  BY <1>2, <1>3, <1>4 DEF BallInv

(* The ring with a new observation, before the model made of it is judged. *)
Judged(misfit) == Considered(TakenIn(Older(posList)), misfit)
Length == IF StartsAnew THEN 1 ELSE Least(MaxBuffer, posList.size + 1)

(* It is kept, and as long as the observation and its misfit make it.      *)
LEMMA JudgedKept ==
  ASSUME BallInv, NEW misfit \in BOOLEAN
  PROVE  /\ Judged(misfit) \in Kept(0)
         /\ Judged(misfit).size = IF misfit THEN Least(MinBuffer, Length) ELSE Length
<1> DEFINE t == TakenIn(Older(posList))
<1>1. Older(posList) \in Kept(1) /\ Older(posList).size = posList.size /\ posList.size <= MaxBuffer
  BY OlderKept DEF BallInv, BallTypes, Counted
<1>2. t \in Kept(0) /\ t.size = Length
  BY <1>1, TakenInKept DEF Length
<1>3. Judged(misfit) = IF misfit THEN Shortened(t, MinBuffer) ELSE t
  BY DEF Judged, Considered
<1> HIDE DEF t
<1>4. Shortened(t, MinBuffer) \in Kept(0) /\ Shortened(t, MinBuffer).size = Least(MinBuffer, t.size)
  BY <1>2, KeptShortened, BallAssumption
<1> QED
  BY <1>2, <1>3, <1>4

(* How long the ring and the rows of observations are then.                *)
LEMMA JudgedSize ==
  ASSUME BallInv, NEW misfit \in BOOLEAN
  PROVE  LET n == Judged(misfit).size
         IN  /\ n \in Nat /\ n >= 1 /\ n <= MaxBuffer
             /\ Least(MinBuffer, confirmed + 1) = MinBuffer \/ Least(MinBuffer, confirmed + 1) >= n
             /\ Least(MinBuffer, IF refAge > 2 THEN 1 ELSE calm + 1) <= n
             /\ Least(MinBuffer, confirmed + 1) \in 0..MinBuffer
             /\ Least(MinBuffer, IF refAge > 2 THEN 1 ELSE calm + 1) \in 0..MinBuffer
<1> DEFINE n == Judged(misfit).size
           size == posList.size
<1>1. MinBuffer \in Nat /\ MinBuffer >= 2 /\ MaxBuffer \in Nat /\ MinBuffer <= MaxBuffer
  BY BallAssumption
<1>2. size \in Nat /\ size >= 1 /\ size <= MaxBuffer
  BY KeptIsListed, MostType DEF BallInv, BallTypes, Counted
<1>3. n = IF misfit THEN Least(MinBuffer, Length) ELSE Length
  BY JudgedKept
<1>4. Length = IF StartsAnew THEN 1 ELSE Least(MaxBuffer, size + 1)
  BY DEF Length
<1> HIDE DEF n, size
<1>5. /\ confirmed \in Nat /\ confirmed <= MinBuffer /\ calm \in Nat /\ calm <= MinBuffer
      /\ (confirmed = MinBuffer \/ firstCall \/ confirmed >= size) /\ calm <= size /\ (firstCall => calm = 0)
      /\ refAge \in Nat
  BY <1>1 DEF BallInv, BallTypes, Counted, size
<1>6. Length \in Nat /\ Length >= 1 /\ Length <= MaxBuffer /\ (~StartsAnew => Length = IF size < MaxBuffer THEN size + 1 ELSE MaxBuffer)
      /\ (StartsAnew => Length = 1)
  BY <1>1, <1>2, <1>4 DEF Least
<1>7. n \in Nat /\ n >= 1 /\ n <= MaxBuffer /\ (n = Length \/ n = MinBuffer) /\ n <= Length
  <2>1. n = Length \/ (n = MinBuffer /\ MinBuffer <= Length)
    BY <1>1, <1>3, <1>6 DEF Least
  <2> QED
    BY <1>1, <1>2, <1>6, <2>1
<1>8. Least(MinBuffer, confirmed + 1) = MinBuffer \/ Least(MinBuffer, confirmed + 1) >= n
  <2>1. CASE StartsAnew
    <3>1. n = 1
      BY <1>6, <1>7, <2>1
    <3> QED
      BY <1>1, <1>5, <3>1 DEF Least
  <2>2. CASE ~StartsAnew
    <3>1. (confirmed = MinBuffer \/ confirmed >= size) /\ n <= size + 1
      BY <1>1, <1>2, <1>5, <1>6, <1>7, <2>2 DEF StartsAnew
    <3> QED
      BY <1>1, <1>2, <1>5, <1>7, <3>1 DEF Least
  <2> QED
    BY <2>1, <2>2
<1>9. Least(MinBuffer, IF refAge > 2 THEN 1 ELSE calm + 1) <= n
  <2>1. CASE StartsAnew
    <3>1. (IF refAge > 2 THEN 1 ELSE calm + 1) = 1
      BY <1>5, <2>1 DEF StartsAnew
    <3> QED
      BY <1>1, <1>7, <3>1 DEF Least
  <2>2. CASE ~StartsAnew
    <3>1. (IF refAge > 2 THEN 1 ELSE calm + 1) = calm + 1
      BY <2>2 DEF StartsAnew
    <3>2. Least(MinBuffer, calm + 1) <= MinBuffer /\ Least(MinBuffer, calm + 1) <= Length
      BY <1>1, <1>2, <1>5, <1>6, <2>2 DEF Least
    <3>3. Least(MinBuffer, calm + 1) <= n
      BY <1>7, <3>2
    <3> QED
      BY <3>1, <3>3
  <2> QED
    BY <2>1, <2>2
<1>10. /\ Least(MinBuffer, confirmed + 1) \in 0..MinBuffer
       /\ Least(MinBuffer, IF refAge > 2 THEN 1 ELSE calm + 1) \in 0..MinBuffer
  BY <1>1, <1>5 DEF Least
<1> QED
  BY <1>7, <1>8, <1>9, <1>10 DEF n, size

(* A speed no ball has: the filter starts anew.                            *)
LEMMA ImplausibleKeeps ==
  ASSUME BallInv, NEW misfit \in BOOLEAN, Implausible(Judged(misfit))
  PROVE  BallInv' /\ ~ (raised /\ ~raised')
<1> DEFINE list == Judged(misfit)
<1>1. MinBuffer \in Nat /\ MinBuffer >= 2
  BY BallAssumption
<1>2. list \in Kept(0)
  BY JudgedKept
<1>3. /\ posList' = Shortened(list, 1) /\ firstCall' = TRUE /\ raised' = TRUE
      /\ refAge' = refAge /\ modelAge' = modelAge /\ confirmed' = 0 /\ calm' = 0
  BY DEF Implausible
<1> HIDE DEF list
<1>4. posList' \in Kept(0) /\ posList'.size = Least(1, list.size) /\ list.size \in Nat /\ list.size >= 1
  <2>1. list.size \in 1..Most
    BY <1>2, KeptIsListed
  <2>2. list.size \in Nat /\ list.size >= 1
    BY <2>1, MostType
  <2> QED
    BY <1>2, <1>3, <2>2, KeptShortened
<1>5. posList'.size = 1
  <2>1. posList'.size = IF 1 < list.size THEN 1 ELSE list.size
    BY <1>4 DEF Least
  <2> QED
    BY <1>4, <2>1
<1>6. BallTypes'
  <2>1. 0 \in 0..MinBuffer
    BY <1>1
  <2> QED
    BY <1>3, <1>4, <2>1 DEF BallInv, BallTypes
<1>7. Counted'
  BY <1>1, <1>3, <1>5, BallAssumption DEF Counted
<1>8. CalmCounts'
  BY <1>1, <1>3 DEF CalmCounts
<1> QED
  BY <1>3, <1>6, <1>7, <1>8 DEF BallInv

(* Another speed: what counts is in the ring.                              *)
LEMMA PlausibleKeeps ==
  ASSUME BallInv, NEW misfit \in BOOLEAN, NEW speed \in {"slow", "medium", "fast"},
         Plausible(Judged(misfit), speed)
  PROVE  BallInv' /\ (raised /\ ~raised' => confirmed' >= MinBuffer)
<1> DEFINE list == Judged(misfit)
           n == list.size
           doubted == raised /\ speed # "slow"
           row == Least(MinBuffer, IF refAge > 2 THEN 1 ELSE calm + 1)
           seen == Least(MinBuffer, confirmed + 1)
<1>1. MinBuffer \in Nat /\ MinBuffer >= 2
  BY BallAssumption
<1>2. list \in Kept(0)
  BY JudgedKept
<1>3. /\ n \in Nat /\ n >= 1 /\ n <= MaxBuffer /\ (seen = MinBuffer \/ seen >= n) /\ row <= n
      /\ seen \in 0..MinBuffer /\ row \in 0..MinBuffer
  BY JudgedSize
<1>4. /\ firstCall' = FALSE /\ refAge' = 0
      /\ posList' = IF n >= MinBuffer /\ doubted THEN Shortened(list, MinBuffer) ELSE list
      /\ modelAge' = IF n >= MinBuffer /\ ~doubted THEN 0 ELSE modelAge
      /\ raised' = (raised /\ ~ (n >= MinBuffer /\ ~doubted))
      /\ confirmed' = seen
      /\ calm' = IF speed = "slow" THEN row ELSE 0
  BY DEF Plausible
<1>5. Shortened(list, MinBuffer) \in Kept(0) /\ Shortened(list, MinBuffer).size = Least(MinBuffer, n)
  BY <1>1, <1>2, KeptShortened
<1> HIDE DEF list, n, row, seen
<1>6. posList' \in Kept(0) /\ posList'.size = IF n >= MinBuffer /\ doubted THEN MinBuffer ELSE n
  <2>1. n >= MinBuffer => Least(MinBuffer, n) = MinBuffer
    BY <1>1, <1>3 DEF Least
  <2> QED
    BY <1>2, <1>4, <1>5, <2>1 DEF n
<1>7. BallTypes'
  <2>1. modelAge' \in Nat /\ refAge' \in Nat /\ raised' \in BOOLEAN /\ firstCall' \in BOOLEAN
    BY <1>4 DEF BallInv, BallTypes
  <2>2. confirmed' \in 0..MinBuffer /\ calm' \in 0..MinBuffer
    BY <1>1, <1>3, <1>4
  <2> QED
    BY <1>6, <2>1, <2>2 DEF BallTypes
<1>8. Counted'
  <2>1. confirmed' = MinBuffer \/ confirmed' >= posList'.size
    BY <1>1, <1>3, <1>4, <1>6
  <2>2. calm' <= posList'.size
    <3>1. CASE speed = "slow"
      BY <1>3, <1>4, <1>6, <3>1
    <3>2. CASE speed # "slow"
      BY <1>1, <1>3, <1>4, <1>6, <3>2
    <3> QED
      BY <3>1, <3>2
  <2>3. posList'.size <= MaxBuffer
    BY <1>3, <1>6, BallAssumption
  <2> QED
    BY <1>4, <2>1, <2>2, <2>3 DEF Counted
<1>9. CalmCounts'
  <2> SUFFICES ASSUME calm' >= MinBuffer PROVE ~raised' /\ modelAge' = refAge'
    BY DEF CalmCounts
  <2>1. speed = "slow" /\ n >= MinBuffer
    BY <1>1, <1>3, <1>4
  <2> QED
    BY <1>4, <2>1
<1>10. raised /\ ~raised' => confirmed' >= MinBuffer
  <2> SUFFICES ASSUME raised, ~raised' PROVE confirmed' >= MinBuffer
    OBVIOUS
  <2>1. n >= MinBuffer
    BY <1>4
  <2> QED
    BY <1>1, <1>3, <1>4, <2>1
<1> QED
  BY <1>7, <1>8, <1>9, <1>10 DEF BallInv

(* Every step keeps the invariant and takes a raised ball for the ball of  *)
(* the game only after enough observations.                                *)
LEMMA BallStep ==
  ASSUME BallInv, [BallNext]_ballVars
  PROVE  BallInv' /\ (raised /\ ~raised' => confirmed' >= MinBuffer)
<1>1. MinBuffer \in Nat /\ MinBuffer >= 2
  BY BallAssumption
<1>2. ASSUME NEW fit \in {"fits", "off", "far"}, NEW again \in BOOLEAN, NEW speed \in {"slow", "medium", "fast"},
             Seen(fit, again, speed)
      PROVE  BallInv' /\ (raised /\ ~raised' => confirmed' >= MinBuffer)
  <2> DEFINE misfit == Misfit(fit, again)
  <2>1. misfit \in BOOLEAN
    BY DEF Misfit
  <2>2. Implausible(Judged(misfit)) \/ Plausible(Judged(misfit), speed)
    BY <1>2 DEF Seen, Judged
  <2> HIDE DEF misfit
  <2>3. CASE Implausible(Judged(misfit))
    BY <2>1, <2>3, ImplausibleKeeps
  <2>4. CASE Plausible(Judged(misfit), speed)
    BY <2>1, <2>4, PlausibleKeeps
  <2> QED
    BY <2>2, <2>3, <2>4
<1>3. CASE SeenOutside
  <2>1. /\ raised' = TRUE /\ calm' = 0 /\ posList' = posList /\ firstCall' = firstCall
        /\ refAge' = refAge /\ modelAge' = modelAge /\ confirmed' = confirmed
    BY <1>3 DEF SeenOutside
  <2>2. BallTypes'
    <3>1. 0 \in 0..MinBuffer
      BY <1>1
    <3> QED
      BY <2>1, <3>1 DEF BallInv, BallTypes
  <2>3. posList.size \in Nat
    BY KeptIsListed, MostType DEF BallInv, BallTypes
  <2>4. Counted'
    BY <2>1, <2>3 DEF BallInv, Counted
  <2>5. CalmCounts'
    BY <1>1, <2>1 DEF CalmCounts
  <2> QED
    BY <2>1, <2>2, <2>4, <2>5 DEF BallInv
<1>4. CASE HalfSecond
  <2>1. /\ refAge' = Least(3, refAge + 1) /\ modelAge' = Least(4, modelAge + 1)
        /\ posList' = posList /\ firstCall' = firstCall /\ raised' = raised
        /\ confirmed' = confirmed /\ calm' = calm
    BY <1>4 DEF HalfSecond
  <2>2. refAge' \in Nat /\ modelAge' \in Nat
    BY <2>1 DEF BallInv, BallTypes, Least
  <2>3. BallTypes'
    BY <2>1, <2>2 DEF BallInv, BallTypes
  <2>4. Counted'
    BY <2>1 DEF BallInv, Counted
  <2>5. refAge < 3 /\ modelAge = refAge /\ refAge' < 3 => modelAge' = refAge'
    BY <2>1 DEF BallInv, BallTypes, Least
  <2>6. refAge' < 3 => refAge < 3
    BY <2>1 DEF BallInv, BallTypes, Least
  <2>7. CalmCounts'
    BY <2>1, <2>5, <2>6 DEF BallInv, CalmCounts
  <2> QED
    BY <2>1, <2>3, <2>4, <2>7 DEF BallInv
<1>5. CASE CommBall
  BY <1>5 DEF CommBall, BallInv, BallTypes, Counted, CalmCounts
<1>6. CASE UNCHANGED ballVars
  BY <1>6 DEF ballVars, BallInv, BallTypes, Counted, CalmCounts
<1> QED
  BY <1>2, <1>3, <1>4, <1>5, <1>6 DEF BallNext

(* The inductive invariant of the ball filter.                             *)
THEOREM BallInvariant == BallSpec => []BallInv
<1>1. BallInit => BallInv
  BY BallStarts
<1>2. BallInv /\ [BallNext]_ballVars => BallInv'
  BY BallStep
<1> QED
  BY <1>1, <1>2, PTL DEF BallSpec

(* The ring buffer of the ball filter holds the latest observations        *)
(* without a gap, the oldest at the anchor, however often it wrapped       *)
(* around, grew and was cut back (RingBuffer.h, update).                   *)
THEOREM RingHoldsLatest == BallSpec => []BufferIsLatest
<1>1. BallInv => BufferIsLatest
  <2> SUFFICES ASSUME BallInv PROVE BufferIsLatest
    OBVIOUS
  <2>1. posList \in Kept(0) /\ posList.size <= MaxBuffer /\ (firstCall => posList.size = 1)
    BY DEF BallInv, BallTypes, Counted
  <2>2. posList.size \in 1..Most /\ Listed(posList) = [k \in 1 .. posList.size |-> posList.size - k]
    BY <2>1, KeptIsListed
  <2>3. posList.size \in 1..MaxBuffer
    BY <2>1, <2>2, MostType, BallAssumption
  <2> QED
    BY <2>1, <2>2, <2>3 DEF BufferIsLatest
<1> QED
  BY <1>1, BallInvariant, PTL

(* Enough slow observations in a row make the ball known, and as old as    *)
(* the latest of them, whatever came before (update and get).              *)
THEOREM CalmKnown == BallSpec => []CalmBallIsKnown
<1>1. BallInv => CalmBallIsKnown
  <2> SUFFICES ASSUME BallInv, calm >= MinBuffer, refAge < 3 PROVE PosKnown = "known" /\ modelAge = refAge
    BY DEF CalmBallIsKnown
  <2>1. ~raised /\ modelAge = refAge
    BY DEF BallInv, CalmCounts
  <2>2. ~ (modelAge >= 4)
    BY <2>1 DEF BallInv, BallTypes
  <2> QED
    BY <2>1, <2>2 DEF PosKnown
<1> QED
  BY <1>1, BallInvariant, PTL

(* Between a speed no ball has and the step in which the ball counts again *)
(* come as many observations as a model is learned from (update).          *)
THEOREM RaisedStaysDoubted == BallSpec => RaisedNeedsObservations
<1>1. BallInv /\ [BallNext]_ballVars => [raised /\ ~raised' => confirmed' >= MinBuffer]_ballVars
  BY BallStep
<1> QED
  BY <1>1, BallInvariant, PTL DEF BallSpec, RaisedNeedsObservations
=============================================================================
