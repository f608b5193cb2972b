------------------------------ MODULE WheelRamp ------------------------------
(***************************************************************************)
(* ctrOmniRobot::get_realizable_vel_vec: the wheel speeds that can be      *)
(* reached from old on the way to new.  The robot's kinematics are linear  *)
(* and left out: speeds are those of the wheels.  The result is exact, a   *)
(* vector of integers over a common denominator.                           *)
(***************************************************************************)
EXTENDS Integers

CONSTANTS
  Wheels,      \* the wheels
  Speed,       \* the speeds considered
  MaxVel,      \* max_wheel_vel
  MaxAcc,      \* max_wheel_acc, times the duration of a cycle
  MaxDeacc     \* max_wheel_deacc, times the duration of a cycle

ASSUME RampAssumption ==
  /\ Wheels # {} /\ Speed \subseteq Int
  /\ MaxVel \in Nat \ {0} /\ MaxAcc \in Nat \ {0} /\ MaxDeacc \in Nat \ {0}

VARIABLES old, new, done, result

rampVars == <<old, new, done, result>>

Magnitude(x) == IF x < 0 THEN -x ELSE x
Largest(v) == CHOOSE m \in {Magnitude(v[w]) : w \in Wheels} : \A w \in Wheels : Magnitude(v[w]) <= m
Times(k, v) == [w \in Wheels |-> k * v[w]]
Over(v, den) == [num |-> v, den |-> den]

(* A: the wanted speeds, the fastest wheel reduced to MaxVel.              *)
Scaled(v) ==
  IF Largest(v) > MaxVel THEN Over(Times(MaxVel, v), Largest(v)) ELSE Over(v, 1)

(* B: the change allowed for the wheel that changes most.  If some wheels  *)
(* get faster and others slower, the larger limit is taken.                *)
Limit(speedsUp) ==
  CASE \A w \in Wheels : speedsUp[w] -> MaxAcc
    [] \A w \in Wheels : ~speedsUp[w] -> MaxDeacc
    [] OTHER -> IF MaxDeacc < MaxAcc THEN MaxAcc ELSE MaxDeacc

(* mutant: every wheel changes as much as it may                           *)
ChangedApart(from, diff, den, limit) ==
  Over([w \in Wheels |-> den * from[w] + IF Magnitude(diff[w]) <= limit * den THEN diff[w]
                         ELSE IF diff[w] > 0 THEN limit * den ELSE -limit * den], den)

(* from and a change of at most limit in the direction of diff / den.      *)
Changed(from, diff, den, limit) ==
  IF Largest(diff) > limit * den
  THEN Over([w \in Wheels |-> Largest(diff) * from[w] + limit * diff[w]], Largest(diff))
  ELSE Over([w \in Wheels |-> den * from[w] + diff[w]], den)

(* mutant: a wheel that turns backwards speeds up when it slows down       *)
RealizableVelVecSigned(from, to) ==
  LET goal == Scaled(to)
      diff == [w \in Wheels |-> goal.num[w] - goal.den * from[w]]
      speedsUp == [w \in Wheels |-> diff[w] > 0]
  IN  Changed(from, diff, goal.den, Limit(speedsUp))

RealizableVelVec(from, to) ==
  LET goal == Scaled(to)
      diff == [w \in Wheels |-> goal.num[w] - goal.den * from[w]]
      speedsUp == [w \in Wheels |-> diff[w] * from[w] > 0]
  IN  Changed(from, diff, goal.den, Limit(speedsUp))

(* The robot moves at speeds it can reach; the player may wish for any.    *)
RampInit ==
  /\ old \in [Wheels -> {s \in Speed : Magnitude(s) <= MaxVel}]
  /\ new \in [Wheels -> Speed]
  /\ done = FALSE
  /\ result = Over(old, 1)

Ramp ==
  /\ ~done
  /\ done' = TRUE
  /\ result' = RealizableVelVec(old, new)
  /\ UNCHANGED <<old, new>>

RampSpec == RampInit /\ [][Ramp]_rampVars
-----------------------------------------------------------------------------
Change(w) == result.num[w] - result.den * old[w]
SpeedsUp(w) == Change(w) * old[w] > 0
ChangeAtMost(limit) == \A w \in Wheels : Magnitude(Change(w)) <= result.den * limit

(* No wheel ever has to run faster than the motors can, and each limit is  *)
(* kept where it applies: if all wheels, in whatever direction they turn,  *)
(* get faster, none changes by more than MaxAcc, and if none does, none    *)
(* changes by more than MaxDeacc.                                          *)
WithinLimits ==
  /\ \A w \in Wheels : Magnitude(result.num[w]) <= result.den * MaxVel
  /\ (\A w \in Wheels : SpeedsUp(w)) => ChangeAtMost(MaxAcc)
  /\ (\A w \in Wheels : ~SpeedsUp(w)) => ChangeAtMost(MaxDeacc)

(* If some wheels get faster and others do not, neither limit is exceeded: *)
(* "acceleration and deacceleration mixed by smallest value", says the     *)
(* comment in get_realizable_vel_vec.                                      *)
MixedBySmallest ==
  (\E w, x \in Wheels : SpeedsUp(w) /\ ~SpeedsUp(x))
    => ChangeAtMost(MaxAcc) /\ ChangeAtMost(MaxDeacc)

(* The path is kept: the wheels change in the proportion in which they     *)
(* would have to, and none changes unless all get nearer to the goal.      *)
KeepsThePath ==
  done =>
    LET goal == Scaled(new)
        wanted == [w \in Wheels |-> goal.num[w] - goal.den * old[w]]
    IN  /\ \A w, x \in Wheels : Change(w) * wanted[x] = Change(x) * wanted[w]
        /\ \A w \in Wheels : wanted[w] # 0 => Change(w) * wanted[w] > 0
=============================================================================
