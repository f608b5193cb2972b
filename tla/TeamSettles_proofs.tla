------------------------- MODULE TeamSettles_proofs -------------------------
(***************************************************************************)
(* Proofs about the two things teamcontrol and the robots come to agree on. *)
(* The sides: TeamSides keeps its types, and the colour the widget         *)
(* translates signals with is that of the team it shows the robot in.  The *)
(* roles, for every number of robots, roles and policies: as many places of *)
(* a row are free as there are robots without one.                         *)
(***************************************************************************)
EXTENDS TeamSides, TeamRoles, FiniteSetTheorems, FunctionTheorems, NumberLemmas, TLAPS

(* Both facts together are inductive: that the colour follows the team     *)
(* when an answer makes the widget change the team needs the signs.        *)
Inv == TypeOK /\ ColorFollowsTeam

(* A datagram more does not exceed the bound.                              *)
LEMMA PostedType ==
  ASSUME NEW net \in [Sign -> 0..MaxNet], net[1] + net[-1] <= MaxNet, NEW half \in Sign
  PROVE  /\ Posted(net, half) \in [Sign -> 0..MaxNet]
         /\ Posted(net, half)[1] + Posted(net, half)[-1] <= MaxNet
<1>1. net[1] \in 0..MaxNet /\ net[-1] \in 0..MaxNet /\ MaxNet \in Nat
  BY SidesAssumption DEF Sign
<1>2. CASE half = 1
  BY <1>1, <1>2 DEF Posted, Sign
<1>3. CASE half = -1
  BY <1>1, <1>3 DEF Posted, Sign
<1> QED BY <1>2, <1>3 DEF Sign

(* Datagrams that arrive or are lost leave a legal rest.                   *)
LEMMA RestsType ==
  ASSUME NEW net \in [Sign -> 0..MaxNet], net[1] + net[-1] <= MaxNet,
         NEW half \in Sign, NEW rest \in Rests(net, half)
  PROVE  rest \in [Sign -> 0..MaxNet] /\ rest[1] + rest[-1] <= MaxNet
<1>1. MaxNet \in Nat
  BY SidesAssumption
<1>2. rest \in [Sign -> 0..MaxNet] /\ rest[1] <= net[1] /\ rest[-1] <= net[-1]
  BY DEF Rests, Sign
<1> QED BY <1>1, <1>2 DEF Sign

(* A product of signs is a sign, and so is its opposite.                   *)
LEMMA Signs ==
  ASSUME NEW a \in Sign, NEW b \in Sign
  PROVE  /\ a * b \in Sign /\ -a \in Sign /\ -a * b \in Sign
         /\ -a * b = a * (-b) /\ -(a * b) = -a * b
BY DEF Sign

(* The widget, a change of direction: a new colour is that of the same     *)
(* team.                                                                   *)
LEMMA DirectionStep ==
  ASSUME Inv, DirectionChanges
  PROVE  Inv'
<1> USE DEF Inv, TypeOK
<1>0. PICK new \in [half : Sign, color : Sign] :
        /\ switches < MaxSwitches /\ switches' = switches + 1
        /\ rsm' = ColorAfter(team, tribots, new)
        /\ tribots' = new
        /\ orders' = Posted(orders, team * new.half)
        /\ UNCHANGED <<ownHalf, team, answers, clicks>>
  BY DEF DirectionChanges
<1>1. MaxNet \in Nat /\ MaxSwitches \in Nat /\ MaxClicks \in Nat
  BY SidesAssumption
<1>2. orders' \in [Sign -> 0..MaxNet] /\ orders'[1] + orders'[-1] <= MaxNet
  <2>1. team * new.half \in Sign
    BY Signs
  <2> QED BY <1>0, <2>1, PostedType
<1>3. switches' \in 0..MaxSwitches
  BY <1>0, <1>1
<1>4. rsm' = team' * tribots'.color /\ rsm' \in Sign
  <2>1. CASE tribots.color # new.color
    <3>1. new.color = -tribots.color
      BY <2>1 DEF Sign
    <3>2. team \in Sign /\ tribots.color \in Sign
      OBVIOUS
    <3>3. /\ -team * tribots.color = team * (-tribots.color)
          /\ -team * tribots.color \in Sign
      BY <3>2, Signs
    <3>4. rsm' = -team * tribots.color /\ team' = team /\ tribots' = new
      BY <1>0, <2>1 DEF ColorAfter
    <3> QED BY <3>1, <3>3, <3>4
  <2>2. CASE tribots.color = new.color
    BY <1>0, <2>2 DEF ColorAfter, ColorFollowsTeam
  <2> QED BY <2>1, <2>2
<1> QED BY <1>0, <1>2, <1>3, <1>4 DEF ColorFollowsTeam

(* Every step preserves the invariant.                                     *)
LEMMA Step == Inv /\ [Next]_vars => Inv'
<1> USE DEF Inv, TypeOK
<1> SUFFICES ASSUME Inv, [Next]_vars PROVE Inv'
  OBVIOUS
<1>1. MaxNet \in Nat /\ MaxSwitches \in Nat /\ MaxClicks \in Nat
  BY SidesAssumption
<1>2. CASE DirectionChanges
  BY <1>2, DirectionStep
<1>4. CASE ChangeTeamClicked
  <2>1. -team * tribots.half \in Sign
    <3>1. team \in Sign /\ tribots.half \in Sign
      OBVIOUS
    <3> QED BY <3>1, Signs
  <2>2. orders' \in [Sign -> 0..MaxNet] /\ orders'[1] + orders'[-1] <= MaxNet
    BY <1>4, <2>1, PostedType DEF ChangeTeamClicked
  <2>3. clicks' \in 0..MaxClicks
    BY <1>1, <1>4 DEF ChangeTeamClicked
  <2>4. ColorFollowsTeam'
    BY <1>4 DEF ChangeTeamClicked, ColorFollowsTeam
  <2>5. TypeOK'
    BY <1>4, <2>2, <2>3 DEF ChangeTeamClicked
  <2> QED BY <2>4, <2>5
<1>5. CASE HalfKeyPressed
  <2>1. -ownHalf \in Sign
    BY Signs
  <2> QED BY <1>1, <1>5, <2>1 DEF HalfKeyPressed, ColorFollowsTeam
<1>6. CASE Communicate
  <2>1. answers' \in [Sign -> 0..MaxNet] /\ answers'[1] + answers'[-1] <= MaxNet
    BY <1>6, RestsType DEF Communicate
  <2>2. team' \in Sign /\ rsm' \in Sign /\ rsm' = team' * tribots.color
    <3>1. team \in Sign /\ tribots.color \in Sign
      OBVIOUS
    <3>2. /\ -team \in Sign /\ -team * tribots.color \in Sign
          /\ -team * tribots.color = (-team) * tribots.color
      BY <3>1 DEF Sign
    <3>3. \/ team' = team /\ rsm' = rsm
          \/ team' = -team /\ rsm' = -team * tribots.color
      BY <1>6 DEF Communicate
    <3>4. rsm = team * tribots.color /\ rsm \in Sign
      BY DEF ColorFollowsTeam
    <3> QED BY <3>1, <3>2, <3>3, <3>4
  <2> QED BY <1>6, <2>1, <2>2 DEF Communicate, ColorFollowsTeam
<1>7. ASSUME NEW asked \in BOOLEAN, NEW hears \in BOOLEAN, RobotCycle(asked, hears)
      PROVE  Inv'
  <2>1. answers' \in [Sign -> 0..MaxNet] /\ answers'[1] + answers'[-1] <= MaxNet
    BY <1>7, PostedType DEF RobotCycle
  <2>2. /\ orders' \in [Sign -> 0..MaxNet] /\ orders'[1] + orders'[-1] <= MaxNet
        /\ ownHalf' \in Sign
    BY <1>7, RestsType DEF RobotCycle
  <2> QED BY <1>7, <2>1, <2>2 DEF RobotCycle, ColorFollowsTeam
<1>8. CASE Lose
  BY <1>8, RestsType DEF Lose, ColorFollowsTeam
<1>9. CASE UNCHANGED vars
  BY <1>9 DEF vars, ColorFollowsTeam
<1> QED BY <1>2, <1>4, <1>5, <1>6, <1>7, <1>8, <1>9 DEF Next

(* Signals are translated for the team the widget shows the robot in: for  *)
(* every number of changes and datagrams on their way, lost ones too.      *)
THEOREM ColorFollows == Spec => []ColorFollowsTeam
<1>1. Init => Inv
  BY SidesAssumption DEF Init, Inv, TypeOK, ColorFollowsTeam, Sign
<1>2. Inv => ColorFollowsTeam
  BY DEF Inv
<1> QED BY <1>1, <1>2, Step, PTL DEF Spec

(* The variables of the widget, the robot and the network keep their types *)
(* and their bounds.                                                       *)
THEOREM SidesTypeCorrect == Spec => []TypeOK
<1>1. Init => Inv
  BY SidesAssumption DEF Init, Inv, TypeOK, ColorFollowsTeam, Sign
<1>2. Inv => TypeOK
  BY DEF Inv
<1> QED BY <1>1, <1>2, Step, PTL DEF Spec
-----------------------------------------------------------------------------
(* Parts of a finite set are finite, and have no more elements.            *)
LEMMA Parts ==
  ASSUME NEW S, IsFiniteSet(S), NEW T, T \subseteq S
  PROVE  IsFiniteSet(T) /\ Cardinality(T) \in Nat /\ Cardinality(T) <= Cardinality(S)
BY FS_Subset, FS_CardinalityType

(* Among numbers up to N there is a greatest.                              *)
LEMMA Greatest ==
  ASSUME NEW N \in Nat, NEW T \in SUBSET (1..N), T # {}
  PROVE  \E m \in T : \A n \in T : n <= m
<1>1. IsFiniteSet(1..N) /\ T \subseteq Nat
  BY FS_Interval
<1>2. IsFiniteSet(T)
  BY <1>1, FS_Subset
<1> QED
  BY <1>1, <1>2, LargestIsThere

(* Where there are no more elements, there is an injection.                *)
LEMMA SmallerFits ==
  ASSUME NEW S, NEW T, IsFiniteSet(S), IsFiniteSet(T), Cardinality(S) <= Cardinality(T)
  PROVE  Injection(S, T) # {}
<1> DEFINE a == Cardinality(S)
           b == Cardinality(T)
<1>1. a \in Nat /\ b \in Nat /\ ExistsBijection(1..a, S) /\ ExistsBijection(1..b, T)
  BY FS_CardinalityType
<1>2. PICK f \in Bijection(S, 1..a) : TRUE
  BY <1>1, Fun_ExistsBijSymmetric, Fun_ExistsBij
<1>3. PICK g \in Bijection(1..b, T) : TRUE
  BY <1>1, Fun_ExistsBij
<1>4. f \in [S -> 1..a] /\ (\A x, y \in S : f[x] = f[y] => x = y)
  BY <1>2 DEF Bijection, Injection, IsInjective
<1>5. g \in [1..b -> T] /\ (\A i, j \in 1..b : g[i] = g[j] => i = j)
  BY <1>3, Fun_BijectionProperties, Zenon
<1>6. 1..a \subseteq 1..b
  BY <1>1
<1> HIDE DEF a, b
<1> DEFINE h == [x \in S |-> g[f[x]]]
<1>7. h \in [S -> T] /\ (\A x, y \in S : h[x] = h[y] => x = y)
  BY <1>4, <1>5, <1>6
<1> HIDE DEF h
<1>8. h \in Injection(S, T)
  BY <1>7, Fun_IsInj
<1> QED
  BY <1>8
-----------------------------------------------------------------------------
(* The first k of a set of numbers are k.                                  *)
LEMMA FirstOnes ==
  ASSUME NEW F \in SUBSET Nat, IsFiniteSet(F), NEW k \in Nat, k <= Cardinality(F)
  PROVE  Cardinality({i \in F : Cardinality({j \in F : j <= i}) <= k}) = k
<1> DEFINE upto(i) == {j \in F : j <= i}
           n == Cardinality(F)
           rank == [i \in F |-> Cardinality(upto(i))]
           first == {i \in F : rank[i] <= k}
<1>1. n \in Nat /\ IsFiniteSet(1..n) /\ Cardinality(1..n) = n
  <2>1. n \in Nat
    BY FS_CardinalityType
  <2> QED
    BY <2>1, FS_Interval
<1>2. \A i \in F : IsFiniteSet(upto(i)) /\ Cardinality(upto(i)) \in 1..n
  <2> TAKE i \in F
  <2>1. IsFiniteSet(upto(i)) /\ Cardinality(upto(i)) \in Nat /\ Cardinality(upto(i)) <= n
    BY Parts
  <2>2. i \in upto(i)
    OBVIOUS
  <2>3. Cardinality(upto(i)) # 0
    BY <2>1, <2>2, FS_EmptySet
  <2> QED
    BY <1>1, <2>1, <2>3
<1>3. ASSUME NEW i \in F, NEW j \in F, i < j PROVE Cardinality(upto(i)) # Cardinality(upto(j))
  <2>1. i \in Nat /\ j \in Nat /\ \A x \in F : x \in Nat
    OBVIOUS
  <2>2. upto(i) \subseteq upto(j)
    <3> SUFFICES ASSUME NEW x \in F, x <= i PROVE x <= j
      OBVIOUS
    <3> QED
      BY <1>3, <2>1
  <2>3. j \in upto(j) /\ j \notin upto(i)
    BY <1>3, <2>1
  <2> QED
    BY <1>2, <2>2, <2>3, FS_Subset
<1>4. rank \in [F -> 1..n]
  BY <1>2
<1>5. \A i, j \in F : rank[i] = rank[j] => i = j
  <2> SUFFICES ASSUME NEW i \in F, NEW j \in F, rank[i] = rank[j], i # j PROVE FALSE
    OBVIOUS
  <2>1. i < j \/ j < i
    OBVIOUS
  <2> QED
    BY <1>3, <2>1
<1> HIDE DEF rank
<1>6. rank \in Injection(F, 1..n)
  BY <1>4, <1>5, Fun_IsInj
<1>7. rank \in Surjection(F, 1..n)
  BY <1>1, <1>6, FS_Injection
<1>8. \A t \in 1..n : \E i \in F : rank[i] = t
  BY <1>7, Fun_SurjectionProperties
<1> DEFINE g == [i \in first |-> rank[i]]
<1>9. g \in [first -> 1..k] /\ (\A i, j \in first : g[i] = g[j] => i = j)
  <2>1. \A i \in first : i \in F /\ rank[i] \in 1..k
    BY <1>4
  <2>2. g \in [first -> 1..k]
    BY <2>1
  <2> QED
    BY <1>5, <2>1, <2>2
<1>10. \A t \in 1..k : \E i \in first : g[i] = t
  <2> TAKE t \in 1..k
  <2>1. t \in 1..n
    BY <1>1
  <2>2. PICK i \in F : rank[i] = t
    BY <1>8, <2>1
  <2> QED
    BY <2>2
<1> HIDE DEF g
<1>11. g \in Bijection(first, 1..k)
  BY <1>9, <1>10, Fun_IsBij
<1>12. ExistsBijection(1..k, first)
  BY <1>11, Fun_ExistsBij, Fun_ExistsBijSymmetric
<1>13. Cardinality(first) = k
  BY <1>12, FS_CountingElements
<1>14. first = {i \in F : Cardinality({j \in F : j <= i}) <= k}
  BY DEF rank
<1> QED
  BY <1>13, <1>14
-----------------------------------------------------------------------------
LEMMA RobotsFinite ==
  ASSUME NEW P, P \subseteq Robots
  PROVE  IsFiniteSet(P) /\ Cardinality(P) \in 0..NumRobots
<1>1. NumRobots \in Nat /\ NumRobots > 0
  BY RolesAssumption
<1>2. IsFiniteSet(Robots) /\ Cardinality(Robots) = NumRobots
  <2>1. IsFiniteSet(1..NumRobots) /\ Cardinality(1..NumRobots) = NumRobots
    BY <1>1, FS_Interval
  <2> QED
    BY <2>1 DEF Robots
<1> QED
  BY <1>1, <1>2, Parts

TakenOf(row, heard, plays, x) ==
  {i \in DOMAIN row \ FreePlaces(row, heard, plays) : row[i] = x}
KeptOf(row, heard, new, plays, x) == {r \in Kept(row, heard, new, plays) : plays[r] = x}

(* Of each role no more places are taken than robots keep it: either all   *)
(* that play it do, or as many as there are places.                        *)
LEMMA TakenOfRole ==
  ASSUME NEW N \in Nat, NEW row, DOMAIN row = 1..N,
         NEW heard, heard \subseteq Robots, NEW new, new \subseteq heard, NEW plays, NEW x
  PROVE  /\ IsFiniteSet(TakenOf(row, heard, plays, x))
         /\ IsFiniteSet(KeptOf(row, heard, new, plays, x))
         /\ Cardinality(TakenOf(row, heard, plays, x)) <= Cardinality(KeptOf(row, heard, new, plays, x))
<1> DEFINE taken == TakenOf(row, heard, plays, x)
           kept == KeptOf(row, heard, new, plays, x)
           players == {r \in heard : plays[r] = x}
           places == PlacesOf(row, x)
<1>1. IsFiniteSet(1..N) /\ IsFiniteSet(heard)
  BY FS_Interval, RobotsFinite
<1>2. Kept(row, heard, new, plays) \subseteq heard
  BY DEF Kept
<1>3. taken \subseteq places /\ taken \subseteq 1..N /\ places \subseteq 1..N
      /\ kept \subseteq heard /\ players \subseteq heard
  BY <1>2 DEF TakenOf, KeptOf, PlacesOf
<1>4. /\ IsFiniteSet(taken) /\ Cardinality(taken) \in Nat
      /\ IsFiniteSet(kept) /\ Cardinality(kept) \in Nat
      /\ IsFiniteSet(places) /\ Cardinality(places) \in Nat
      /\ IsFiniteSet(players) /\ Cardinality(players) \in Nat
  <2> HIDE DEF taken, kept, players, places
  <2> QED
    BY <1>1, <1>3, Parts
<1>5. Cardinality(taken) <= Cardinality(places)
  BY <1>3, <1>4, Parts
<1>6. Cardinality(taken) <= Cardinality(players)
  <2>1. CASE taken = {}
    BY <1>4, <2>1, FS_EmptySet
  <2>2. CASE taken # {}
    <3>1. PICK m \in taken : \A n \in taken : n <= m
      <4> HIDE DEF taken
      <4> QED
        BY <1>3, <2>2, Greatest
    <3> DEFINE before == {j \in 1..m : row[j] = row[m]}
    <3>2. m \in 1..N /\ row[m] = x
      BY <3>1 DEF TakenOf
    <3>3. taken \subseteq before
      BY <1>3, <3>1, <3>2 DEF TakenOf
    <3>4. IsFiniteSet(before) /\ Cardinality(before) \in Nat
      <4>1. IsFiniteSet(1..m)
        BY <3>2, FS_Interval
      <4> QED
        BY <4>1, Parts
    <3>5. ~(Cardinality(before) > Playing(heard, plays, x))
      BY <3>1, <3>2 DEF TakenOf, FreePlaces
    <3>6. Playing(heard, plays, x) = Cardinality(players)
      BY DEF Playing
    <3>7. Cardinality(taken) <= Cardinality(before)
      BY <3>3, <3>4, Parts
    <3> HIDE DEF taken, before, players
    <3> QED
      BY <1>4, <3>4, <3>5, <3>6, <3>7
  <2> QED
    BY <2>1, <2>2
<1>7. CASE players \subseteq Kept(row, heard, new, plays)
  <2>1. players \subseteq kept
    BY <1>7 DEF KeptOf
  <2>2. Cardinality(players) <= Cardinality(kept)
    BY <1>4, <2>1, Parts
  <2> HIDE DEF taken, kept, players
  <2>3. Cardinality(taken) <= Cardinality(kept)
    BY <1>4, <1>6, <2>2
  <2> QED
    BY <1>4, <2>3 DEF taken, kept
<1>8. CASE ~(players \subseteq Kept(row, heard, new, plays))
  <2> DEFINE left == players \ Kept(row, heard, new, plays)
  <2>1. PICK r \in left : \A q \in left : r <= q
    <3>0. heard \subseteq Nat
      BY RolesAssumption DEF Robots
    <3>1. left \subseteq Nat /\ left # {}
      <4>1. left \subseteq heard
        OBVIOUS
      <4>2. left # {}
        BY <1>8
      <4> HIDE DEF left
      <4> QED
        BY <3>0, <4>1, <4>2
    <3> HIDE DEF left
    <3> QED
      BY <3>1, SmallestIsThere
  <2> DEFINE others == {q \in heard : q \in new \/ q < r}
             served == {q \in others : plays[q] = x}
  <2>2. r \in heard \ new /\ plays[r] = x
    BY <2>1 DEF Kept
  <2>3. ~(Playing(others, plays, x) < Cardinality(places))
    BY <2>1, <2>2 DEF Kept
  <2>4. served \subseteq kept
    <3> SUFFICES ASSUME NEW q \in served PROVE q \in Kept(row, heard, new, plays)
      BY DEF KeptOf
    <3>1. CASE q \in new
      BY <3>1 DEF Kept
    <3>2. CASE q < r
      <4>1. q \in players /\ ~(r <= q)
        BY <2>2, <3>2 DEF Robots
      <4> QED
        BY <2>1, <4>1
    <3> QED
      BY <3>1, <3>2
  <2>5. Playing(others, plays, x) = Cardinality(served)
    BY DEF Playing
  <2>6. IsFiniteSet(served) /\ Cardinality(served) \in Nat /\ Cardinality(served) <= Cardinality(kept)
    BY <1>4, <2>4, Parts
  <2> HIDE DEF taken, kept, places, served, others
  <2>7. Cardinality(taken) <= Cardinality(kept)
    BY <1>4, <1>5, <2>3, <2>5, <2>6
  <2> QED
    BY <1>4, <2>7 DEF taken, kept
<1> QED
  BY <1>7, <1>8

(* So no more places of the row are taken than robots keep their roles.    *)
LEMMA TakenAreFewer ==
  ASSUME NEW N \in Nat, NEW row, DOMAIN row = 1..N,
         NEW heard, heard \subseteq Robots, NEW new, new \subseteq heard, NEW plays
  PROVE  Cardinality((1..N) \ FreePlaces(row, heard, plays))
           <= Cardinality(Kept(row, heard, new, plays))
<1> DEFINE taken == (1..N) \ FreePlaces(row, heard, plays)
           kept == Kept(row, heard, new, plays)
           T(x) == TakenOf(row, heard, plays, x)
           K(x) == KeptOf(row, heard, new, plays, x)
           inj == [x \in {row[i] : i \in 1..N} |-> CHOOSE g \in Injection(T(x), K(x)) : TRUE]
           f == [i \in taken |-> inj[row[i]][i]]
<1>1. \A i \in taken : i \in T(row[i]) /\ row[i] \in {row[j] : j \in 1..N}
  BY DEF TakenOf
<1>2. \A x : K(x) \subseteq kept /\ \A r \in K(x) : plays[r] = x
  BY DEF KeptOf
<1>3. \A x : Injection(T(x), K(x)) # {}
  <2> TAKE x
  <2> QED
    BY TakenOfRole, SmallerFits
<1>4. \A x \in {row[j] : j \in 1..N} : inj[x] \in Injection(T(x), K(x))
  BY <1>3
<1>5. \A x \in {row[j] : j \in 1..N} :
         /\ \A i \in T(x) : inj[x][i] \in K(x)
         /\ \A i, j \in T(x) : inj[x][i] = inj[x][j] => i = j
  <2> TAKE x \in {row[j] : j \in 1..N}
  <2> HIDE DEF inj, T, K
  <2>1. inj[x] \in Injection(T(x), K(x))
    BY <1>4
  <2> QED
    BY <2>1 DEF Injection, IsInjective
<1> HIDE DEF inj, T, K, taken, kept
<1>6. f \in [taken -> kept]
  BY <1>1, <1>2, <1>5
<1>7. ASSUME NEW i \in taken, NEW j \in taken, f[i] = f[j] PROVE i = j
  <2>1. inj[row[i]][i] \in K(row[i]) /\ inj[row[j]][j] \in K(row[j])
    BY <1>1, <1>5
  <2>2. inj[row[i]][i] = inj[row[j]][j]
    BY <1>7
  <2>3. row[i] = row[j]
    BY <1>2, <2>1, <2>2
  <2> QED
    BY <1>1, <1>5, <2>2, <2>3
<1>8. f \in Injection(taken, kept)
  <2> HIDE DEF f
  <2> QED
    BY <1>6, <1>7, Fun_IsInj
<1>9. IsFiniteSet(kept)
  BY RobotsFinite DEF kept, Kept
<1> QED
  BY <1>8, <1>9, FS_Injection DEF taken, kept
-----------------------------------------------------------------------------
(* A row that is long enough is never read beyond its end, and every role  *)
(* dealt out was free.                                                     *)
LEMMA Dealt ==
  ASSUME NEW N \in Nat, NEW row, DOMAIN row = 1..N,
         NEW free, free \subseteq 1..N,
         NEW robots, robots \subseteq Robots, Cardinality(robots) <= Cardinality(free),
         NEW wishes \in [Robots -> SomeRole],
         \A i \in free : row[i] \in Roles,
         NEW dealt \in DealtOut(row, free, robots, wishes)
  PROVE  /\ dealt \in [Robots -> SomeRole]
         /\ \A r \in Robots : dealt[r] = wishes[r] \/ \E i \in free : dealt[r] = row[i]
<1> DEFINE first == {i \in free : Cardinality({j \in free : j <= i}) <= Cardinality(robots)}
<1>1. free \in SUBSET Nat /\ IsFiniteSet(free)
  <2>1. IsFiniteSet(1..N) /\ 1..N \in SUBSET Nat
    <3>1. IsFiniteSet(1..N)
      BY FS_Interval
    <3> QED
      BY <3>1
  <2> QED
    BY <2>1, Parts
<1>2. Cardinality(robots) \in Nat
  BY RobotsFinite, RolesAssumption
<1>3. Cardinality(first) = Cardinality(robots)
  BY <1>1, <1>2, FirstOnes
<1> HIDE DEF first
<1>4. \/ dealt = wishes
      \/ \E place \in Injection(robots, first) :
           dealt = [r \in Robots |-> IF r \in robots THEN row[place[r]] ELSE wishes[r]]
  <2>1. DealtOut(row, free, robots, wishes) =
          CASE free = {} -> {wishes}
            [] Cardinality(first) = Cardinality(robots) ->
                 {[r \in Robots |-> IF r \in robots THEN row[place[r]] ELSE wishes[r]] :
                    place \in Injection(robots, first)}
            [] OTHER -> {[r \in Robots |-> IF r \in robots THEN "garbage" ELSE wishes[r]]}
    BY DEF DealtOut, first
  <2> QED
    BY <1>3, <2>1
<1>5. CASE dealt = wishes
  BY <1>5
<1>6. CASE dealt # wishes
  <2>1. PICK place \in Injection(robots, first) :
          dealt = [r \in Robots |-> IF r \in robots THEN row[place[r]] ELSE wishes[r]]
    BY <1>4, <1>6
  <2>2. \A r \in robots : place[r] \in free
    BY <2>1 DEF Injection, first
  <2>3. \A r \in Robots : dealt[r] = wishes[r] \/ \E i \in free : dealt[r] = row[i]
    BY <2>1, <2>2
  <2>4. \A r \in Robots : dealt[r] \in SomeRole
    BY <2>3 DEF SomeRole
  <2>5. dealt = [r \in Robots |-> dealt[r]]
    BY <2>1
  <2> QED
    BY <2>3, <2>4, <2>5
<1> QED
  BY <1>5, <1>6

LEMMA FirstType ==
  ASSUME NEW x \in SomeRole, NEW y \in SomeRole
  PROVE  First(x, y) \in SomeRole /\ (y \in Roles => First(x, y) \in Roles)
BY DEF First, SomeRole

(* What is left of the roles of n players for those without one.           *)
LEMMA EnoughPlaces ==
  ASSUME NEW N \in Nat, NEW row, DOMAIN row = 1..N,
         NEW players, players \subseteq Robots, Cardinality(players) = N,
         NEW heard, heard \subseteq players, NEW new, new \subseteq heard, NEW plays
  PROVE  Cardinality(players \ Kept(row, heard, new, plays))
           <= Cardinality(FreePlaces(row, heard, plays))
<1> DEFINE kept == Kept(row, heard, new, plays)
           free == FreePlaces(row, heard, plays)
<1>1. kept \subseteq players /\ free \subseteq 1..N
  BY DEF Kept, FreePlaces
<1>2. Cardinality((1..N) \ free) <= Cardinality(kept)
  BY TakenAreFewer
<1> HIDE DEF kept, free
<1>3. IsFiniteSet(1..N) /\ Cardinality(1..N) = N /\ IsFiniteSet(players)
  <2>1. IsFiniteSet(1..N) /\ Cardinality(1..N) = N
    BY FS_Interval
  <2> QED
    BY <2>1, RobotsFinite
<1>4. Cardinality((1..N) \ free) = N - Cardinality(free)
  <2>1. (1..N) \cap free = free
    BY <1>1
  <2>2. Cardinality((1..N) \ free) = Cardinality(1..N) - Cardinality((1..N) \cap free)
    BY <1>3, FS_Difference
  <2> QED
    BY <1>3, <2>1, <2>2, Zenon
<1>5. Cardinality(players \ kept) = N - Cardinality(kept)
  <2>1. players \cap kept = kept
    BY <1>1
  <2>2. Cardinality(players \ kept) = Cardinality(players) - Cardinality(players \cap kept)
    BY <1>3, FS_Difference
  <2> QED
    BY <2>1, <2>2, Zenon
<1>6. Cardinality(free) \in Nat /\ Cardinality(kept) \in Nat
  BY <1>1, <1>3, Parts
<1>7. Cardinality(players \ kept) <= Cardinality(free)
  BY <1>2, <1>4, <1>5, <1>6
<1> QED
  BY <1>7 DEF kept, free

(* The row Coach::update looks at, once it has decided who plays: with     *)
(* enough rows in the table, a role for each player.                       *)
LEMMA RowFits ==
  ASSUME NumRobots <= MaxPlayers, NEW d \in BOOLEAN, NEW players, players \subseteq Robots
  PROVE  /\ Cardinality(players) \in Nat
         /\ DOMAIN RowFor(d, Cardinality(players)) = 1 .. Cardinality(players)
         /\ \A i \in DOMAIN RowFor(d, Cardinality(players)) : RowFor(d, Cardinality(players))[i] \in Roles
<1> DEFINE n == Cardinality(players)
<1>1. n \in 0..NumRobots /\ NumRobots \in Nat /\ MaxPlayers \in Nat
  BY RobotsFinite, RolesAssumption
<1> HIDE DEF n
<1>2. CASE n = 0
  <2>1. RowFor(d, n) = <<>>
    BY <1>2 DEF RowFor
  <2>2. DOMAIN RowFor(d, n) = 1..0
    BY <2>1
  <2> QED
    BY <1>2, <2>2 DEF n
<1>3. CASE n # 0
  <2>1. n \in 1..MaxPlayers
    BY <1>1, <1>3
  <2>2. RowFor(d, n) = Policy[d][n]
    BY <1>3, <2>1 DEF RowFor
  <2>3. Policy[d][n] \in Seq(Roles) /\ Len(Policy[d][n]) = n
    BY <2>1, RolesAssumption
  <2>4. DOMAIN Policy[d][n] = 1..n /\ \A i \in 1..n : Policy[d][n][i] \in Roles
    BY <2>3
  <2> QED
    BY <1>1, <2>2, <2>4 DEF n
<1> QED
  BY <1>2, <1>3
-----------------------------------------------------------------------------
(* What the coach decides: a robot is told what it was told or plays       *)
(* already, or a role of the row.                                          *)
Wishes(news) == [r \in Robots |-> First(news[r], desired[r])]

LEMMA Decided ==
  ASSUME RolesTypeOK, NumRobots <= MaxPlayers,
         NEW news \in [Robots -> SomeRole], NEW missing, NEW owned \in BOOLEAN, NEW switch \in BOOLEAN,
         Update(news, missing, owned, switch)
  PROVE  desired' \in [Robots -> SomeRole]
<1> DEFINE players == {r \in Robots : shown[r] = "playing"} \ missing
           new == {r \in players : ~active[r] \/ fresh[r] > 0}
           attitude == defensive # switch
           plays == [r \in Robots |-> First(news[r], actual[r])]
           heard == {r \in Linked : known[r] \/ news[r] # NoRole}
           rivals == players \intersect heard
           row == RowFor(attitude, Cardinality(players))
           kept == Kept(row, rivals, new \intersect heard, plays)
           free == FreePlaces(row, rivals, plays)
<1>1. desired' \in IF owned THEN {Wishes(news)}
                   ELSE DealtOut(row, free, players \ kept, Wishes(news))
  BY DEF Update, Wishes
<1>2. Wishes(news) \in [Robots -> SomeRole]
  BY FirstType DEF Wishes, RolesTypeOK
<1>3. CASE owned
  BY <1>1, <1>2, <1>3
<1>4. CASE ~owned
  <2>1. attitude \in BOOLEAN
    OBVIOUS
  <2>2. players \subseteq Robots /\ rivals \subseteq players /\ new \intersect heard \subseteq rivals
    OBVIOUS
  <2> HIDE DEF attitude, players, heard, rivals, new, plays
  <2>3. /\ Cardinality(players) \in Nat
        /\ DOMAIN row = 1 .. Cardinality(players)
        /\ \A i \in DOMAIN row : row[i] \in Roles
    BY <2>1, <2>2, RowFits
  <2> HIDE DEF row
  <2>4. free \subseteq 1 .. Cardinality(players) /\ \A i \in free : row[i] \in Roles
    BY <2>3 DEF FreePlaces
  <2>5. Cardinality(players \ kept) <= Cardinality(free)
    BY <2>2, <2>3, EnoughPlaces
  <2>6. players \ kept \subseteq Robots
    BY <2>2
  <2>7. desired' \in DealtOut(row, free, players \ kept, Wishes(news))
    BY <1>1, <1>4
  <2> HIDE DEF kept, free
  <2> QED
    BY <1>2, <2>3, <2>4, <2>5, <2>6, <2>7, Dealt
<1> QED
  BY <1>3, <1>4

LEMMA UpsetType ==
  ASSUME upsets \in 0..MaxUpsets, NEW happens, Upset(happens)
  PROVE  upsets' \in 0..MaxUpsets
BY RolesAssumption DEF Upset

LEMMA CoachTypes ==
  ASSUME RolesTypeOK, NumRobots <= MaxPlayers,
         NEW read \in Readable, NEW news \in News(read), NEW arrive \in SUBSET Ordered,
         NEW missing, NEW owned \in BOOLEAN, NEW switch \in BOOLEAN,
         CoachCycle(news, arrive, read, missing, owned, switch)
  PROVE  RolesTypeOK'
<1>0. Update(news, missing, owned, switch) /\ UNCHANGED <<role, said, shown>>
  BY DEF CoachCycle
<1>2. news \in [Robots -> SomeRole]
  BY DEF News, SomeRole
<1>1. desired' \in [Robots -> SomeRole]
  BY <1>0, <1>2, Decided
<1>3. actual' \in [Robots -> SomeRole]
  <2>1. actual' = [r \in Robots |-> First(news[r], actual[r])]
    BY <1>0 DEF Update
  <2>2. \A r \in Robots : First(news[r], actual[r]) \in SomeRole
    BY <1>2, FirstType DEF RolesTypeOK
  <2> QED
    BY <2>1, <2>2
<1>4. known' \in [Robots -> BOOLEAN] /\ active' \in [Robots -> BOOLEAN]
  <2>1. /\ known' = [r \in Robots |-> r \in {q \in Linked : known[q] \/ news[q] # NoRole}]
        /\ active' = [r \in Robots |-> r \in {q \in Robots : shown[q] = "playing"} \ missing]
    BY <1>0 DEF Update
  <2>2. ASSUME NEW set PROVE [r \in Robots |-> r \in set] \in [Robots -> BOOLEAN]
    <3>1. ASSUME NEW r \in Robots PROVE (r \in set) \in BOOLEAN
      <4>1. CASE r \in set
        BY <4>1
      <4>2. CASE r \notin set
        BY <4>2
      <4> QED
        BY <4>1, <4>2
    <3> QED
      BY <3>1, Zenon
  <2> QED
    BY <2>1, <2>2, Zenon
<1>5. fresh' \in [Robots -> 0 .. Second - 1]
  <2>1. fresh' = [r \in Robots |->
                    IF r \in {q \in Robots : shown[q] = "playing"} \ missing /\ ~active[r] THEN Second - 1
                    ELSE IF fresh[r] > 0 THEN fresh[r] - 1 ELSE 0]
    BY <1>0 DEF Update
  <2>2. \A r \in Robots : fresh[r] \in 0 .. Second - 1 /\ Second \in Nat \ {0}
    BY RolesAssumption DEF RolesTypeOK
  <2> QED
    BY <2>1, <2>2
<1>6. defensive' \in BOOLEAN /\ upsets' \in 0..MaxUpsets
  BY <1>0, UpsetType DEF CoachCycle, Update, RolesTypeOK
<1>7. toCoach' \in [Robots -> SUBSET Roles] /\ board' \in [Robots -> Lines]
  <2>1. /\ toCoach' = [r \in Robots |-> toCoach[r] \ read[r]]
        /\ board' = [r \in Robots |-> IF r \in arrive THEN order[r] ELSE board[r]]
    BY DEF CoachCycle, CommunicateBoards
  <2> QED
    BY <2>1 DEF RolesTypeOK
<1>8. order' \in [Robots -> Lines]
  <2> DEFINE rest(r) == IF r \in Linked THEN NoLines ELSE order[r]
             heard == {r \in Linked : known[r] \/ news[r] # NoRole}
             plays == [r \in Robots |-> First(news[r], actual[r])]
             wish(r) == IF r \in heard /\ desired'[r] # plays[r] THEN desired'[r] ELSE NoRole
  <2>1. order' = [r \in Robots |->
                    [change |-> First(rest(r).change, wish(r)),
                     which |-> rest(r).which \/ (r \in Linked \ heard)]]
    BY <1>0 DEF Update
  <2>2. \A r \in Robots : rest(r) \in Lines
    BY DEF RolesTypeOK, NoLines, Lines
  <2>3. \A r \in Robots : wish(r) \in SomeRole /\ rest(r).change \in SomeRole
    BY <1>1, <2>2 DEF SomeRole, Lines
  <2>4. \A r \in Robots : First(rest(r).change, wish(r)) \in SomeRole
    BY <2>3, FirstType
  <2> HIDE DEF rest, wish, heard
  <2>5. \A r \in Robots : [change |-> First(rest(r).change, wish(r)),
                           which |-> rest(r).which \/ (r \in Linked \ heard)] \in Lines
    <3> TAKE r \in Robots
    <3>1. (rest(r).which \/ (r \in Linked \ heard)) \in BOOLEAN
      BY Zenon
    <3> QED
      BY <2>4, <3>1 DEF Lines, SomeRole
  <2> QED
    BY <2>1, <2>5
<1> QED
  BY <1>0, <1>1, <1>3, <1>4, <1>5, <1>6, <1>7, <1>8 DEF RolesTypeOK

LEMMA RobotTypes ==
  ASSUME RolesTypeOK, NEW r \in Robots,
         NEW asked \in BOOLEAN, NEW arrives \in BOOLEAN, NEW cleared \in BOOLEAN,
         arrives => asked /\ LineOf(r) # NoRole,
         PlayerCycle(r, asked, arrives, cleared)
  PROVE  RolesTypeOK'
<1>1. /\ board[r].change \in SomeRole /\ role[r] \in Roles /\ said[r] \in SomeRole
      /\ toCoach[r] \in SUBSET Roles
  BY DEF RolesTypeOK, Lines, SomeRole
<1>2. RoleOf(r) \in Roles
  BY <1>1, FirstType DEF RoleOf, SomeRole
<1>3. LineOf(r) \in SomeRole
  <2>1. (IF Reports(r) THEN RoleOf(r) ELSE NoRole) \in SomeRole
    BY <1>2 DEF SomeRole
  <2> QED
    BY <1>1, <2>1, FirstType DEF LineOf
<1>4. Mailed(toCoach[r], LineOf(r), asked /\ arrives) \in SUBSET Roles
  BY <1>1, <1>3 DEF Mailed, SomeRole
<1>5. role' \in [Robots -> Roles] /\ said' \in [Robots -> SomeRole]
  BY <1>2, <1>3 DEF PlayerCycle, RolesTypeOK, SomeRole
<1>6. toCoach' \in [Robots -> SUBSET Roles]
  BY <1>4 DEF PlayerCycle, RolesTypeOK
<1>7. board' \in [Robots -> Lines]
  BY DEF PlayerCycle, RolesTypeOK, NoLines, Lines
<1> QED
  BY <1>5, <1>6, <1>7 DEF PlayerCycle, RolesTypeOK, rolesOfCoach

LEMMA WorldTypes ==
  ASSUME RolesTypeOK, NEW r \in Robots, World(r)
  PROVE  RolesTypeOK'
<1>0. Upset(TRUE) => upsets' \in 0..MaxUpsets
  BY UpsetType DEF RolesTypeOK
<1>1. CASE RoleKeyPressed(r)
  <2>1. PICK x \in Roles : role' = [role EXCEPT ![r] = x] /\ said' = [said EXCEPT ![r] = First(@, x)]
    BY <1>1 DEF RoleKeyPressed
  <2>2. First(said[r], x) \in SomeRole
    BY FirstType DEF RolesTypeOK, SomeRole
  <2>3. role' \in [Robots -> Roles] /\ said' \in [Robots -> SomeRole]
    BY <2>1, <2>2 DEF RolesTypeOK
  <2> QED
    BY <1>0, <1>1, <2>3 DEF RoleKeyPressed, RolesTypeOK, rolesOfCoach
<1>2. CASE RoleChosen(r)
  <2>1. PICK x \in Roles : order' = [order EXCEPT ![r].change = First(@, x)]
    BY <1>2 DEF RoleChosen
  <2>2. order[r] \in Lines /\ order[r].change \in SomeRole
    BY DEF RolesTypeOK, Lines, SomeRole
  <2>3. First(order[r].change, x) \in SomeRole
    BY <2>2, FirstType DEF SomeRole
  <2>4. [order[r] EXCEPT !.change = First(@, x)] \in Lines
    BY <2>2, <2>3 DEF Lines, SomeRole
  <2>5. order' \in [Robots -> Lines]
    BY <2>1, <2>4 DEF RolesTypeOK
  <2> QED
    BY <1>0, <1>2, <2>5 DEF RoleChosen, RolesTypeOK, robotVars, rolesOfCoach
<1>3. CASE Restart(r)
  <2>1. role' \in [Robots -> Roles] /\ said' \in [Robots -> SomeRole] /\ board' \in [Robots -> Lines]
    BY <1>3, RolesAssumption DEF Restart, RolesTypeOK, SomeRole, NoLines, Lines
  <2> QED
    BY <1>0, <1>3, <2>1 DEF Restart, RolesTypeOK, rolesOfCoach
<1>4. CASE \E s \in {"away", "resting", "playing"} : Shows(r, s)
  <2>1. shown' \in [Robots -> {"away", "resting", "playing"}] /\ toCoach' \in [Robots -> SUBSET Roles]
    BY <1>4 DEF Shows, RolesTypeOK
  <2> QED
    BY <1>0, <1>4, <2>1 DEF Shows, RolesTypeOK, robotVars, rolesOfCoach
<1> QED
  BY <1>1, <1>2, <1>3, <1>4 DEF World

LEMMA RolesStep ==
  ASSUME RolesTypeOK, NumRobots <= MaxPlayers, [RolesNext]_rolesVars
  PROVE  RolesTypeOK'
<1>1. CASE AnyCoachCycle
  BY <1>1, CoachTypes DEF AnyCoachCycle
<1>2. ASSUME NEW r \in Robots, RobotRuns(r) PROVE RolesTypeOK'
  BY <1>2, RobotTypes DEF RobotRuns
<1>3. ASSUME NEW r \in Robots, World(r) PROVE RolesTypeOK'
  BY <1>3, WorldTypes
<1>4. CASE UNCHANGED rolesVars
  BY <1>4 DEF rolesVars, robotVars, rolesOfCoach, RolesTypeOK
<1> QED
  BY <1>1, <1>2, <1>3, <1>4 DEF RolesNext

(* Whatever the robots report, however the roles of robots come into the   *)
(* game collide and however messages are late or lost, the coach never     *)
(* reads the row of a policy beyond its end: what it tells a robot is a    *)
(* role.  The policy needs a row for as many players as there are robots.  *)
THEOREM RolesTypeCorrect ==
  ASSUME NumRobots <= MaxPlayers
  PROVE  RolesSpec => []RolesTypeOK
<1>1. RolesInit => RolesTypeOK
  <2> SUFFICES ASSUME RolesInit PROVE RolesTypeOK
    OBVIOUS
  <2>1. 0 \in 0 .. Second - 1 /\ 0 \in 0..MaxUpsets
    BY RolesAssumption
  <2> QED
    BY <2>1 DEF RolesInit, RolesTypeOK, SomeRole, NoLines, Lines
<1>2. RolesTypeOK /\ [RolesNext]_rolesVars => RolesTypeOK'
  BY RolesStep
<1> QED
  BY <1>1, <1>2, PTL DEF RolesSpec
=============================================================================
