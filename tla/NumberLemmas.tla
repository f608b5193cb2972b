---------------------------- MODULE NumberLemmas ----------------------------
(***************************************************************************)
(* Facts the proofs of several modules need: the smallest and the largest  *)
(* of some natural numbers, induction over the natural numbers with the    *)
(* numbers that have the property as a set, and functions that are defined *)
(* by what they return for the number before.                              *)
(***************************************************************************)
EXTENDS Integers, FiniteSets, FiniteSetTheorems, WellFoundedInduction, TLAPS

(* Any natural numbers have a smallest: the sets 0..n are well-ordered by  *)
(* inclusion.                                                              *)
LEMMA SmallestIsThere ==
  ASSUME NEW T \in SUBSET Nat, T # {}
  PROVE  \E m \in T : \A n \in T : m <= n
<1> DEFINE U == {0..n : n \in T}
<1>1. U \subseteq FiniteSubsetsOf(Nat) /\ U # {}
  <2>1. \A n \in T : 0..n \in SUBSET Nat /\ IsFiniteSet(0..n)
    <3> TAKE n \in T
    <3>1. n \in Int /\ 0 \in Int
      OBVIOUS
    <3>2. 0..n \in SUBSET Nat
      BY <3>1
    <3> QED
      BY <3>1, <3>2, FS_Interval
  <2>2. \A n \in T : 0..n \in FiniteSubsetsOf(Nat)
    BY <2>1, Zenon DEF FiniteSubsetsOf
  <2> QED
    BY <2>2, Zenon
<1>2. PICK x \in U : \A y \in U : <<y, x>> \notin StrictSubsetOrdering(Nat)
  BY <1>1, WFMin, FS_StrictSubsetOrderingWellFounded
<1>3. PICK m \in T : x = 0..m
  BY <1>2
<1>4. ASSUME NEW n \in T, n < m PROVE FALSE
  <2>1. 0..n \subseteq 0..m /\ m \in 0..m /\ m \notin 0..n /\ m \in Nat /\ n \in Nat
    BY <1>4
  <2>2. 0..n \in U /\ 0..n \in SUBSET Nat /\ 0..m \in SUBSET Nat /\ 0..n # 0..m
    BY <2>1
  <2>3. <<0..n, 0..m>> \in StrictSubsetOrdering(Nat)
    BY <2>1, <2>2 DEF StrictSubsetOrdering
  <2> QED
    BY <1>2, <1>3, <2>2, <2>3
<1> QED
  BY <1>3, <1>4

(* A finite set of natural numbers that is not empty has a largest: the    *)
(* parts of it below a number are well-ordered by inclusion, taken from    *)
(* above.                                                                  *)
LEMMA LargestIsThere ==
  ASSUME NEW S \in SUBSET Nat, IsFiniteSet(S), S # {}
  PROVE  \E m \in S : \A n \in S : n <= m
<1> DEFINE above(m) == {n \in S : n > m}
           T == {above(m) : m \in S}
<1>1. T \subseteq FiniteSubsetsOf(S)
  <2> SUFFICES ASSUME NEW m \in S PROVE above(m) \in FiniteSubsetsOf(S)
    OBVIOUS
  <2>1. above(m) \subseteq S
    OBVIOUS
  <2>2. IsFiniteSet(above(m))
    BY <2>1, FS_Subset
  <2> QED
    BY <2>1, <2>2 DEF FiniteSubsetsOf
<1>2. PICK x \in T : \A y \in T : ~ (<<y, x>> \in StrictSubsetOrdering(S))
  <2>1. T # {}
    OBVIOUS
  <2> HIDE DEF T
  <2> QED
    BY <1>1, <2>1, WFMin, FS_StrictSubsetOrderingWellFounded
<1>3. PICK m \in S : x = above(m)
  OBVIOUS
<1>4. ASSUME NEW n \in S, n > m PROVE FALSE
  <2>1. above(n) \in SUBSET S /\ above(m) \in SUBSET S /\ above(n) \subseteq above(m)
    <3>1. n \in Nat /\ m \in Nat /\ \A k \in S : k \in Nat
      BY <1>3, <1>4
    <3>2. \A k \in S : k > n => k > m
      BY <1>4, <3>1
    <3> QED
      BY <3>2
  <2>2. n \in above(m) /\ n \notin above(n)
    BY <1>4
  <2>3. <<above(n), above(m)>> \in StrictSubsetOrdering(S)
    BY <2>1, <2>2 DEF StrictSubsetOrdering
  <2> QED
    BY <1>2, <1>3, <2>3
<1> QED
  BY <1>4

(* What 0 has, and with any number the next one, all of them have.         *)
LEMMA Induction ==
  ASSUME NEW P, 0 \in P, \A n \in Nat : n \in P => n + 1 \in P
  PROVE  Nat \subseteq P
<1> SUFFICES ASSUME NEW k \in Nat, k \notin P PROVE FALSE
  OBVIOUS
<1> DEFINE S == {n \in 0..k : \A i \in 0..n : i \in P}
<1>1. S \in SUBSET Nat /\ 0 \in S
  OBVIOUS
<1>2. IsFiniteSet(S)
  <2>1. IsFiniteSet(0..k)
    BY FS_Interval
  <2> QED
    BY <2>1, FS_Subset
<1> HIDE DEF S
<1>3. PICK m \in S : \A n \in S : n <= m
  <2>1. S # {}
    BY <1>1
  <2> QED
    BY <1>1, <1>2, <2>1, LargestIsThere
<1>4. m \in Nat /\ m <= k /\ \A i \in 0..m : i \in P
  BY <1>3 DEF S
<1>5. m # k
  BY <1>4
<1>6. m + 1 \in P
  BY <1>4
<1>7. \A i \in 0 .. m + 1 : i \in P
  <2> SUFFICES ASSUME NEW i \in 0 .. m + 1 PROVE i \in P
    OBVIOUS
  <2>1. i \in 0..m \/ i = m + 1
    BY <1>4
  <2> QED
    BY <1>4, <1>6, <2>1
<1>8. m + 1 \in S
  BY <1>4, <1>5, <1>7 DEF S
<1> QED
  BY <1>3, <1>4, <1>8

(* A function can be applied again and again.                              *)
Iterated(f, g, r, n) == f[0] = r /\ \A k \in 1..n : f[k] = g[f[k - 1]]

LEMMA Iterates ==
  ASSUME NEW S, NEW g \in [S -> S], NEW r \in S, NEW N \in Nat
  PROVE  \E f \in [0..N -> S] : Iterated(f, g, r, N)
<1> DEFINE P == {n \in Nat : \E f \in [0..n -> S] : Iterated(f, g, r, n)}
<1>1. 0 \in P
  <2>1. [k \in 0..0 |-> r] \in [0..0 -> S] /\ Iterated([k \in 0..0 |-> r], g, r, 0)
    BY DEF Iterated
  <2> QED
    BY <2>1
<1>2. ASSUME NEW n \in Nat, n \in P PROVE n + 1 \in P
  <2>1. PICK f \in [0..n -> S] : Iterated(f, g, r, n)
    BY <1>2
  <2> DEFINE h == [k \in 0 .. n + 1 |-> IF k = n + 1 THEN g[f[n]] ELSE f[k]]
  <2>2. f[n] \in S /\ g[f[n]] \in S
    OBVIOUS
  <2>3. \A k \in 0..n : h[k] = f[k] /\ f[k] \in S
    OBVIOUS
  <2>4. h[n + 1] = g[f[n]]
    OBVIOUS
  <2>5. h \in [0 .. n + 1 -> S]
    <3> SUFFICES ASSUME NEW k \in 0 .. n + 1 PROVE h[k] \in S
      OBVIOUS
    <3>1. k = n + 1 \/ k \in 0..n
      OBVIOUS
    <3> QED
      BY <2>2, <2>3, <2>4, <3>1
  <2> HIDE DEF h
  <2>6. ASSUME NEW k \in 1 .. n + 1 PROVE h[k] = g[h[k - 1]]
    <3>1. CASE k = n + 1
      <4>1. k - 1 = n /\ n \in 0..n
        BY <3>1
      <4> QED
        BY <2>3, <2>4, <3>1, <4>1
    <3>2. CASE k # n + 1
      <4>1. k \in 1..n /\ k \in 0..n /\ k - 1 \in 0..n
        BY <3>2
      <4> QED
        BY <2>1, <2>3, <4>1 DEF Iterated
    <3> QED
      BY <3>1, <3>2
  <2>7. h[0] = r
    BY <2>1, <2>3 DEF Iterated
  <2>8. Iterated(h, g, r, n + 1)
    BY <2>6, <2>7 DEF Iterated
  <2> QED
    BY <2>5, <2>8
<1> HIDE DEF P
<1>3. N \in P
  BY <1>1, <1>2, Induction
<1> QED
  BY <1>3 DEF P
=============================================================================
