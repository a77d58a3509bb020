----------------------------- MODULE InductionProofs -----------------------------
(*******************************************************************************)
(* Induction over the natural numbers, stated of sets, and recursion, stated of *)
(* functions: what the proofs about recursively defined functions on sequences  *)
(* rest on.  The induction theorems of the library take the property as an      *)
(* operator; here it is a set, so that a lemma is cited with its instance as    *)
(* any other.  All of it follows from one fact about finite sets: the finite    *)
(* subsets of a set have no infinite descent.                                   *)
(*******************************************************************************)
EXTENDS Integers, Sequences, SequencesExt, FiniteSets, FiniteSetTheorems, TLAPS

(* A set of natural numbers that is not empty has a least one. *)
LEMMA NatLeast ==
  ASSUME NEW S \in SUBSET Nat, S # {}
  PROVE  \E m \in S : \A k \in S : m <= k
<1> DEFINE F == {0 .. n : n \in S}
           R == StrictSubsetOrdering(Nat)
<1>1. F \subseteq FiniteSubsetsOf(Nat)
  <2>1. ASSUME NEW n \in S PROVE IsFiniteSet(0 .. n) /\ 0 .. n \subseteq Nat
    BY FS_Interval
  <2>2. QED
    BY <2>1 DEF FiniteSubsetsOf
<1>2. IsWellFoundedOn(R, FiniteSubsetsOf(Nat))
  BY FS_StrictSubsetOrderingWellFounded
<1>3. F # {}
  OBVIOUS
<1> HIDE DEF F, R
<1>4. PICK x \in F : \A y \in F : ~(<<y, x>> \in R)
  BY <1>1, <1>2, <1>3, WFMin, Zenon
<1>5. PICK m \in S : x = 0 .. m
  BY DEF F
<1>6. ASSUME NEW k \in S PROVE m <= k
  <2> SUFFICES ASSUME k < m PROVE FALSE
    OBVIOUS
  <2>1. 0 .. k \in F
    BY DEF F
  <2>2. 0 .. k \subseteq 0 .. m /\ 0 .. k # 0 .. m
    <3>1. m \in 0 .. m /\ m \notin 0 .. k
      OBVIOUS
    <3>2. QED
      BY <3>1
  <2>3. 0 .. k \in SUBSET Nat /\ 0 .. m \in SUBSET Nat
    OBVIOUS
  <2>4. <<0 .. k, 0 .. m>> \in R
    BY <2>2, <2>3 DEF R, StrictSubsetOrdering
  <2>5. QED
    BY <1>4, <1>5, <2>1, <2>4
<1>7. QED
  BY <1>6

(* Induction over an interval from 0, of a set. *)
LEMMA IntervalInduction ==
  ASSUME NEW N \in Nat, NEW S, 0 \in S, \A n \in 0 .. N - 1 : n \in S => n + 1 \in S
  PROVE  0 .. N \subseteq S
<1> SUFFICES ASSUME (0 .. N) \ S # {} PROVE FALSE
  OBVIOUS
<1>1. PICK m \in (0 .. N) \ S : \A k \in (0 .. N) \ S : m <= k
  <2>1. (0 .. N) \ S \in SUBSET Nat
    OBVIOUS
  <2>2. QED
    BY <2>1, NatLeast
<1>2. m # 0 /\ m - 1 \in 0 .. N - 1 /\ m - 1 \in S
  BY <1>1
<1>3. QED
  BY <1>2

(* A function may be defined along an interval: its value at n from the one at *)
(* n - 1 by a step.                                                             *)
Follows(f, N, V, base, step) ==
  /\ f \in [0 .. N -> V]
  /\ f[0] = base
  /\ \A n \in 1 .. N : f[n] = step[n][f[n - 1]]

(* There is such a function for every length and every sequence of steps. *)
LEMMA RecursionExists ==
  ASSUME NEW N \in Nat, NEW V, NEW base \in V, NEW step,
         \A n \in 1 .. N : \A v \in V : step[n][v] \in V
  PROVE  \E f : Follows(f, N, V, base, step)
<1> DEFINE Upto(n, f) == f[0] = base /\ \A i \in 1 .. n : f[i] = step[i][f[i - 1]]
           S == {n \in 0 .. N : \E f \in [0 .. n -> V] : Upto(n, f)}
<1>1. 0 \in S
  <2> DEFINE h == [i \in 0 .. 0 |-> base]
  <2>1. h \in [0 .. 0 -> V] /\ Upto(0, h)
    OBVIOUS
  <2> HIDE DEF h, Upto
  <2>2. QED
    BY <2>1
<1>2. ASSUME NEW n \in 0 .. N - 1, n \in S PROVE n + 1 \in S
  <2>1. PICK f \in [0 .. n -> V] : Upto(n, f)
    BY <1>2
  <2> DEFINE g == [i \in 0 .. n + 1 |-> IF i <= n THEN f[i] ELSE step[n + 1][f[n]]]
  <2>2. step[n + 1][f[n]] \in V
    <3>1. n + 1 \in 1 .. N /\ f[n] \in V
      OBVIOUS
    <3>2. QED
      BY <3>1
  <2>3. g \in [0 .. n + 1 -> V]
    BY <2>2
  <2>4. g[0] = base /\ g[n + 1] = step[n + 1][g[n]]
    BY <2>1
  <2>5. ASSUME NEW i \in 1 .. n + 1 PROVE g[i] = step[i][g[i - 1]]
    <3>1. CASE i = n + 1
      BY <2>4, <3>1
    <3>2. CASE i \in 1 .. n
      BY <2>1, <3>2
    <3>3. QED
      BY <3>1, <3>2
  <2>6. Upto(n + 1, g)
    BY <2>4, <2>5
  <2> HIDE DEF g, Upto
  <2>7. QED
    BY <2>3, <2>6
<1> HIDE DEF S
<1>3. 0 .. N \subseteq S
  BY <1>1, <1>2, IntervalInduction
<1>4. N \in S
  BY <1>3
<1>5. QED
  BY <1>4 DEF S, Follows

(* The least element of a set of natural numbers is what Min says. *)
LEMMA MinIsLeast ==
  ASSUME NEW S \in SUBSET Nat, S # {}
  PROVE  Min(S) \in S /\ \A k \in S : Min(S) <= k
<1>1. \E m \in S : \A k \in S : m <= k
  BY NatLeast
<1>2. QED
  BY <1>1 DEF Min

(* An element that no other is below is the least. *)
LEMMA MinIs ==
  ASSUME NEW S \in SUBSET Nat, NEW m \in S, \A k \in S : m <= k
  PROVE  Min(S) = m
<1>1. Min(S) \in S /\ Min(S) <= m
  BY MinIsLeast
<1>2. Min(S) \in Nat /\ m \in Nat /\ m <= Min(S)
  BY <1>1
<1>3. QED
  BY <1>1, <1>2
=================================================================================
