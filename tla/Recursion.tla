----------------------------- MODULE Recursion -----------------------------
(* Induction over the natural numbers, and what a recursive function is.   *)
(* The statements are about sets and functions, not about operators, so    *)
(* that they can be cited by name.                                         *)
EXTENDS Integers, WellFoundedInduction, TLAPS

(* A set of natural numbers that is not empty has a least element.         *)
LEMMA LeastNumber ==
  ASSUME NEW S \in SUBSET Nat, S # {}
  PROVE  \E m \in S : \A k \in S : m <= k
<1> DEFINE R == {ss \in Nat \X Nat : ss[1] < ss[2]}
<1>1. OpToRel(<, Nat) = R
  BY Zenon DEF OpToRel
<1>2. IsWellFoundedOn(R, Nat)
  BY NatLessThanWellFounded, <1>1, Zenon
<1>3. PICK m \in S : \A k \in S : ~ (<<k, m>> \in R)
  <2> HIDE DEF R
  <2> QED
    BY <1>2, WFMin
<1>4. \A k \in S : m <= k
  <2> SUFFICES ASSUME NEW k \in S PROVE m <= k
    OBVIOUS
  <2>1. k \in Nat /\ m \in Nat
    OBVIOUS
  <2>2. ~ (k < m)
    BY <1>3, <2>1
  <2> QED
    BY <2>1, <2>2
<1> QED
  BY <1>4

(* What is true of 0 and passes on to the next number is true of all.      *)
LEMMA Induction ==
  ASSUME NEW S, 0 \in S, \A n \in Nat : n \in S => n + 1 \in S
  PROVE  \A n \in Nat : n \in S
<1> SUFFICES ASSUME Nat \ S # {} PROVE FALSE
  OBVIOUS
<1>1. PICK m \in Nat \ S : \A k \in Nat \ S : m <= k
  BY LeastNumber
<1>2. m # 0 /\ m - 1 \in Nat
  OBVIOUS
<1>3. m - 1 \in S
  BY <1>1, <1>2
<1> QED
  BY <1>2, <1>3

(* The same up to n.                                                       *)
LEMMA InductionUpTo ==
  ASSUME NEW N \in Nat, NEW S, 0 \in S,
         \A n \in 0 .. N - 1 : n \in S => n + 1 \in S
  PROVE  \A n \in 0 .. N : n \in S
<1> DEFINE T == {n \in Nat : n <= N => n \in S}
<1>1. 0 \in T
  OBVIOUS
<1>2. \A n \in Nat : n \in T => n + 1 \in T
  OBVIOUS
<1> HIDE DEF T
<1>3. \A n \in Nat : n \in T
  BY <1>1, <1>2, Induction
<1> QED
  BY <1>3 DEF T
(* A function that is given by its first value and by what follows from    *)
(* one value for the next exists, and has its values where the steps lead. *)
StepsIn(N, S) == [1 .. N -> [S -> S]]

Runs(g, N, x, st) == g[0] = x /\ \A n \in 1 .. N : g[n] = st[n][g[n - 1]]

LEMMA RecursiveFunction ==
  ASSUME NEW N \in Nat, NEW S, NEW x \in S, NEW st \in StepsIn(N, S)
  PROVE  \E g : g \in [0 .. N -> S] /\ Runs(g, N, x, st)
<1> DEFINE T == {k \in 0 .. N : \E g \in [0 .. k -> S] : Runs(g, k, x, st)}
<1>1. 0 \in T
  <2> DEFINE h == [n \in 0 .. 0 |-> x]
  <2>1. h \in [0 .. 0 -> S] /\ Runs(h, 0, x, st)
    BY DEF Runs
  <2> HIDE DEF h
  <2> QED
    BY <2>1
<1>2. ASSUME NEW k \in 0 .. N - 1, k \in T PROVE k + 1 \in T
  <2>1. PICK g \in [0 .. k -> S] : Runs(g, k, x, st)
    BY <1>2
  <2> DEFINE h == [n \in 0 .. k + 1 |->
                     IF n = k + 1 THEN st[k + 1][g[k]] ELSE g[n]]
  <2>2. g[k] \in S /\ st[k + 1] \in [S -> S]
    BY DEF StepsIn
  <2>3. h \in [0 .. k + 1 -> S]
    BY <2>2
  <2>4. h[0] = x
    BY <2>1 DEF Runs
  <2>5. ASSUME NEW n \in 1 .. k + 1 PROVE h[n] = st[n][h[n - 1]]
    <3>1. CASE n = k + 1
      BY <3>1
    <3>2. CASE n # k + 1
      BY <2>1, <3>2 DEF Runs
    <3> QED
      BY <3>1, <3>2
  <2> HIDE DEF h
  <2> QED
    BY <2>3, <2>4, <2>5 DEF Runs
<1> HIDE DEF T
<1>3. \A k \in 0 .. N : k \in T
  BY <1>1, <1>2, InductionUpTo
<1> QED
  BY <1>3 DEF T
=============================================================================
