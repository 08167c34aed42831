-------------------------- MODULE AscendingProofs --------------------------
(* What the ascending order of a finite set of numbers is.                 *)
EXTENDS Ascending, Sequences, FiniteSetTheorems, TLAPS

Rank(S) == [u \in S |-> Cardinality(UpTo(S, u))]

(* The rank of an element is one of the places there are.                  *)
LEMMA RankInRange ==
  ASSUME NEW S \in SUBSET Int, IsFiniteSet(S), NEW u \in S
  PROVE  Cardinality(UpTo(S, u)) \in 1 .. Cardinality(S)
<1>1. UpTo(S, u) \in SUBSET S
  BY DEF UpTo
<1>2. u \in Int /\ u \in UpTo(S, u)
  BY DEF UpTo
<1>3. /\ IsFiniteSet(UpTo(S, u))
      /\ Cardinality(UpTo(S, u)) <= Cardinality(S)
  BY <1>1, FS_Subset
<1>4. /\ Cardinality(UpTo(S, u)) \in Nat /\ Cardinality(S) \in Nat
      /\ Cardinality(UpTo(S, u)) # 0
  BY <1>2, <1>3, FS_CardinalityType, FS_EmptySet
<1> QED
  BY <1>3, <1>4

(* A greater element has a greater rank.                                   *)
LEMMA RankAscends ==
  ASSUME NEW S \in SUBSET Int, IsFiniteSet(S),
         NEW u \in S, NEW v \in S, u < v
  PROVE  Cardinality(UpTo(S, u)) < Cardinality(UpTo(S, v))
<1>1. UpTo(S, v) \in SUBSET S
  BY DEF UpTo
<1>2. UpTo(S, u) \in SUBSET UpTo(S, v)
  <2> SUFFICES ASSUME NEW w \in S, w <= u PROVE w <= v
    BY DEF UpTo
  <2>1. u \in Int /\ v \in Int /\ w \in Int
    OBVIOUS
  <2> QED
    BY <2>1
<1>3. v \in UpTo(S, v) /\ v \notin UpTo(S, u)
  <2>1. u \in Int /\ v \in Int
    OBVIOUS
  <2> QED
    BY <2>1 DEF UpTo
<1>4. IsFiniteSet(UpTo(S, v))
  BY <1>1, FS_Subset
<1>5. /\ Cardinality(UpTo(S, u)) <= Cardinality(UpTo(S, v))
      /\ Cardinality(UpTo(S, u)) # Cardinality(UpTo(S, v))
  BY <1>2, <1>3, <1>4, FS_Subset
<1>6. /\ Cardinality(UpTo(S, u)) \in Int
      /\ Cardinality(UpTo(S, v)) \in Int
  BY RankInRange
<1> QED
  BY <1>5, <1>6

(* There is an element of every rank: ranks are distinct, and as many as   *)
(* places.                                                                 *)
LEMMA RankTaken ==
  ASSUME NEW S \in SUBSET Int, IsFiniteSet(S), NEW n \in 1 .. Cardinality(S)
  PROVE  \E u \in S : Cardinality(UpTo(S, u)) = n
<1> DEFINE T == 1 .. Cardinality(S)
<1>1. Cardinality(S) \in Nat
  BY FS_CardinalityType
<1>2. IsFiniteSet(T) /\ Cardinality(T) = Cardinality(S)
  BY <1>1, FS_Interval
<1>3. Rank(S) \in [S -> T]
  BY RankInRange DEF Rank
<1>4. \A u, v \in S : Rank(S)[u] = Rank(S)[v] => u = v
  <2> SUFFICES ASSUME NEW u \in S, NEW v \in S, u # v
               PROVE  Cardinality(UpTo(S, u)) # Cardinality(UpTo(S, v))
    BY DEF Rank
  <2>1. u < v \/ v < u
    <3>1. u \in Int /\ v \in Int
      OBVIOUS
    <3> QED
      BY <3>1
  <2>2. /\ Cardinality(UpTo(S, u)) \in Int
        /\ Cardinality(UpTo(S, v)) \in Int
    BY RankInRange
  <2>3. CASE u < v
    BY <2>2, <2>3, RankAscends
  <2>4. CASE v < u
    BY <2>2, <2>4, RankAscends
  <2> QED
    BY <2>1, <2>3, <2>4
<1>5. Rank(S) \in Injection(S, T)
  BY <1>3, <1>4 DEF Injection, IsInjective
<1>6. Rank(S) \in Surjection(S, T)
  BY <1>2, <1>5, FS_Injection
<1> QED
  BY <1>6 DEF Surjection, Rank

(* InOrder(S) is a sequence of the elements of S, each once, ascending.    *)
LEMMA InOrderIsSequence ==
  ASSUME NEW S \in SUBSET Int, IsFiniteSet(S)
  PROVE  /\ InOrder(S) \in Seq(S)
         /\ Len(InOrder(S)) = Cardinality(S)
         /\ Cardinality(S) \in Nat
<1>1. Cardinality(S) \in Nat
  BY FS_CardinalityType
<1>2. \A n \in 1 .. Cardinality(S) :
        (CHOOSE u \in S : Cardinality(UpTo(S, u)) = n) \in S
  BY RankTaken
<1> QED
  BY <1>1, <1>2 DEF InOrder

LEMMA InOrderAscends ==
  ASSUME NEW S \in SUBSET Int, IsFiniteSet(S),
         NEW m \in 1 .. Cardinality(S), NEW n \in 1 .. Cardinality(S), m < n
  PROVE  InOrder(S)[m] < InOrder(S)[n]
<1> DEFINE u == InOrder(S)[m]
           v == InOrder(S)[n]
<1>1. u \in S /\ Cardinality(UpTo(S, u)) = m
  BY RankTaken DEF InOrder
<1>2. v \in S /\ Cardinality(UpTo(S, v)) = n
  BY RankTaken DEF InOrder
<1>3. m \in Int /\ n \in Int
  BY FS_CardinalityType
<1>4. u # v
  BY <1>1, <1>2, <1>3
<1>5. ~(v < u)
  <2> SUFFICES ASSUME v < u PROVE FALSE
    OBVIOUS
  <2>1. Cardinality(UpTo(S, v)) < Cardinality(UpTo(S, u))
    BY <1>1, <1>2, RankAscends
  <2> QED
    BY <2>1, <1>1, <1>2, <1>3
<1>6. u \in Int /\ v \in Int
  BY <1>1, <1>2
<1> QED
  BY <1>4, <1>5, <1>6

LEMMA InOrderCovers ==
  ASSUME NEW S \in SUBSET Int, IsFiniteSet(S), NEW u \in S
  PROVE  \E n \in 1 .. Cardinality(S) : InOrder(S)[n] = u
<1> DEFINE n == Cardinality(UpTo(S, u))
           v == InOrder(S)[n]
<1>1. n \in 1 .. Cardinality(S)
  BY RankInRange
<1>2. v \in S /\ Cardinality(UpTo(S, v)) = n
  BY <1>1, RankTaken DEF InOrder
<1>3. n \in Int
  BY <1>1
<1> HIDE DEF n, v
<1>4. ~(u < v)
  BY <1>2, <1>3, RankAscends DEF n
<1>5. ~(v < u)
  BY <1>2, <1>3, RankAscends DEF n
<1>6. u \in Int /\ v \in Int
  BY <1>2
<1>7. u = v
  BY <1>4, <1>5, <1>6
<1> QED
  BY <1>1, <1>7 DEF v

(* The last one is the greatest, the first one the least.                  *)
LEMMA InOrderEnds ==
  ASSUME NEW S \in SUBSET Int, IsFiniteSet(S), NEW u \in S
  PROVE  /\ Cardinality(S) >= 1
         /\ u <= InOrder(S)[Cardinality(S)]
         /\ InOrder(S)[1] <= u
<1>1. PICK n \in 1 .. Cardinality(S) : InOrder(S)[n] = u
  BY InOrderCovers
<1>2. Cardinality(S) \in Nat
  BY FS_CardinalityType
<1>3. 1 \in 1 .. Cardinality(S) /\ Cardinality(S) \in 1 .. Cardinality(S)
  BY <1>1, <1>2
<1>4. u \in Int
  OBVIOUS
<1>5. InOrder(S)[1] <= u
  <2>1. CASE n = 1
    BY <2>1, <1>1, <1>4
  <2>2. CASE 1 < n
    <3>1. InOrder(S)[1] < InOrder(S)[n]
      BY <2>2, <1>3, InOrderAscends
    <3>2. InOrder(S)[1] \in Int
      BY <1>3, RankTaken DEF InOrder
    <3> QED
      BY <3>1, <3>2, <1>1, <1>4
  <2> QED
    BY <2>1, <2>2, <1>1, <1>2
<1>6. u <= InOrder(S)[Cardinality(S)]
  <2>1. CASE n = Cardinality(S)
    BY <2>1, <1>1, <1>4
  <2>2. CASE n < Cardinality(S)
    <3>1. InOrder(S)[n] < InOrder(S)[Cardinality(S)]
      BY <2>2, <1>3, InOrderAscends
    <3>2. InOrder(S)[Cardinality(S)] \in Int
      BY <1>3, RankTaken DEF InOrder
    <3> QED
      BY <3>1, <3>2, <1>1, <1>4
  <2> QED
    BY <2>1, <2>2, <1>1, <1>2
<1> QED
  BY <1>2, <1>3, <1>5, <1>6
=============================================================================
