-------------------------- MODULE SquishBaseProofs --------------------------
(* Proofs about SquishBase: between any two calls of a careful program the *)
(* two chains, the index, the cursor, the ids and the handle that is       *)
(* writing agree, and what the calls do to the list of messages is what a  *)
(* message area may do.                                                    *)
(*                                                                         *)
(* The chains are functions from the integers, not sequences, so that a    *)
(* link of any frame, the first and the last included, is the chain's      *)
(* value one place away.  The parts that follow are the chains, the        *)
(* operators of SquishBase on them, a sound base, each call on a sound     *)
(* base, and the theorems.                                                 *)
EXTENDS SquishBase, Recursion, FiniteSetTheorems, SequenceTheorems

---------------------------------------------------------------------------
(***************************************************************************)
(* Chains.  A chain of n frames is a function c from the integers: c[1] .. *)
(* c[n] are its frames, everywhere else it is NULL_FRAME, so that c[i - 1] *)
(* and c[i + 1] are what the links of its i'th frame have to be.           *)
(***************************************************************************)
IsChain(c, n) ==
  /\ n \in Nat /\ c \in [Int -> Ofs]
  /\ \A i \in Int : i \in 1 .. n <=> c[i] # NULL_FRAME
  /\ \A i, j \in 1 .. n : c[i] = c[j] => i = j

Linked(frame, c, n) ==
  \A i \in 1 .. n : frame[c[i]].prev = c[i - 1] /\ frame[c[i]].next = c[i + 1]

In(f, c, n) == \E i \in 1 .. n : c[i] = f

(* Without the d frames behind the s'th; with the frames of e behind it.   *)
Cut(c, s, d) == [i \in Int |-> IF i <= s THEN c[i] ELSE c[i + d]]

Joined(c, n, e) == [i \in Int |-> IF i <= n THEN c[i] ELSE e[i - n]]

Single(f) == [i \in Int |-> IF i = 1 THEN f ELSE NULL_FRAME]

Part(c, s, d) == [i \in Int |-> IF i \in 1 .. d THEN c[i + s] ELSE NULL_FRAME]

(* A chain is NULL_FRAME outside its n frames, before and behind them too. *)
LEMMA ChainFacts ==
  ASSUME NEW c, NEW n, IsChain(c, n)
  PROVE  /\ \A i \in Int : i \notin 1 .. n => c[i] = NULL_FRAME
         /\ \A i \in 1 .. n : c[i] \in Frames
         /\ c[0] = NULL_FRAME /\ c[n + 1] = NULL_FRAME
BY SizesAssumption DEF IsChain, Ofs, Frames, NULL_FRAME

(* What is left of a chain without d of its frames is a chain of the       *)
(* others.                                                                 *)
LEMMA CutIsChain ==
  ASSUME NEW c, NEW n, IsChain(c, n), NEW d \in Nat, NEW s \in 0 .. n - d
  PROVE  /\ IsChain(Cut(c, s, d), n - d)
         /\ \A f \in Frames : In(f, Cut(c, s, d), n - d) <=>
              In(f, c, n) /\ ~ \E i \in s + 1 .. s + d : c[i] = f
<1> DEFINE e == Cut(c, s, d)
<1>1. \A i \in Int : e[i] = IF i <= s THEN c[i] ELSE c[i + d]
  BY DEF Cut
<1>2. e \in [Int -> Ofs]
  BY DEF Cut, IsChain
<1>3. n \in Nat /\ n - d \in Nat
  BY DEF IsChain
<1> HIDE DEF e
<1>4. \A i \in Int : i \in 1 .. n - d <=> e[i] # NULL_FRAME
  BY <1>1, <1>3 DEF IsChain
<1>5. \A i, j \in 1 .. n - d : e[i] = e[j] => i = j
  BY <1>1, <1>3 DEF IsChain
<1>6. ASSUME NEW f \in Frames
      PROVE  In(f, e, n - d) <=>
               In(f, c, n) /\ ~ \E i \in s + 1 .. s + d : c[i] = f
  <2>1. ASSUME In(f, e, n - d)
        PROVE  In(f, c, n) /\ ~ \E i \in s + 1 .. s + d : c[i] = f
    BY <1>1, <1>3, <2>1 DEF IsChain, In
  <2>2. ASSUME NEW i \in 1 .. n, c[i] = f, i \notin s + 1 .. s + d
        PROVE  In(f, e, n - d)
    <3>1. CASE i <= s
      BY <1>1, <1>3, <2>2, <3>1 DEF In
    <3>2. CASE i > s + d
      <4>1. i - d \in 1 .. n - d /\ e[i - d] = f
        BY <1>1, <1>3, <2>2, <3>2
      <4> QED
        BY <4>1 DEF In
    <3> QED
      BY <1>3, <2>2, <3>1, <3>2
  <2> QED
    BY <2>1, <2>2 DEF In
<1> QED
  BY <1>2, <1>3, <1>4, <1>5, <1>6 DEF e, IsChain

(* Linking the frames beside the gap over it leaves a linked chain.        *)
LEMMA CutLinked ==
  ASSUME NEW c, NEW n, IsChain(c, n), NEW d \in Nat, NEW s \in 0 .. n - d,
         NEW frame, NEW other, Linked(frame, c, n),
         \A i \in 1 .. n : i <= s \/ i > s + d =>
           /\ other[c[i]].prev = IF i = s + d + 1 THEN c[s] ELSE frame[c[i]].prev
           /\ other[c[i]].next = IF i = s THEN c[s + d + 1] ELSE frame[c[i]].next
  PROVE  Linked(other, Cut(c, s, d), n - d)
<1> DEFINE e == Cut(c, s, d)
<1>1. \A i \in Int : e[i] = IF i <= s THEN c[i] ELSE c[i + d]
  BY DEF Cut
<1>2. n \in Nat
  BY DEF IsChain
<1> HIDE DEF e
<1>3. ASSUME NEW i \in 1 .. n - d
      PROVE  other[e[i]].prev = e[i - 1] /\ other[e[i]].next = e[i + 1]
  <2>1. CASE i <= s
    <3>1. /\ i \in 1 .. n /\ e[i] = c[i] /\ e[i - 1] = c[i - 1]
          /\ e[i + 1] = IF i = s THEN c[s + d + 1] ELSE c[i + 1]
      BY <1>1, <1>2, <2>1
    <3> QED
      BY <1>2, <2>1, <3>1 DEF Linked
  <2>2. CASE i > s
    <3>1. /\ i + d \in 1 .. n /\ e[i] = c[i + d] /\ e[i + 1] = c[i + d + 1]
          /\ e[i - 1] = IF i + d = s + d + 1 THEN c[s] ELSE c[i + d - 1]
      BY <1>1, <1>2, <2>2
    <3>2. i + d \in Nat /\ i + d > s + d
      BY <2>2
    <3> QED
      BY <1>2, <3>1, <3>2 DEF Linked
  <2> QED
    BY <2>1, <2>2
<1> QED
  BY <1>3 DEF e, Linked

(* Two chains without a frame in common, one behind the other, are a chain *)
(* of the frames of both.                                                  *)
LEMMA JoinedIsChain ==
  ASSUME NEW c, NEW n, IsChain(c, n), NEW e, NEW d, IsChain(e, d),
         \A i \in 1 .. n, j \in 1 .. d : c[i] # e[j]
  PROVE  /\ IsChain(Joined(c, n, e), n + d)
         /\ \A f : In(f, Joined(c, n, e), n + d) <=> In(f, c, n) \/ In(f, e, d)
<1> DEFINE g == Joined(c, n, e)
<1>1. \A i \in Int : g[i] = IF i <= n THEN c[i] ELSE e[i - n]
  BY DEF Joined
<1>2. n \in Nat /\ d \in Nat
  BY DEF IsChain
<1>3. g \in [Int -> Ofs]
  BY <1>2 DEF Joined, IsChain
<1> HIDE DEF g
<1>4. \A i \in Int : i \in 1 .. n + d <=> g[i] # NULL_FRAME
  <2> SUFFICES ASSUME NEW i \in Int
               PROVE  i \in 1 .. n + d <=> g[i] # NULL_FRAME
    OBVIOUS
  <2>1. CASE i <= n
    BY <1>1, <1>2, <2>1 DEF IsChain
  <2>2. CASE i > n
    <3>1. i - n \in Int /\ (i \in 1 .. n + d <=> i - n \in 1 .. d)
      BY <1>2, <2>2
    <3>2. g[i] = e[i - n]
      BY <1>1, <1>2, <2>2
    <3> QED
      BY <3>1, <3>2 DEF IsChain
  <2> QED
    BY <1>2, <2>1, <2>2
<1>5. \A i, j \in 1 .. n + d : g[i] = g[j] => i = j
  <2> SUFFICES ASSUME NEW i \in 1 .. n + d, NEW j \in 1 .. n + d, g[i] = g[j]
               PROVE  i = j
    OBVIOUS
  <2>1. CASE i <= n /\ j <= n
    BY <1>1, <1>2, <2>1 DEF IsChain
  <2>2. CASE i <= n /\ j > n
    <3>1. i \in 1 .. n /\ j - n \in 1 .. d /\ g[i] = c[i] /\ g[j] = e[j - n]
      BY <1>1, <1>2, <2>2
    <3> QED
      BY <3>1
  <2>3. CASE i > n /\ j <= n
    <3>1. j \in 1 .. n /\ i - n \in 1 .. d /\ g[j] = c[j] /\ g[i] = e[i - n]
      BY <1>1, <1>2, <2>3
    <3> QED
      BY <3>1
  <2>4. CASE i > n /\ j > n
    <3>1. /\ i - n \in 1 .. d /\ j - n \in 1 .. d
          /\ g[j] = e[j - n] /\ g[i] = e[i - n]
      BY <1>1, <1>2, <2>4
    <3>2. i - n = j - n
      BY <3>1 DEF IsChain
    <3> QED
      BY <1>2, <3>2
  <2> QED
    BY <1>2, <2>1, <2>2, <2>3, <2>4
<1>6. ASSUME NEW f PROVE In(f, g, n + d) <=> In(f, c, n) \/ In(f, e, d)
  <2>1. ASSUME NEW i \in 1 .. n + d, g[i] = f
        PROVE  In(f, c, n) \/ In(f, e, d)
    <3>1. \/ i \in 1 .. n /\ g[i] = c[i]
          \/ i - n \in 1 .. d /\ g[i] = e[i - n]
      BY <1>1, <1>2
    <3> QED
      BY <2>1, <3>1 DEF In
  <2>2. ASSUME NEW i \in 1 .. n, c[i] = f PROVE In(f, g, n + d)
    BY <1>1, <1>2, <2>2 DEF In
  <2>3. ASSUME NEW i \in 1 .. d, e[i] = f PROVE In(f, g, n + d)
    <3>1. i + n \in 1 .. n + d /\ g[i + n] = f
      BY <1>1, <1>2, <2>3
    <3> QED
      BY <3>1 DEF In
  <2> QED
    BY <2>1, <2>2, <2>3 DEF In
<1> QED
  BY <1>2, <1>3, <1>4, <1>5, <1>6 DEF g, IsChain

(* Linking the frames of one chain behind another gives a linked chain.    *)
LEMMA JoinedLinked ==
  ASSUME NEW c, NEW n, IsChain(c, n), NEW e, NEW d, IsChain(e, d),
         NEW frame, NEW other, Linked(frame, c, n),
         \A i \in 1 .. n :
           /\ other[c[i]].prev = frame[c[i]].prev
           /\ other[c[i]].next = IF i = n THEN e[1] ELSE frame[c[i]].next,
         \A i \in 1 .. d :
           /\ other[e[i]].prev = IF i = 1 THEN c[n] ELSE e[i - 1]
           /\ other[e[i]].next = e[i + 1]
  PROVE  Linked(other, Joined(c, n, e), n + d)
<1> DEFINE g == Joined(c, n, e)
<1>1. \A i \in Int : g[i] = IF i <= n THEN c[i] ELSE e[i - n]
  BY DEF Joined
<1>2. n \in Nat /\ d \in Nat
  BY DEF IsChain
<1> HIDE DEF g
<1>3. ASSUME NEW i \in 1 .. n + d
      PROVE  other[g[i]].prev = g[i - 1] /\ other[g[i]].next = g[i + 1]
  <2>1. CASE i <= n
    <3>1. /\ i \in 1 .. n /\ g[i] = c[i] /\ g[i - 1] = c[i - 1]
          /\ g[i + 1] = IF i = n THEN e[1] ELSE c[i + 1]
      BY <1>1, <1>2, <2>1
    <3> QED
      BY <3>1 DEF Linked
  <2>2. CASE i > n
    <3>1. /\ i - n \in 1 .. d /\ g[i] = e[i - n] /\ g[i + 1] = e[i - n + 1]
          /\ g[i - 1] = IF i - n = 1 THEN c[n] ELSE e[i - n - 1]
      BY <1>1, <1>2, <2>2
    <3> QED
      BY <3>1
  <2> QED
    BY <1>2, <2>1, <2>2
<1> QED
  BY <1>3 DEF g, Linked

(* A chain of n with a gap at m, where a frame is still to be linked in.   *)
Holed(c, n, m) ==
  /\ n \in Nat /\ c \in [Int -> Ofs] /\ m \in 1 .. n
  /\ \A i \in Int : i \in 1 .. n /\ i # m <=> c[i] # NULL_FRAME
  /\ \A i, j \in 1 .. n : c[i] = c[j] => i = j

HoleLinked(frame, c, n, m) ==
  \A i \in 1 .. n : i # m =>
    /\ i # m + 1 => frame[c[i]].prev = c[i - 1]
    /\ i # m - 1 => frame[c[i]].next = c[i + 1]

Filled(c, m, f) == [c EXCEPT ![m] = f]

(* A gap filled with a frame of neither part leaves a chain.               *)
LEMMA FilledIsChain ==
  ASSUME NEW c, NEW n, NEW m, Holed(c, n, m), NEW f \in Frames, ~ In(f, c, n)
  PROVE  /\ IsChain(Filled(c, m, f), n)
         /\ \A i \in Int : Filled(c, m, f)[i] = IF i = m THEN f ELSE c[i]
         /\ \A g \in Frames : In(g, Filled(c, m, f), n) <=> g = f \/ In(g, c, n)
<1> DEFINE e == Filled(c, m, f)
<1>1. f # NULL_FRAME /\ f \in Ofs
  BY SizesAssumption DEF Frames, NULL_FRAME, Ofs
<1>2. /\ \A i \in Int : e[i] = IF i = m THEN f ELSE c[i]
      /\ e \in [Int -> Ofs]
  BY <1>1 DEF Filled, Holed
<1>3. c[m] = NULL_FRAME /\ m \in Int /\ n \in Nat /\ m \in 1 .. n
  BY DEF Holed
<1> HIDE DEF e
<1>4. \A i \in Int : i \in 1 .. n <=> e[i] # NULL_FRAME
  BY <1>1, <1>2, <1>3 DEF Holed
<1>5. \A i, j \in 1 .. n : e[i] = e[j] => i = j
  BY <1>1, <1>2, <1>3 DEF Holed, In
<1>6. ASSUME NEW g \in Frames PROVE In(g, e, n) <=> g = f \/ In(g, c, n)
  <2>1. g # NULL_FRAME
    BY SizesAssumption DEF Frames, NULL_FRAME
  <2> QED
    BY <2>1, <1>2, <1>3 DEF In
<1> QED
  BY <1>2, <1>3, <1>4, <1>5, <1>6 DEF e, IsChain

(* The gap where a frame was, and the gap behind the last frame.           *)
Hollow(c, m) == [c EXCEPT ![m] = NULL_FRAME]

(* A chain whose m'th frame is taken away has its gap at m, and the others *)
(* are linked as they were.                                                *)
LEMMA HollowIs ==
  ASSUME NEW c, NEW n, IsChain(c, n), NEW m \in 1 .. n,
         NEW frame, NEW other, Linked(frame, c, n),
         \A i \in 1 .. n : i # m =>
           /\ other[c[i]].prev = frame[c[i]].prev
           /\ other[c[i]].next = frame[c[i]].next
  PROVE  /\ Holed(Hollow(c, m), n, m) /\ HoleLinked(other, Hollow(c, m), n, m)
         /\ \A i \in Int : i # m => Hollow(c, m)[i] = c[i]
         /\ \A g \in Frames : In(g, Hollow(c, m), n) <=> In(g, c, n) /\ g # c[m]
<1> DEFINE e == Hollow(c, m)
<1>1. /\ \A i \in Int : e[i] = IF i = m THEN NULL_FRAME ELSE c[i]
      /\ e \in [Int -> Ofs] /\ n \in Nat /\ m \in Int
  BY DEF Hollow, IsChain, Ofs
<1> HIDE DEF e
<1>2. Holed(e, n, m)
  BY <1>1 DEF IsChain, Holed
<1>3. HoleLinked(other, e, n, m)
  BY <1>1 DEF Linked, HoleLinked
<1>4. ASSUME NEW g \in Frames PROVE In(g, e, n) <=> In(g, c, n) /\ g # c[m]
  <2>1. g # NULL_FRAME
    BY SizesAssumption DEF Frames, NULL_FRAME
  <2>2. \A i \in 1 .. n : c[i] = c[m] => i = m
    BY DEF IsChain
  <2> QED
    BY <1>1, <2>1, <2>2 DEF In
<1> QED
  BY <1>1, <1>2, <1>3, <1>4 DEF e

(* The place behind the last frame of a chain is a gap of a chain of one   *)
(* more.                                                                   *)
LEMMA OpenEndIs ==
  ASSUME NEW c, NEW n, IsChain(c, n), NEW frame, Linked(frame, c, n)
  PROVE  /\ Holed(c, n + 1, n + 1) /\ HoleLinked(frame, c, n + 1, n + 1)
         /\ \A g \in Frames : In(g, c, n + 1) <=> In(g, c, n)
<1>1. n \in Nat /\ c[n + 1] = NULL_FRAME
  BY ChainFacts DEF IsChain
<1>2. Holed(c, n + 1, n + 1)
  BY <1>1 DEF IsChain, Holed
<1>3. HoleLinked(frame, c, n + 1, n + 1)
  BY <1>1 DEF Linked, HoleLinked
<1>4. NULL_FRAME \notin Frames
  BY SizesAssumption DEF Frames, NULL_FRAME
<1>5. 1 .. n + 1 = 1 .. n \cup {n + 1}
  BY <1>1
<1> QED
  BY <1>1, <1>2, <1>3, <1>4, <1>5 DEF In

(* Linking the neighbours of the gap to f, and f to them.                  *)
LEMMA FilledLinked ==
  ASSUME NEW c, NEW n, NEW m, Holed(c, n, m), NEW f,
         NEW frame, NEW other, HoleLinked(frame, c, n, m),
         other[f].prev = c[m - 1] /\ other[f].next = c[m + 1],
         \A i \in 1 .. n : i # m =>
           /\ other[c[i]].prev = IF i = m + 1 THEN f ELSE frame[c[i]].prev
           /\ other[c[i]].next = IF i = m - 1 THEN f ELSE frame[c[i]].next
  PROVE  Linked(other, Filled(c, m, f), n)
<1> DEFINE e == Filled(c, m, f)
<1>1. \A i \in Int : e[i] = IF i = m THEN f ELSE c[i]
  BY DEF Filled, Holed
<1>2. n \in Nat /\ m \in 1 .. n
  BY DEF Holed
<1> HIDE DEF e
<1>3. ASSUME NEW i \in 1 .. n
      PROVE  other[e[i]].prev = e[i - 1] /\ other[e[i]].next = e[i + 1]
  <2>1. CASE i = m
    BY <1>1, <1>2, <2>1
  <2>2. CASE i # m
    <3>1. /\ e[i] = c[i] /\ e[i - 1] = IF i = m + 1 THEN f ELSE c[i - 1]
          /\ e[i + 1] = IF i = m - 1 THEN f ELSE c[i + 1]
      BY <1>1, <1>2, <2>2
    <3> QED
      BY <1>2, <2>2, <3>1 DEF HoleLinked
  <2> QED
    BY <2>1, <2>2
<1> QED
  BY <1>3 DEF e, Linked

(* One frame is a chain.                                                   *)
LEMMA SingleIsChain ==
  ASSUME NEW f \in Frames
  PROVE  /\ IsChain(Single(f), 1) /\ Single(f)[1] = f
         /\ \A g : In(g, Single(f), 1) <=> g = f
         /\ Single(f)[0] = NULL_FRAME /\ Single(f)[2] = NULL_FRAME
<1>1. f # NULL_FRAME /\ f \in Ofs /\ NULL_FRAME \in Ofs
  BY SizesAssumption DEF Frames, NULL_FRAME, Ofs
<1>2. /\ Single(f) \in [Int -> Ofs]
      /\ \A i \in Int : Single(f)[i] = IF i = 1 THEN f ELSE NULL_FRAME
  BY <1>1 DEF Single
<1> QED
  BY <1>1, <1>2 DEF IsChain, In

(* Consecutive frames of a chain are a chain.                              *)
LEMMA PartIsChain ==
  ASSUME NEW c, NEW n, IsChain(c, n), NEW d \in Nat, NEW s \in 0 .. n - d
  PROVE  /\ IsChain(Part(c, s, d), d)
         /\ \A i \in 1 .. d : Part(c, s, d)[i] = c[i + s]
         /\ \A f : In(f, Part(c, s, d), d) <=>
              \E i \in s + 1 .. s + d : c[i] = f
<1> DEFINE e == Part(c, s, d)
<1>1. /\ n \in Nat
      /\ \A i \in Int : e[i] = IF i \in 1 .. d THEN c[i + s] ELSE NULL_FRAME
  BY DEF Part, IsChain
<1>2. e \in [Int -> Ofs]
  BY <1>1 DEF Part, IsChain, Ofs
<1> HIDE DEF e
<1>3. \A i \in Int : i \in 1 .. d <=> e[i] # NULL_FRAME
  BY <1>1 DEF IsChain
<1>4. \A i, j \in 1 .. d : e[i] = e[j] => i = j
  <2> SUFFICES ASSUME NEW i \in 1 .. d, NEW j \in 1 .. d, e[i] = e[j]
               PROVE  i = j
    OBVIOUS
  <2>1. i + s \in 1 .. n /\ j + s \in 1 .. n /\ c[i + s] = c[j + s]
    BY <1>1
  <2>2. i + s = j + s
    BY <2>1 DEF IsChain
  <2> QED
    BY <2>2
<1>5. ASSUME NEW f
      PROVE  In(f, e, d) <=> \E i \in s + 1 .. s + d : c[i] = f
  <2>1. ASSUME NEW i \in s + 1 .. s + d, c[i] = f PROVE In(f, e, d)
    <3>1. i - s \in 1 .. d /\ e[i - s] = c[i - s + s] /\ i - s + s = i
      BY <1>1
    <3> QED
      BY <2>1, <3>1 DEF In
  <2>2. ASSUME NEW i \in 1 .. d, e[i] = f
        PROVE  \E j \in s + 1 .. s + d : c[j] = f
    BY <1>1, <2>2
  <2> QED
    BY <2>1, <2>2 DEF In
<1> QED
  BY <1>1, <1>2, <1>3, <1>4, <1>5 DEF e, IsChain

(* A chain has at most as many frames as there are.                        *)
LEMMA ChainLengthBound ==
  ASSUME NEW c, NEW n, IsChain(c, n) PROVE n <= MaxFrames
<1> DEFINE g == [i \in 1 .. n |-> c[i]]
<1>1. n \in Nat /\ \A i \in 1 .. n : c[i] \in Frames
  BY ChainFacts DEF IsChain
<1>2. g \in Injection(1 .. n, Frames)
  BY <1>1 DEF IsChain, Injection, IsInjective
<1>3. /\ IsFiniteSet(Frames) /\ Cardinality(Frames) = MaxFrames
      /\ Cardinality(1 .. n) = n
  BY <1>1, SizesAssumption, FS_Interval DEF Frames
<1> HIDE DEF g
<1> QED
  BY <1>2, <1>3, FS_Injection

(* The set of its frames has n elements.                                   *)
LEMMA ChainCardinality ==
  ASSUME NEW c, NEW n, IsChain(c, n), NEW S, \A f : f \in S <=> In(f, c, n)
  PROVE  Cardinality(S) = n
<1> DEFINE g == [i \in 1 .. n |-> c[i]]
<1>1. n \in Nat
  BY DEF IsChain
<1>2. g \in Injection(1 .. n, S)
  BY DEF IsChain, Injection, IsInjective, In
<1>3. g \in Surjection(1 .. n, S)
  BY <1>2 DEF Injection, Surjection, In
<1>4. ExistsBijection(1 .. n, S)
  BY <1>2, <1>3 DEF ExistsBijection, Bijection
<1> QED
  BY <1>1, <1>4, FS_CountingElements

---------------------------------------------------------------------------
(***************************************************************************)
(* What the operators on a base do to its fields.                          *)
(***************************************************************************)
HdrMap == [Frames -> Hdr]

SetNext(frame, p, v) ==
  IF p = NULL_FRAME THEN frame ELSE [frame EXCEPT ![p].next = v]

SetPrev(frame, p, v) ==
  IF p = NULL_FRAME THEN frame ELSE [frame EXCEPT ![p].prev = v]

(* The links of p and v meet.                                              *)
Meet(frame, p, v) == SetPrev(SetNext(frame, p, v), v, p)

Touchable(b, p) == p = NULL_FRAME \/ Readable(b, p)

SameList(b, c) ==
  /\ c.idx = b.idx /\ c.num = b.num /\ c.first = b.first /\ c.last = b.last
  /\ c.hwm = b.hwm
SameFree(b, c) == c.free = b.free /\ c.lastFree = b.lastFree
SameCursor(b, c) ==
  /\ c.cur = b.cur /\ c.foCur = b.foCur /\ c.foPrev = b.foPrev
  /\ c.foNext = b.foNext
SameRest(b, c) ==
  /\ c.body = b.body /\ c.uidNext = b.uidNext /\ c.max = b.max
  /\ c.skip = b.skip /\ c.ok = b.ok

(* NULL_FRAME is an offset and no frame.                                   *)
LEMMA NullIsNoFrame ==
  /\ NULL_FRAME \notin Frames /\ NULL_FRAME \in Ofs /\ Frames \subseteq Ofs
  /\ \A f \in Ofs : f # NULL_FRAME => f \in Frames
  /\ Frames \subseteq Nat /\ Ofs \subseteq Nat
BY SizesAssumption DEF Frames, Ofs, NULL_FRAME

(* The fields of a frame header keep to their types, and an assignment to  *)
(* one keeps the header's.                                                 *)
LEMMA HdrFacts ==
  ASSUME NEW h \in Hdr
  PROVE  /\ h.prev \in Ofs /\ h.next \in Ofs
         /\ h.cap \in Sizes \cup {0} /\ h.len \in Sizes \cup {0}
         /\ h.type \in {"none", "normal", "free", "update"}
         /\ \A p, v \in Ofs : /\ [h EXCEPT !.prev = p] \in Hdr
                              /\ [h EXCEPT !.next = v] \in Hdr
                              /\ [h EXCEPT !.type = "update"] \in Hdr
BY DEF Hdr

(* Setting the forward link of p changes that field of p only, and nothing *)
(* when p is NULL_FRAME.                                                   *)
LEMMA SetNextIs ==
  ASSUME NEW frame \in HdrMap, NEW p \in Ofs, NEW v \in Ofs
  PROVE  /\ SetNext(frame, p, v) \in HdrMap
         /\ \A f \in Frames :
              /\ SetNext(frame, p, v)[f].next = IF f = p THEN v ELSE frame[f].next
              /\ SetNext(frame, p, v)[f].prev = frame[f].prev
              /\ SetNext(frame, p, v)[f].type = frame[f].type
              /\ SetNext(frame, p, v)[f].cap = frame[f].cap
              /\ f # p => SetNext(frame, p, v)[f] = frame[f]
<1>1. CASE p = NULL_FRAME
  BY <1>1, NullIsNoFrame DEF SetNext
<1>2. CASE p \in Frames
  <2>1. SetNext(frame, p, v) = [frame EXCEPT ![p] = [frame[p] EXCEPT !.next = v]]
    BY <1>2, NullIsNoFrame DEF SetNext
  <2>2. [frame[p] EXCEPT !.next = v] \in Hdr
    BY <1>2, HdrFacts DEF HdrMap
  <2>3. frame[p] \in Hdr
    BY <1>2 DEF HdrMap
  <2>4. /\ [frame[p] EXCEPT !.next = v].next = v
        /\ [frame[p] EXCEPT !.next = v].prev = frame[p].prev
        /\ [frame[p] EXCEPT !.next = v].type = frame[p].type
        /\ [frame[p] EXCEPT !.next = v].cap = frame[p].cap
    BY <2>3 DEF Hdr
  <2> QED
    BY <1>2, <2>1, <2>2, <2>4 DEF HdrMap
<1> QED
  BY <1>1, <1>2, NullIsNoFrame

(* Setting the backward link of p changes that field of p only.            *)
LEMMA SetPrevIs ==
  ASSUME NEW frame \in HdrMap, NEW p \in Ofs, NEW v \in Ofs
  PROVE  /\ SetPrev(frame, p, v) \in HdrMap
         /\ \A f \in Frames :
              /\ SetPrev(frame, p, v)[f].prev = IF f = p THEN v ELSE frame[f].prev
              /\ SetPrev(frame, p, v)[f].next = frame[f].next
              /\ SetPrev(frame, p, v)[f].type = frame[f].type
              /\ SetPrev(frame, p, v)[f].cap = frame[f].cap
              /\ f # p => SetPrev(frame, p, v)[f] = frame[f]
<1>1. CASE p = NULL_FRAME
  BY <1>1, NullIsNoFrame DEF SetPrev
<1>2. CASE p \in Frames
  <2>1. SetPrev(frame, p, v) = [frame EXCEPT ![p] = [frame[p] EXCEPT !.prev = v]]
    BY <1>2, NullIsNoFrame DEF SetPrev
  <2>2. [frame[p] EXCEPT !.prev = v] \in Hdr
    BY <1>2, HdrFacts DEF HdrMap
  <2>3. frame[p] \in Hdr
    BY <1>2 DEF HdrMap
  <2>4. /\ [frame[p] EXCEPT !.prev = v].prev = v
        /\ [frame[p] EXCEPT !.prev = v].next = frame[p].next
        /\ [frame[p] EXCEPT !.prev = v].type = frame[p].type
        /\ [frame[p] EXCEPT !.prev = v].cap = frame[p].cap
    BY <2>3 DEF Hdr
  <2> QED
    BY <1>2, <2>1, <2>2, <2>4 DEF HdrMap
<1> QED
  BY <1>1, <1>2, NullIsNoFrame

(* Linking p and v to each other changes one link of each.                 *)
LEMMA MeetIs ==
  ASSUME NEW frame \in HdrMap, NEW p \in Ofs, NEW v \in Ofs
  PROVE  /\ Meet(frame, p, v) \in HdrMap
         /\ \A f \in Frames :
              /\ Meet(frame, p, v)[f].next = IF f = p THEN v ELSE frame[f].next
              /\ Meet(frame, p, v)[f].prev = IF f = v THEN p ELSE frame[f].prev
              /\ Meet(frame, p, v)[f].type = frame[f].type
              /\ Meet(frame, p, v)[f].cap = frame[f].cap
              /\ f # p /\ f # v => Meet(frame, p, v)[f] = frame[f]
<1> DEFINE e == SetNext(frame, p, v)
<1>1. /\ e \in HdrMap
      /\ \A f \in Frames :
           /\ e[f].next = IF f = p THEN v ELSE frame[f].next
           /\ e[f].prev = frame[f].prev
           /\ e[f].type = frame[f].type
           /\ e[f].cap = frame[f].cap
           /\ f # p => e[f] = frame[f]
  BY SetNextIs
<1>2. Meet(frame, p, v) = SetPrev(e, v, p)
  BY DEF Meet
<1> HIDE DEF e
<1>3. /\ SetPrev(e, v, p) \in HdrMap
      /\ \A f \in Frames :
           /\ SetPrev(e, v, p)[f].prev = IF f = v THEN p ELSE e[f].prev
           /\ SetPrev(e, v, p)[f].next = e[f].next
           /\ SetPrev(e, v, p)[f].type = e[f].type
           /\ SetPrev(e, v, p)[f].cap = e[f].cap
           /\ f # v => SetPrev(e, v, p)[f] = e[f]
  BY <1>1, SetPrevIs
<1> QED
  BY <1>1, <1>2, <1>3

(* Linking the neighbours of a chain's m'th frame over it takes it out.     *)
LEMMA UnlinkedIs ==
  ASSUME NEW frame \in HdrMap, NEW c, NEW n, IsChain(c, n),
         Linked(frame, c, n), NEW m \in 1 .. n,
         NEW other, other = Meet(frame, c[m - 1], c[m + 1]),
         NEW e, e = Cut(c, m - 1, 1)
  PROVE  /\ other \in HdrMap
         /\ IsChain(e, n - 1) /\ Linked(other, e, n - 1)
         /\ \A i \in Int : e[i] = IF i < m THEN c[i] ELSE c[i + 1]
         /\ \A f \in Frames : In(f, e, n - 1) <=> In(f, c, n) /\ f # c[m]
         /\ \A f \in Frames : /\ other[f].type = frame[f].type
                              /\ other[f].cap = frame[f].cap
                              /\ ~ In(f, c, n) => other[f] = frame[f]
<1>1. n \in Nat /\ m \in Nat /\ m - 1 \in 0 .. n - 1
  BY DEF IsChain
<1>2. c[m - 1] \in Ofs /\ c[m + 1] \in Ofs
  BY <1>1 DEF IsChain
<1>3. /\ other \in HdrMap
      /\ \A f \in Frames :
           /\ other[f].next = IF f = c[m - 1] THEN c[m + 1] ELSE frame[f].next
           /\ other[f].prev = IF f = c[m + 1] THEN c[m - 1] ELSE frame[f].prev
           /\ other[f].type = frame[f].type
           /\ other[f].cap = frame[f].cap
           /\ f # c[m - 1] /\ f # c[m + 1] => other[f] = frame[f]
  BY <1>2, MeetIs
<1>4. /\ IsChain(e, n - 1)
      /\ \A f \in Frames : In(f, e, n - 1) <=> In(f, c, n) /\ f # c[m]
  <2>1. /\ IsChain(Cut(c, m - 1, 1), n - 1)
        /\ \A f \in Frames : In(f, Cut(c, m - 1, 1), n - 1) <=>
              In(f, c, n) /\ ~ \E i \in m - 1 + 1 .. m - 1 + 1 : c[i] = f
    BY <1>1, CutIsChain
  <2>2. m - 1 + 1 .. m - 1 + 1 = {m}
    BY <1>1
  <2> QED
    BY <2>1, <2>2
<1>5. \A i \in Int : e[i] = IF i < m THEN c[i] ELSE c[i + 1]
  BY <1>1 DEF Cut
<1>6. \A i \in 1 .. n : /\ c[i] \in Frames /\ c[i] # NULL_FRAME
                        /\ c[i] = c[m - 1] <=> i = m - 1
                        /\ c[i] = c[m + 1] <=> i = m + 1
  <2>1. \A i \in 1 .. n : c[i] \in Frames /\ c[i] # NULL_FRAME
    BY ChainFacts, NullIsNoFrame
  <2>2. \A i \in 1 .. n, j \in Int : c[i] = c[j] => i = j
    BY <2>1 DEF IsChain
  <2> QED
    BY <1>1, <2>1, <2>2
<1>7. \A i \in 1 .. n : i <= m - 1 \/ i > m - 1 + 1 =>
        /\ other[c[i]].prev = IF i = m - 1 + 1 + 1 THEN c[m - 1] ELSE frame[c[i]].prev
        /\ other[c[i]].next = IF i = m - 1 THEN c[m - 1 + 1 + 1] ELSE frame[c[i]].next
  <2>1. m - 1 + 1 + 1 = m + 1
    BY <1>1
  <2> QED
    BY <1>3, <1>6, <2>1
<1>8. Linked(other, e, n - 1)
  BY <1>1, <1>7, CutLinked
<1>9. \A f \in Frames : ~ In(f, c, n) => other[f] = frame[f]
  <2> SUFFICES ASSUME NEW f \in Frames, ~ In(f, c, n)
               PROVE  f # c[m - 1] /\ f # c[m + 1]
    BY <1>3
  <2>1. \A i \in Int : i \notin 1 .. n => c[i] # f
    BY ChainFacts, NullIsNoFrame
  <2> QED
    BY <1>1, <2>1 DEF In
<1> QED
  BY <1>3, <1>4, <1>5, <1>8, <1>9

(* Frame f with header h at the end of the free chain, behind p.           *)
Freed(frame, p, f, h) ==
  [SetNext(frame, p, f) EXCEPT
     ![f] = [h EXCEPT !.type = "free", !.len = 0, !.next = NULL_FRAME,
                      !.prev = p]]

(* The free chain with a frame put behind it: what _SquishInsertFreeChain  *)
(* makes of it (sq_help.c 103-152).                                        *)
LEMMA AppendedIs ==
  ASSUME NEW frame \in HdrMap, NEW q, NEW k, IsChain(q, k),
         Linked(frame, q, k), NEW f \in Frames, ~ In(f, q, k), NEW h \in Hdr,
         NEW other, other = Freed(frame, q[k], f, h),
         NEW e, e = Joined(q, k, Single(f))
  PROVE  /\ other \in HdrMap
         /\ IsChain(e, k + 1) /\ Linked(other, e, k + 1)
         /\ e[1] = (IF k = 0 THEN f ELSE q[1]) /\ e[k + 1] = f
         /\ \A g : In(g, e, k + 1) <=> In(g, q, k) \/ g = f
         /\ \A g \in Frames :
              /\ other[g].type = IF g = f THEN "free" ELSE frame[g].type
              /\ g # f /\ ~ In(g, q, k) => other[g] = frame[g]
<1>1. k \in Nat /\ q[k] \in Ofs /\ f \in Ofs
  BY NullIsNoFrame DEF IsChain
<1> DEFINE fr == [h EXCEPT !.type = "free", !.len = 0, !.next = NULL_FRAME,
                           !.prev = q[k]]
           mid == SetNext(frame, q[k], f)
<1>2. fr \in Hdr /\ fr.type = "free" /\ fr.prev = q[k] /\ fr.next = NULL_FRAME
  BY <1>1, NullIsNoFrame DEF Hdr
<1>3. /\ mid \in HdrMap
      /\ \A g \in Frames :
           /\ mid[g].next = IF g = q[k] THEN f ELSE frame[g].next
           /\ mid[g].prev = frame[g].prev
           /\ mid[g].type = frame[g].type
           /\ g # q[k] => mid[g] = frame[g]
  BY <1>1, SetNextIs
<1>4. other = [mid EXCEPT ![f] = fr]
  BY DEF Freed
<1> HIDE DEF fr, mid
<1>5. other \in HdrMap /\ \A g \in Frames : other[g] = IF g = f THEN fr ELSE mid[g]
  BY <1>2, <1>3, <1>4 DEF HdrMap
<1> DEFINE s == Single(f)
<1>6. /\ IsChain(s, 1) /\ s[1] = f /\ s[2] = NULL_FRAME
      /\ \A g : In(g, s, 1) <=> g = f
  BY SingleIsChain
<1> HIDE DEF s
<1>7. \A i \in 1 .. k : q[i] # f /\ q[i] \in Frames
  BY ChainFacts DEF In
<1>8. /\ IsChain(e, k + 1)
      /\ \A g : In(g, e, k + 1) <=> In(g, q, k) \/ g = f
  <2>1. e = Joined(q, k, s)
    BY DEF s
  <2>2. \A i \in 1 .. k, j \in 1 .. 1 : q[i] # s[j]
    BY <1>6, <1>7
  <2> QED
    BY <1>6, <2>1, <2>2, JoinedIsChain
<1>9. Linked(other, e, k + 1)
  <2>1. \A i \in 1 .. k :
          /\ other[q[i]].prev = frame[q[i]].prev
          /\ other[q[i]].next = IF i = k THEN s[1] ELSE frame[q[i]].next
    <3> SUFFICES ASSUME NEW i \in 1 .. k
                 PROVE  /\ other[q[i]].prev = frame[q[i]].prev
                        /\ other[q[i]].next = IF i = k THEN s[1] ELSE frame[q[i]].next
      OBVIOUS
    <3>1. other[q[i]] = mid[q[i]] /\ q[i] \in Frames
      BY <1>5, <1>7
    <3>2. q[i] = q[k] <=> i = k
      BY <1>1 DEF IsChain
    <3> QED
      BY <1>3, <1>6, <3>1, <3>2
  <2>2. \A i \in 1 .. 1 :
          /\ other[s[i]].prev = IF i = 1 THEN q[k] ELSE s[i - 1]
          /\ other[s[i]].next = s[i + 1]
    BY <1>2, <1>5, <1>6
  <2>3. e = Joined(q, k, s)
    BY DEF s
  <2>4. Linked(other, Joined(q, k, s), k + 1)
    BY <1>6, <2>1, <2>2, JoinedLinked
  <2> QED
    BY <2>3, <2>4
<1>10. e[1] = (IF k = 0 THEN f ELSE q[1]) /\ e[k + 1] = f
  BY <1>1, <1>6 DEF Joined, s
<1>11. \A g \in Frames :
        /\ other[g].type = IF g = f THEN "free" ELSE frame[g].type
        /\ g # f /\ ~ In(g, q, k) => other[g] = frame[g]
  <2> SUFFICES ASSUME NEW g \in Frames
               PROVE  /\ other[g].type = IF g = f THEN "free" ELSE frame[g].type
                      /\ g # f /\ ~ In(g, q, k) => other[g] = frame[g]
    OBVIOUS
  <2>1. ~ In(g, q, k) => g # q[k]
    <3>1. k \in 1 .. k \/ q[k] = NULL_FRAME
      BY <1>1, ChainFacts
    <3> QED
      BY <3>1, NullIsNoFrame DEF In
  <2> QED
    BY <1>2, <1>3, <1>5, <2>1
<1> QED
  BY <1>5, <1>8, <1>9, <1>10, <1>11

(* Changing the frames leaves the rest of the base.                        *)
LEMMA WithFramesIs ==
  ASSUME NEW b \in BaseType, NEW frame \in HdrMap
  PROVE  /\ [b EXCEPT !.frame = frame] \in BaseType
         /\ [b EXCEPT !.frame = frame].frame = frame
         /\ [b EXCEPT !.frame = frame].end = b.end
         /\ SameList(b, [b EXCEPT !.frame = frame])
         /\ SameFree(b, [b EXCEPT !.frame = frame])
         /\ SameCursor(b, [b EXCEPT !.frame = frame])
         /\ SameRest(b, [b EXCEPT !.frame = frame])
<1>1. [b EXCEPT !.frame = frame] \in BaseType
  BY DEF BaseType, HdrMap
<1> QED
  BY <1>1 DEF BaseType, SameList, SameFree, SameCursor, SameRest

(* The fields of a base have their types.                                  *)
LEMMA BaseFacts ==
  ASSUME NEW b \in BaseType
  PROVE  /\ b.frame \in HdrMap /\ b.body \in [Frames -> Uids] /\ b.idx \in Seq(SQIDX)
         /\ b.num \in Int /\ b.uidNext \in 1 .. MaxUid + 1
         /\ b.first \in Ofs /\ b.last \in Ofs /\ b.free \in Ofs
         /\ b.lastFree \in Ofs /\ b.end \in 1 .. MaxFrames + 1
         /\ b.max \in Nat /\ b.skip \in Nat /\ b.hwm \in Nat /\ b.cur \in Nat
         /\ b.foCur \in Ofs /\ b.foPrev \in Ofs /\ b.foNext \in Ofs
         /\ b.ok \in BOOLEAN
BY DEF BaseType, HdrMap

(* _SquishSetFrameNext on a readable frame sets its link and fails         *)
(* nowhere.                                                                *)
LEMMA SetFrameNextIs ==
  ASSUME NEW b \in BaseType, NEW p \in Ofs, NEW v \in Ofs, Readable(b, p)
  PROVE  SetFrameNext(b, p, v) = [b EXCEPT !.frame = SetNext(b.frame, p, v)]
<1>1. p # NULL_FRAME
  BY NullIsNoFrame DEF Readable
<1> QED
  BY <1>1 DEF SetFrameNext, SetNext

(* _SquishSetFramePrev on a readable frame sets its link and fails         *)
(* nowhere.                                                                *)
LEMMA SetFramePrevIs ==
  ASSUME NEW b \in BaseType, NEW p \in Ofs, NEW v \in Ofs, Readable(b, p)
  PROVE  SetFramePrev(b, p, v) = [b EXCEPT !.frame = SetPrev(b.frame, p, v)]
<1>1. p # NULL_FRAME
  BY NullIsNoFrame DEF Readable
<1> QED
  BY <1>1 DEF SetFramePrev, SetPrev

(* What is readable depends on types and the end only.                     *)
LEMMA ReadableStays ==
  ASSUME NEW b, NEW c, c.end = b.end, NEW p,
         p \in Frames => c.frame[p].type = b.frame[p].type, Readable(b, p)
  PROVE  Readable(c, p)
BY DEF Readable

(* Where the neighbours can be read, _SquishKill's first step links them   *)
(* to each other (sq_kill.c 63-82).                                        *)
LEMMA BypassIs ==
  ASSUME NEW b \in BaseType, NEW h, NEW p \in Ofs, NEW v \in Ofs,
         h.prev = p, h.next = v, Touchable(b, p), Touchable(b, v), b.ok
  PROVE  Bypass(b, h) = [b EXCEPT !.frame = Meet(b.frame, p, v)]
<1> DEFINE c == [b EXCEPT !.frame = SetNext(b.frame, p, v)]
<1>1. BypassForward(b, h) = c
  <2>1. CASE p # NULL_FRAME
    BY <2>1, SetFrameNextIs DEF BypassForward, Touchable
  <2>2. CASE p = NULL_FRAME
    BY <2>2 DEF BypassForward, SetNext, BaseType
  <2> QED
    BY <2>1, <2>2
<1>2. SetNext(b.frame, p, v) \in HdrMap
  BY BaseFacts, SetNextIs
<1>3. c \in BaseType /\ c.frame = SetNext(b.frame, p, v) /\ c.end = b.end /\ c.ok
  BY <1>2, WithFramesIs DEF SameRest
<1>4. Touchable(c, v)
  <2>1. \A f \in Frames : c.frame[f].type = b.frame[f].type
    BY <1>3, BaseFacts, SetNextIs
  <2> HIDE DEF c
  <2> QED
    BY <1>3, <2>1 DEF Touchable, Readable
<1>5. BypassBackward(c, h) = [c EXCEPT !.frame = SetPrev(c.frame, v, p)]
  <2> HIDE DEF c
  <2>1. CASE v # NULL_FRAME
    BY <1>3, <1>4, <2>1, SetFramePrevIs DEF BypassBackward, Touchable
  <2>2. CASE v = NULL_FRAME
    BY <1>3, <2>2 DEF BypassBackward, SetPrev, BaseType
  <2> QED
    BY <2>1, <2>2
<1>6. Bypass(b, h) = [c EXCEPT !.frame = SetPrev(c.frame, v, p)]
  BY <1>1, <1>3, <1>5 DEF Bypass
<1> QED
  BY <1>3, <1>6 DEF Meet, BaseType

(* Where the last free frame can be read, _SquishInsertFreeChain puts the  *)
(* frame behind it and moves the header's offsets.                         *)
LEMMA InsertFreeIs ==
  ASSUME NEW b \in BaseType, b.ok, NEW f \in Frames, NEW h \in Hdr,
         NEW p \in Ofs, b.lastFree = p, Touchable(b, p), NEW c,
         c = [b EXCEPT !.frame = Freed(b.frame, p, f, h),
                       !.free = IF p = NULL_FRAME THEN f ELSE @,
                       !.lastFree = f]
  PROVE  InsertFreeChain(b, f, h) = c
<1> DEFINE d == IF b.lastFree = NULL_FRAME THEN [b EXCEPT !.free = f]
                ELSE SetFrameNext(b, b.lastFree, f)
           fr == [h EXCEPT !.type = "free", !.len = 0, !.next = NULL_FRAME,
                           !.prev = b.lastFree]
<1>1. f \in Ofs
  BY NullIsNoFrame
<1>2. d = [b EXCEPT !.frame = SetNext(b.frame, p, f),
                    !.free = IF p = NULL_FRAME THEN f ELSE @]
  <2>1. CASE p = NULL_FRAME
    BY <2>1 DEF SetNext, BaseType
  <2>2. CASE p # NULL_FRAME
    <3>1. Readable(b, p)
      BY <2>2 DEF Touchable
    <3>2. d = [b EXCEPT !.frame = SetNext(b.frame, p, f)]
      BY <1>1, <2>2, <3>1, SetFrameNextIs
    <3> QED
      BY <2>2, <3>2 DEF BaseType
  <2> QED
    BY <2>1, <2>2
<1>3. d.ok
  BY <1>2 DEF BaseType
<1>4. InsertFreeChain(b, f, h) = [d EXCEPT !.frame[f] = fr, !.lastFree = f]
  BY <1>3 DEF InsertFreeChain
<1>5. Freed(b.frame, p, f, h) = [d.frame EXCEPT ![f] = fr]
  <2>1. d.frame = SetNext(b.frame, p, f)
    BY <1>2 DEF BaseType
  <2> QED
    BY <2>1 DEF Freed
<1>6. InsertFreeChain(b, f, h) =
        [d EXCEPT !.frame = Freed(b.frame, p, f, h), !.lastFree = f]
  <2> HIDE DEF d, fr
  <2> QED
    BY <1>4, <1>5
<1> HIDE DEF d, fr
<1> QED
  BY <1>2, <1>6 DEF BaseType

---------------------------------------------------------------------------
(***************************************************************************)
(* Following the links.                                                    *)
(***************************************************************************)

(* The forward link of a chain's i'th frame leads to the next one.         *)
LEMMA StepInChain ==
  ASSUME NEW frame, NEW c, NEW n, IsChain(c, n), Linked(frame, c, n),
         NEW i \in Nat \ {0}
  PROVE  c[i + 1] = IF c[i] = NULL_FRAME THEN NULL_FRAME ELSE frame[c[i]].next
<1>1. CASE i \in 1 .. n
  BY <1>1 DEF Linked, IsChain
<1>2. CASE i \notin 1 .. n
  <2>1. i + 1 \notin 1 .. n
    BY <1>2 DEF IsChain
  <2> QED
    BY <1>2, <2>1, ChainFacts
<1> QED
  BY <1>1, <1>2

(* Following a chain from its first frame visits its frames in order.      *)
LEMMA WalkIs ==
  ASSUME NEW frame, NEW c, NEW n, IsChain(c, n), Linked(frame, c, n), NEW w,
         \A i \in 0 .. MaxFrames :
           w[i] = IF i = 0 THEN c[1]
                  ELSE IF w[i - 1] = NULL_FRAME THEN NULL_FRAME
                  ELSE frame[w[i - 1]].next
  PROVE  \A i \in 0 .. MaxFrames : w[i] = c[i + 1]
<1> DEFINE T == {i \in 0 .. MaxFrames : w[i] = c[i + 1]}
<1>1. 0 \in T
  BY SizesAssumption
<1>2. ASSUME NEW i \in 0 .. MaxFrames - 1, i \in T PROVE i + 1 \in T
  <2>1. i + 1 \in 0 .. MaxFrames /\ w[i] = c[i + 1]
    BY <1>2, SizesAssumption
  <2>2. w[i + 1] = IF c[i + 1] = NULL_FRAME THEN NULL_FRAME
                   ELSE frame[c[i + 1]].next
    BY <2>1
  <2>3. w[i + 1] = c[i + 2]
    <3>1. i + 1 \in Nat \ {0} /\ i + 1 + 1 = i + 2
      OBVIOUS
    <3> QED
      BY <2>2, <3>1, StepInChain
  <2> QED
    BY <2>1, <2>3
<1> HIDE DEF T
<1>3. \A i \in 0 .. MaxFrames : i \in T
  BY <1>1, <1>2, SizesAssumption, InductionUpTo
<1> QED
  BY <1>3 DEF T

(* The free frames in the order _SquishProbeFreeChain meets them are those *)
(* of the chain.                                                           *)
LEMMA FreeWalkIs ==
  ASSUME NEW b, NEW q, NEW k, IsChain(q, k), Linked(b.frame, q, k),
         b.free = q[1]
  PROVE  \A i \in 0 .. MaxFrames : FreeWalk(b)[i] = q[i + 1]
<1> DEFINE Eq(w) == w = [i \in 0 .. MaxFrames |->
                           IF i = 0 THEN b.free
                           ELSE IF w[i - 1] = NULL_FRAME THEN NULL_FRAME
                           ELSE b.frame[w[i - 1]].next]
           g == [i \in 0 .. MaxFrames |-> q[i + 1]]
<1>1. Eq(g)
  <2>1. \A i \in 0 .. MaxFrames :
          g[i] = IF i = 0 THEN b.free
                 ELSE IF g[i - 1] = NULL_FRAME THEN NULL_FRAME
                 ELSE b.frame[g[i - 1]].next
    <3>1. ASSUME NEW i \in 1 .. MaxFrames
          PROVE  q[i + 1] = IF q[i] = NULL_FRAME THEN NULL_FRAME
                            ELSE b.frame[q[i]].next
      BY StepInChain, SizesAssumption
    <3>2. ASSUME NEW i \in 1 .. MaxFrames
          PROVE  g[i] = q[i + 1] /\ g[i - 1] = q[i]
      BY SizesAssumption
    <3> HIDE DEF g
    <3>3. g[0] = b.free
      BY SizesAssumption DEF g
    <3> QED
      BY <3>1, <3>2, <3>3, SizesAssumption
  <2> QED
    BY <2>1
<1>2. FreeWalk(b) = CHOOSE w : Eq(w)
  BY DEF FreeWalk
<1>3. Eq(FreeWalk(b))
  <2> HIDE DEF Eq
  <2> QED
    BY <1>1, <1>2
<1>4. \A i \in 0 .. MaxFrames :
        FreeWalk(b)[i] =
          IF i = 0 THEN b.free
          ELSE IF FreeWalk(b)[i - 1] = NULL_FRAME THEN NULL_FRAME
          ELSE b.frame[FreeWalk(b)[i - 1]].next
  BY <1>3
<1> QED
  BY <1>4, WalkIs

(* In a sound free chain the search refuses nothing, and finds only frames *)
(* of the chain.                                                           *)
LEMMA ProbeIs ==
  ASSUME NEW b, NEW q, NEW k, IsChain(q, k), Linked(b.frame, q, k),
         b.free = q[1],
         \A j \in 1 .. k : Readable(b, q[j]) /\ b.frame[q[j]].type = "free",
         NEW len
  PROVE  /\ ~ ProbeFails(b, len)
         /\ \A f \in ProbeFreeChain(b, len) : In(f, q, k)
<1> DEFINE w == FreeWalk(b)
<1>1. \A i \in 0 .. MaxFrames : w[i] = q[i + 1]
  BY FreeWalkIs
<1> HIDE DEF w
<1>2. ASSUME NEW i \in 0 .. MaxFrames, w[i] # NULL_FRAME
      PROVE  /\ i + 1 \in 1 .. k /\ w[i] = q[i + 1]
             /\ Readable(b, w[i]) /\ b.frame[w[i]].type = "free"
             /\ b.frame[w[i]].prev = (IF i = 0 THEN NULL_FRAME ELSE w[i - 1])
             /\ b.frame[w[i]].next # w[i]
  <2>1. w[i] = q[i + 1] /\ i + 1 \in Int
    BY <1>1
  <2>2. i + 1 \in 1 .. k
    BY <1>2, <2>1 DEF IsChain
  <2>3. Readable(b, w[i]) /\ b.frame[w[i]].type = "free"
    BY <2>1, <2>2
  <2>4. b.frame[w[i]].prev = q[i + 1 - 1] /\ b.frame[w[i]].next = q[i + 1 + 1]
    BY <2>1, <2>2 DEF Linked
  <2>5. (IF i = 0 THEN NULL_FRAME ELSE w[i - 1]) = q[i + 1 - 1]
    <3>1. CASE i = 0
      BY <3>1, ChainFacts
    <3>2. CASE i # 0
      <4>1. i - 1 \in 0 .. MaxFrames /\ i - 1 + 1 = i + 1 - 1
        BY <3>2, SizesAssumption
      <4> QED
        BY <3>2, <4>1, <1>1
    <3> QED
      BY <3>1, <3>2
  <2>6. q[i + 1 + 1] # q[i + 1]
    <3>1. CASE i + 1 + 1 \in 1 .. k
      BY <2>2, <3>1 DEF IsChain
    <3>2. CASE i + 1 + 1 \notin 1 .. k
      BY <1>2, <2>1, <3>2, ChainFacts
    <3> QED
      BY <3>1, <3>2
  <2> QED
    BY <2>1, <2>2, <2>3, <2>4, <2>5, <2>6
<1>3. ~ ProbeFails(b, len)
  BY <1>2 DEF ProbeFails, w
<1>4. ASSUME NEW f \in ProbeFreeChain(b, len) PROVE In(f, q, k)
  <2>1. PICK i \in 0 .. MaxFrames - 1 : w[i] = f /\ f \in Frames
    BY <1>4 DEF ProbeFreeChain, w
  <2> QED
    BY <1>2, <2>1, NullIsNoFrame, SizesAssumption DEF In
<1> QED
  BY <1>3, <1>4

(* The base without the j'th frame of its free chain.                      *)
FreeWithout(b, q, k, j) ==
  [b EXCEPT !.frame = Meet(b.frame, q[j - 1], q[j + 1]),
            !.free = IF j = 1 THEN q[2] ELSE @,
            !.lastFree = IF j = k THEN q[k - 1] ELSE @]

(* Where the free chain is sound, _SquishRemoveFreeChain takes the frame   *)
(* out of it and fails nowhere (sq_write.c 114-157).                       *)
LEMMA RemoveFreeIs ==
  ASSUME NEW b \in BaseType, b.ok, NEW q, NEW k, IsChain(q, k),
         Linked(b.frame, q, k), b.free = q[1], b.lastFree = q[k],
         \A i \in 1 .. k : Readable(b, q[i]), NEW j \in 1 .. k
  PROVE  RemoveFreeChain(b, q[j]) = FreeWithout(b, q, k, j)
<1> DEFINE f == q[j]
           h == b.frame[f]
           c == Bypass(b, h)
<1>1. h.prev = q[j - 1] /\ h.next = q[j + 1]
  BY DEF Linked
<1>2. /\ \A i \in Int : q[i] \in Ofs /\ Touchable(b, q[i])
      /\ k \in Nat
  BY ChainFacts DEF IsChain, Touchable
<1>3. c = [b EXCEPT !.frame = Meet(b.frame, q[j - 1], q[j + 1])]
  BY <1>1, <1>2, BypassIs
<1>4. c.ok
  BY <1>3 DEF BaseType
<1>5. /\ h.prev = NULL_FRAME <=> j = 1
      /\ h.next = NULL_FRAME <=> j = k
      /\ b.free = f <=> j = 1
      /\ b.lastFree = f <=> j = k
  <2>1. 1 \in 1 .. k /\ k \in 1 .. k
    BY <1>2
  <2>2. /\ b.free = f <=> j = 1
        /\ b.lastFree = f <=> j = k
    BY <2>1 DEF IsChain
  <2> QED
    BY <1>1, <1>2, <2>2 DEF IsChain
<1>6. RemoveFreeChain(b, f) =
        [c EXCEPT !.free = IF b.free = f THEN h.next ELSE @,
                  !.lastFree = IF b.lastFree = f THEN h.prev ELSE @]
  BY <1>4, <1>5 DEF RemoveFreeChain
<1> HIDE DEF c, h, f
<1>8. /\ (IF b.free = f THEN h.next ELSE c.free) = (IF j = 1 THEN q[2] ELSE c.free)
      /\ (IF b.lastFree = f THEN h.prev ELSE c.lastFree)
           = (IF j = k THEN q[k - 1] ELSE c.lastFree)
  <2>1. j = 1 => j + 1 = 2
    OBVIOUS
  <2> QED
    BY <1>1, <1>5, <2>1
<1>7. RemoveFreeChain(b, f) =
        [c EXCEPT !.free = IF j = 1 THEN q[2] ELSE @,
                  !.lastFree = IF j = k THEN q[k - 1] ELSE @]
  BY <1>6, <1>8
<1> QED
  BY <1>3, <1>7 DEF f, BaseType, FreeWithout

(* Frame f with header w, and the links of p and v to it.                  *)
LinkedUp(frame, p, f, v, w) ==
  [SetNext(SetPrev(frame, v, f), p, f) EXCEPT ![f] = w]

(* The base with f linked in between p and v as message r.msg.             *)
LinkedBase(b, r, p, f, v, w) ==
  [b EXCEPT !.frame = LinkedUp(b.frame, p, f, v, w),
            !.first = IF p = NULL_FRAME THEN f ELSE @,
            !.last = IF v = NULL_FRAME THEN f ELSE @,
            !.foCur = IF r.msg = b.cur THEN f ELSE @,
            !.foNext = IF r.msg = b.cur + 1 THEN f ELSE @,
            !.foPrev = IF r.msg = b.cur - 1 THEN f ELSE @]

Message(hdr, p, v) == [hdr EXCEPT !.type = "normal", !.prev = p, !.next = v]

(* The neighbours a message gets when handle r is written.                 *)
LinksOf(b, r, p, v) ==
  IF r.foRead # NULL_FRAME THEN r.rd.prev = p /\ r.rd.next = v
  ELSE b.last = p /\ v = NULL_FRAME

(* Where the neighbours can be read, _SquishLinkMessageFrame links the     *)
(* frame in between them and mends the header and the cursor.              *)
LEMMA LinkIs ==
  ASSUME NEW b \in BaseType, b.ok, NEW r, NEW f \in Frames, NEW hdr \in Hdr,
         NEW p \in Ofs, NEW v \in Ofs, Touchable(b, p), Touchable(b, v),
         LinksOf(b, r, p, v), NEW w, w = Message(hdr, p, v)
  PROVE  LinkMessageFrame(b, r, f, hdr) = LinkedBase(b, r, p, f, v, w)
<1> DEFINE over == r.foRead # NULL_FRAME
           x == [hdr EXCEPT !.type = "normal",
                            !.prev = IF over THEN r.rd.prev ELSE b.last,
                            !.next = IF over THEN r.rd.next ELSE NULL_FRAME]
           c0 == IF over /\ x.next # NULL_FRAME THEN SetFramePrev(b, x.next, f)
                 ELSE b
           c == IF c0.ok /\ x.prev # NULL_FRAME THEN SetFrameNext(c0, x.prev, f)
                ELSE c0
           f0 == SetPrev(b.frame, v, f)
           f1 == SetNext(f0, p, f)
<1>1. x = w
  BY DEF LinksOf, Message
<1>2. w.prev = p /\ w.next = v /\ f \in Ofs
  BY NullIsNoFrame DEF Hdr, Message
<1>3. c0 = [b EXCEPT !.frame = f0]
  <2>1. CASE v = NULL_FRAME
    BY <1>1, <1>2, <2>1 DEF SetPrev, BaseType
  <2>2. CASE v # NULL_FRAME
    <3>1. SetFramePrev(b, v, f) = [b EXCEPT !.frame = f0]
      BY <1>2, <2>2, SetFramePrevIs DEF Touchable
    <3> QED
      BY <1>1, <1>2, <2>2, <3>1 DEF LinksOf
  <2> HIDE DEF c0, f0
  <2> QED
    BY <2>1, <2>2
<1>4. f0 \in HdrMap /\ \A g \in Frames : f0[g].type = b.frame[g].type
  <2>1. b.frame \in HdrMap
    BY BaseFacts
  <2>2. f \in Ofs /\ v \in Ofs
    BY <1>2
  <2> HIDE DEF c0, c, x
  <2> DEFINE fr == b.frame
  <2>3. fr \in HdrMap
    BY <2>1
  <2> HIDE DEF fr
  <2>4. SetPrev(fr, v, f) \in HdrMap
    BY ONLY <2>2, <2>3, SetPrevIs
  <2>5. \A g \in Frames : SetPrev(fr, v, f)[g].type = fr[g].type
    BY ONLY <2>2, <2>3, SetPrevIs
  <2> QED
    BY <2>4, <2>5 DEF fr
<1> HIDE DEF f0
<1>5. c0 \in BaseType /\ c0.frame = f0 /\ c0.end = b.end /\ c0.ok
  <2> DEFINE y == [b EXCEPT !.frame = f0]
  <2>1. y \in BaseType /\ y.frame = f0 /\ y.end = b.end /\ y.ok
    BY <1>4, WithFramesIs DEF SameRest
  <2>2. c0 = y
    BY <1>3
  <2> HIDE DEF c0, c, x, y
  <2> QED
    BY <2>1, <2>2
<1>6. c = [c0 EXCEPT !.frame = f1]
  <2> HIDE DEF c0, x
  <2>1. CASE p = NULL_FRAME
    BY <1>1, <1>2, <1>5, <2>1 DEF SetNext, BaseType
  <2>2. CASE p # NULL_FRAME
    <3>1. Readable(c0, p)
      BY <1>4, <1>5, <2>2 DEF Touchable, Readable
    <3>2. SetFrameNext(c0, p, f) = [c0 EXCEPT !.frame = f1]
      BY <1>2, <1>5, <3>1, SetFrameNextIs
    <3> QED
      BY <1>1, <1>2, <1>5, <2>2, <3>2
  <2> QED
    BY <2>1, <2>2
<1>7. f1 \in HdrMap
  BY <1>2, <1>4, SetNextIs
<1> HIDE DEF f1
<1>8. c = [b EXCEPT !.frame = f1]
  <2> HIDE DEF c, c0, x
  <2> QED
    BY <1>3, <1>6 DEF BaseType
<1>9. c.ok /\ c.frame = f1
  <2> HIDE DEF c, c0, x
  <2> QED
    BY <1>8 DEF BaseType
<1>10. LinkMessageFrame(b, r, f, hdr) =
         [c EXCEPT !.frame[f] = x,
                   !.first = IF x.prev = NULL_FRAME THEN f ELSE @,
                   !.last = IF x.next = NULL_FRAME THEN f ELSE @,
                   !.foCur = IF r.msg = b.cur THEN f ELSE @,
                   !.foNext = IF r.msg = b.cur + 1 THEN f ELSE @,
                   !.foPrev = IF r.msg = b.cur - 1 THEN f ELSE @]
  BY <1>9 DEF LinkMessageFrame
<1> HIDE DEF c, c0, x
<1>11. LinkedUp(b.frame, p, f, v, w) = [c.frame EXCEPT ![f] = w]
  BY <1>9 DEF LinkedUp, f1, f0
<1>12. /\ c.first = b.first /\ c.last = b.last /\ c.foCur = b.foCur
       /\ c.foNext = b.foNext /\ c.foPrev = b.foPrev
  BY <1>8 DEF BaseType
<1> DEFINE g0 == LinkedUp(b.frame, p, f, v, w)
           g1 == IF p = NULL_FRAME THEN f ELSE b.first
           g2 == IF v = NULL_FRAME THEN f ELSE b.last
           g3 == IF r.msg = b.cur THEN f ELSE b.foCur
           g4 == IF r.msg = b.cur + 1 THEN f ELSE b.foNext
           g5 == IF r.msg = b.cur - 1 THEN f ELSE b.foPrev
<1>13. LinkMessageFrame(b, r, f, hdr) =
         [c EXCEPT !.frame = g0, !.first = g1, !.last = g2, !.foCur = g3,
                   !.foNext = g4, !.foPrev = g5]
  BY <1>1, <1>2, <1>10, <1>11, <1>12, ZenonT(30)
<1>14. LinkedBase(b, r, p, f, v, w) =
       [b EXCEPT !.frame = g0, !.first = g1, !.last = g2, !.foCur = g3,
                   !.foNext = g4, !.foPrev = g5]
  BY DEF LinkedBase
<1> HIDE DEF g0, g1, g2, g3, g4, g5
<1>15. [c EXCEPT !.frame = g0, !.first = g1, !.last = g2, !.foCur = g3,
                   !.foNext = g4, !.foPrev = g5] =
       [b EXCEPT !.frame = g0, !.first = g1, !.last = g2, !.foCur = g3,
                   !.foNext = g4, !.foPrev = g5]
  BY <1>8 DEF BaseType
<1> QED
  BY <1>13, <1>14, <1>15

---------------------------------------------------------------------------
(***************************************************************************)
(* A sound base: the shape that its two chains, its index, its cursor, its *)
(* ids and the handle that is writing have between two calls.              *)
(***************************************************************************)

(* The states of a handle w that is writing.                               *)
Pend(w) == w.mode = "create" /\ w.foWrite = NULL_FRAME
Over(w) == Pend(w) /\ w.foRead # NULL_FRAME
New(w)  == Pend(w) /\ w.foRead = NULL_FRAME

(* The message chain is c[1] .. c[n], the free chain q[1] .. q[k].         *)
TwoChains(b, c, n, q, k) ==
  /\ IsChain(c, n) /\ IsChain(q, k)
  /\ Linked(b.frame, c, n) /\ Linked(b.frame, q, k)
  /\ b.first = c[1] /\ b.last = c[n]
  /\ b.free = q[1] /\ b.lastFree = q[k]
  /\ \A f \in Frames : f < b.end <=> In(f, c, n) \/ In(f, q, k)
  /\ \A i \in 1 .. n, j \in 1 .. k : c[i] # q[j]
  /\ \A j \in 1 .. k : b.frame[q[j]].type = "free"

Typed(b, w, c, n) ==
  \A i \in 1 .. n :
    b.frame[c[i]].type = IF Over(w) /\ w.msg = i THEN "update" ELSE "normal"

Indexed(b, w, c, n) ==
  /\ b.num = (IF New(w) THEN n + 1 ELSE n) /\ Len(b.idx) >= b.num
  /\ \A i \in 1 .. b.num :
       b.idx[i].ofs = IF Pend(w) /\ w.msg = i THEN NULL_FRAME ELSE c[i]

OnCursor(b, c, n) ==
  /\ b.cur \in 0 .. n
  /\ b.foCur = c[b.cur] /\ b.foPrev = c[b.cur - 1] /\ b.foNext = c[b.cur + 1]

Numbered(b, c, n) ==
  /\ \A i, j \in 1 .. b.num : i < j => b.idx[i].uid < b.idx[j].uid
  /\ \A i \in 1 .. b.num : 1 <= b.idx[i].uid /\ b.idx[i].uid < b.uidNext
  /\ \A i \in 1 .. n : b.body[c[i]] = b.idx[i].uid

(* What handle w has of the message it is writing.                         *)
OnMessage(b, w, c) ==
  LET u == b.idx[w.msg].uid
  IN /\ w.msg \in 1 .. b.num
     /\ Pend(w) => ~ w.written /\ w.uid = u
     /\ New(w) => w.msg = b.num
     /\ Over(w) => w.foRead = c[w.msg] /\ w.rd = b.frame[w.foRead]
     /\ w.mode = "create" /\ ~ Pend(w) =>
          w.written /\ w.uid = u /\ w.foWrite = c[w.msg]
     /\ w.mode = "rw" => w.foRead = c[w.msg] /\ w.uid \in {0, u}

Roomy(b) == b.max = 0 \/ b.max >= b.skip + 2

Shape(b, w, c, n, q, k) ==
  /\ TwoChains(b, c, n, q, k)
  /\ Typed(b, w, c, n)
  /\ Indexed(b, w, c, n)
  /\ OnCursor(b, c, n)
  /\ Numbered(b, c, n)
  /\ w # Closed => w.mode \in {"rw", "create"} /\ OnMessage(b, w, c)
  /\ b.ok /\ Roomy(b)

(* A closed handle is writing nothing.                                     *)
LEMMA ClosedIs == ~ Pend(Closed) /\ ~ Over(Closed) /\ ~ New(Closed)
                  /\ Closed.mode = "closed"
BY DEF Closed, Pend, Over, New

(* A chain none of whose frames changed is linked as before.               *)
LEMMA LinkedStays ==
  ASSUME NEW frame, NEW other, NEW c, NEW n, Linked(frame, c, n),
         \A i \in 1 .. n : other[c[i]] = frame[c[i]]
  PROVE  Linked(other, c, n)
BY DEF Linked

(* Every frame of either chain, and every neighbour of one, can be read.   *)
LEMMA ChainIsReadable ==
  ASSUME NEW b, NEW w, NEW c, NEW n, NEW q, NEW k, Shape(b, w, c, n, q, k)
  PROVE  /\ \A i \in 1 .. n : Readable(b, c[i])
         /\ \A j \in 1 .. k : Readable(b, q[j])
         /\ \A i \in Int : Touchable(b, c[i]) /\ Touchable(b, q[i])
<1>1. IsChain(c, n) /\ IsChain(q, k)
  BY DEF Shape, TwoChains
<1>2. \A i \in 1 .. n : c[i] \in Frames /\ c[i] < b.end
  BY <1>1, ChainFacts DEF Shape, TwoChains, In
<1>3. \A j \in 1 .. k : q[j] \in Frames /\ q[j] < b.end
  BY <1>1, ChainFacts DEF Shape, TwoChains, In
<1>4. \A i \in 1 .. n : Readable(b, c[i])
  BY <1>2 DEF Shape, Typed, Readable
<1>5. \A j \in 1 .. k : Readable(b, q[j])
  BY <1>3 DEF Shape, TwoChains, Readable
<1> QED
  BY <1>1, <1>4, <1>5, ChainFacts DEF Touchable

(* The frame of message m as a call gets it.                               *)
LEMMA FrameOfMessage ==
  ASSUME NEW b \in BaseType, NEW w, NEW c, NEW n, NEW q, NEW k,
         Shape(b, w, c, n, q, k), NEW m \in 1 .. b.num
  PROVE  /\ GetFrameOfs(b, m) \in {c[m], NULL_FRAME}
         /\ ~ Pend(w) => GetFrameOfs(b, m) = c[m] /\ m \in 1 .. n
<1>1. m \in Int /\ b.cur \in Int /\ b.num \in Int /\ n \in Nat
      /\ Len(b.idx) >= b.num /\ m <= Len(b.idx)
  BY BaseFacts DEF Shape, Indexed, TwoChains, IsChain
<1>2. CASE m = b.cur
  BY <1>1, <1>2 DEF GetFrameOfs, Shape, OnCursor, Indexed, New
<1>3. CASE m = b.cur - 1
  BY <1>1, <1>3 DEF GetFrameOfs, Shape, OnCursor, Indexed, New
<1>4. CASE m = b.cur + 1
  BY <1>1, <1>4 DEF GetFrameOfs, Shape, OnCursor, Indexed, New
<1>5. CASE m # b.cur /\ m # b.cur - 1 /\ m # b.cur + 1
  BY <1>1, <1>5 DEF GetFrameOfs, Shape, OnCursor, Indexed, New
<1> QED
  BY <1>2, <1>3, <1>4, <1>5

(* The index without record m.                                             *)
Removed(s, m) ==
  [i \in 1 .. Len(s) |-> IF i < m THEN s[i]
                         ELSE IF i < Len(s) THEN s[i + 1] ELSE Blank]

(* The records of the index and the ids have their types.                  *)
LEMMA UidFacts ==
  /\ NoUid \in Uids /\ 0 \in Uids /\ 1 .. MaxUid + 1 \subseteq Uids
  /\ Blank \in SQIDX /\ Zero \in SQIDX
  /\ \A f \in Ofs, u \in Uids : [ofs |-> f, uid |-> u] \in SQIDX
  /\ \A r \in SQIDX, f \in Ofs :
       /\ [r EXCEPT !.ofs = f] \in SQIDX
       /\ [r EXCEPT !.ofs = f].ofs = f /\ [r EXCEPT !.ofs = f].uid = r.uid
  /\ \A r \in SQIDX : r.ofs \in Ofs /\ r.uid \in Uids
BY SizesAssumption, NullIsNoFrame DEF Uids, NoUid, Blank, Zero, SQIDX

(* The index without record m has the records behind it one place further  *)
(* to the front.                                                           *)
LEMMA RemovedIs ==
  ASSUME NEW s \in Seq(SQIDX), NEW m \in 1 .. Len(s)
  PROVE  /\ Removed(s, m) \in Seq(SQIDX) /\ Len(Removed(s, m)) = Len(s)
         /\ \A i \in 1 .. Len(s) - 1 :
              Removed(s, m)[i] = IF i < m THEN s[i] ELSE s[i + 1]
<1>1. Len(s) \in Nat /\ \A i \in 1 .. Len(s) : s[i] \in SQIDX
  OBVIOUS
<1>2. \A i \in 1 .. Len(s) : (IF i < m THEN s[i]
                              ELSE IF i < Len(s) THEN s[i + 1] ELSE Blank) \in SQIDX
  BY <1>1, UidFacts
<1> QED
  BY <1>1, <1>2 DEF Removed

(* _SquishRemoveIndexEntry on a record there is takes it out and changes   *)
(* nothing else.                                                           *)
LEMMA RemoveIndexIs ==
  ASSUME NEW b \in BaseType, NEW m \in 1 .. Len(b.idx),
         NEW c, c = RemoveIndexEntry(b, m)
  PROVE  /\ c = [b EXCEPT !.idx = Removed(b.idx, m)]
         /\ c \in BaseType
         /\ c.idx = Removed(b.idx, m)
         /\ c.frame = b.frame /\ c.end = b.end /\ c.num = b.num
         /\ c.first = b.first /\ c.last = b.last /\ c.hwm = b.hwm
         /\ SameFree(b, c) /\ SameCursor(b, c) /\ SameRest(b, c)
<1>1. b.idx \in Seq(SQIDX)
  BY BaseFacts
<1>2. Removed(b.idx, m) \in Seq(SQIDX)
  BY <1>1, RemovedIs
<1>3. c = [b EXCEPT !.idx = Removed(b.idx, m)]
  BY DEF RemoveIndexEntry, Removed
<1>4. c \in BaseType
  BY <1>2, <1>3 DEF BaseType
<1> QED
  BY <1>3, <1>4 DEF BaseType, SameFree, SameCursor, SameRest

(* The header fields and the cursor after message m, with header h, is off *)
(* the chain.                                                              *)
LEMMA FixIs ==
  ASSUME NEW b \in BaseType, NEW m \in Nat \ {0}, NEW h \in Hdr,
         NEW c, c = FixMemoryPointers(b, m, h),
         NEW first, first = (IF m = 1 THEN h.next ELSE b.first)
  PROVE  /\ c \in BaseType
         /\ c.frame = b.frame /\ c.end = b.end /\ c.idx = b.idx
         /\ SameFree(b, c) /\ SameRest(b, c)
         /\ c.num = b.num - 1 /\ c.first = first
         /\ c.last = (IF m = b.num THEN h.prev ELSE b.last)
         /\ c.hwm <= b.hwm
         /\ c.cur = (IF m = b.cur /\ ~ Readable(b, h.prev) THEN 0
                     ELSE IF b.cur >= m THEN b.cur - 1 ELSE b.cur)
         /\ c.foCur = (IF m # b.cur THEN b.foCur
                       ELSE IF Readable(b, h.prev) THEN h.prev ELSE NULL_FRAME)
         /\ c.foPrev = (IF m = b.cur
                        THEN IF Readable(b, h.prev) THEN b.frame[h.prev].prev ELSE NULL_FRAME
                        ELSE IF m = b.cur - 1 THEN h.prev ELSE b.foPrev)
         /\ c.foNext = (IF m = b.cur
                        THEN IF Readable(b, h.prev) THEN b.frame[h.prev].next ELSE first
                        ELSE IF m = b.cur + 1 THEN h.next ELSE b.foNext)
<1> DEFINE prior == Readable(b, h.prev)
           last == IF m = b.num THEN h.prev ELSE b.last
           foCur == IF m # b.cur THEN b.foCur
                    ELSE IF prior THEN h.prev ELSE NULL_FRAME
           foPrev == IF m = b.cur
                     THEN IF prior THEN b.frame[h.prev].prev ELSE NULL_FRAME
                     ELSE IF m = b.cur - 1 THEN h.prev ELSE b.foPrev
           foNext == IF m = b.cur
                     THEN IF prior THEN b.frame[h.prev].next ELSE first
                     ELSE IF m = b.cur + 1 THEN h.next ELSE b.foNext
           cur == IF m = b.cur /\ ~ prior THEN 0
                  ELSE IF b.cur >= m THEN b.cur - 1 ELSE b.cur
           hwm == IF b.hwm >= m THEN b.hwm - 1 ELSE b.hwm
<1>1. /\ b.first \in Ofs /\ b.last \in Ofs /\ b.foCur \in Ofs
      /\ b.foPrev \in Ofs /\ b.foNext \in Ofs /\ b.cur \in Nat
      /\ b.hwm \in Nat /\ b.num \in Int /\ b.frame \in HdrMap
  BY BaseFacts
<1>2. h.prev \in Ofs /\ h.next \in Ofs /\ NULL_FRAME \in Ofs
  BY HdrFacts, NullIsNoFrame
<1>3. prior => b.frame[h.prev].prev \in Ofs /\ b.frame[h.prev].next \in Ofs
  BY <1>1, HdrFacts DEF Readable, HdrMap
<1>4. /\ first \in Ofs /\ last \in Ofs /\ foCur \in Ofs /\ foPrev \in Ofs
      /\ foNext \in Ofs
  BY <1>1, <1>2, <1>3
<1>5. cur \in Nat /\ hwm \in Nat /\ hwm <= b.hwm /\ b.num - 1 \in Int
  BY <1>1
<1>6. c = [b EXCEPT !.first = first, !.last = last, !.foCur = foCur,
                    !.foPrev = foPrev, !.foNext = foNext, !.cur = cur,
                    !.num = b.num - 1, !.hwm = hwm]
  BY DEF FixMemoryPointers
<1> HIDE DEF last, foCur, foPrev, foNext, cur, hwm
<1>7. c \in BaseType
  <2>1. cur \in Nat /\ hwm \in Nat /\ b.num - 1 \in Int
    BY <1>5
  <2> DEFINE num == b.num - 1
  <2>2. num \in Int
    BY <2>1
  <2>3. c = [b EXCEPT !.first = first, !.last = last, !.foCur = foCur,
                    !.foPrev = foPrev, !.foNext = foNext, !.cur = cur,
                    !.num = num, !.hwm = hwm]
    BY <1>6
  <2> HIDE DEF num
  <2>4. b \in BaseType
    OBVIOUS
  <2> QED
    BY ONLY <1>4, <2>1, <2>2, <2>3, <2>4 DEF BaseType
<1>8. /\ c.frame = b.frame /\ c.end = b.end /\ c.idx = b.idx
      /\ SameFree(b, c) /\ SameRest(b, c)
      /\ c.num = b.num - 1 /\ c.first = first /\ c.last = last
      /\ c.foCur = foCur /\ c.foPrev = foPrev /\ c.foNext = foNext
      /\ c.cur = cur /\ c.hwm = hwm
  BY <1>6 DEF BaseType, SameFree, SameRest
<1> QED
  BY <1>5, <1>7, <1>8 DEF last, foCur, foPrev, foNext, cur, hwm

---------------------------------------------------------------------------
(***************************************************************************)
(* Killing a message.                                                      *)
(***************************************************************************)

(* Frame f, with header h, appended to the free chain: what changes.       *)
LEMMA InsertFreeFields ==
  ASSUME NEW b \in BaseType, b.ok, NEW f \in Frames, NEW h \in Hdr,
         Touchable(b, b.lastFree), NEW c, c = InsertFreeChain(b, f, h),
         Freed(b.frame, b.lastFree, f, h) \in HdrMap
  PROVE  /\ c \in BaseType
         /\ c.frame = Freed(b.frame, b.lastFree, f, h) /\ c.end = b.end
         /\ SameList(b, c) /\ SameCursor(b, c) /\ SameRest(b, c)
         /\ c.free = (IF b.lastFree = NULL_FRAME THEN f ELSE b.free)
         /\ c.lastFree = f
<1> DEFINE frame == Freed(b.frame, b.lastFree, f, h)
           free == IF b.lastFree = NULL_FRAME THEN f ELSE b.free
<1>1. b.lastFree \in Ofs /\ b.free \in Ofs /\ f \in Ofs
  BY BaseFacts, NullIsNoFrame
<1>2. c = [b EXCEPT !.frame = frame, !.free = free, !.lastFree = f]
  BY <1>1, InsertFreeIs
<1>3. free \in Ofs /\ frame \in [Frames -> Hdr]
  BY <1>1 DEF HdrMap
<1> HIDE DEF free, frame
<1>4. c \in BaseType
  BY <1>1, <1>2, <1>3 DEF BaseType
<1>5. /\ c.frame = frame /\ c.end = b.end
      /\ SameList(b, c) /\ SameCursor(b, c) /\ SameRest(b, c)
      /\ c.free = free /\ c.lastFree = f
  BY <1>2 DEF BaseType, SameList, SameCursor, SameRest
<1> QED
  BY <1>4, <1>5 DEF free, frame

(* The frame of message m goes over from the one chain to the end of the   *)
(* other.                                                                  *)
LEMMA KillChains ==
  ASSUME NEW frame \in HdrMap, NEW c, NEW n, NEW q, NEW k,
         IsChain(c, n), IsChain(q, k), Linked(frame, c, n), Linked(frame, q, k),
         \A i \in 1 .. n, j \in 1 .. k : c[i] # q[j],
         NEW m \in 1 .. n, NEW h \in Hdr,
         NEW mid, mid = Meet(frame, c[m - 1], c[m + 1]),
         NEW other, other = Freed(mid, q[k], c[m], h),
         NEW e, e = Cut(c, m - 1, 1), NEW d, d = Joined(q, k, Single(c[m]))
  PROVE  /\ mid \in HdrMap /\ other \in HdrMap
         /\ IsChain(e, n - 1) /\ IsChain(d, k + 1)
         /\ Linked(mid, e, n - 1)
         /\ Linked(other, e, n - 1) /\ Linked(other, d, k + 1)
         /\ \A i \in Int : e[i] = IF i < m THEN c[i] ELSE c[i + 1]
         /\ d[1] = (IF k = 0 THEN c[m] ELSE q[1]) /\ d[k + 1] = c[m]
         /\ \A i \in 1 .. n - 1, j \in 1 .. k + 1 : e[i] # d[j]
         /\ \A g \in Frames : In(g, e, n - 1) \/ In(g, d, k + 1) <=>
                              In(g, c, n) \/ In(g, q, k)
         /\ \A j \in 1 .. k : other[q[j]].type = frame[q[j]].type
         /\ other[c[m]].type = "free"
         /\ \A j \in 1 .. k + 1 : d[j] = c[m] \/ \E i \in 1 .. k : d[j] = q[i]
         /\ \A g \in Frames : mid[g].type = frame[g].type
         /\ \A i \in 1 .. n : i # m => other[c[i]].type = frame[c[i]].type
<1>1. /\ mid \in HdrMap
      /\ IsChain(e, n - 1) /\ Linked(mid, e, n - 1)
      /\ \A i \in Int : e[i] = IF i < m THEN c[i] ELSE c[i + 1]
      /\ \A f \in Frames : In(f, e, n - 1) <=> In(f, c, n) /\ f # c[m]
      /\ \A f \in Frames : /\ mid[f].type = frame[f].type
                           /\ ~ In(f, c, n) => mid[f] = frame[f]
  BY UnlinkedIs
<1>2. /\ \A i \in 1 .. n : c[i] \in Frames /\ c[i] # NULL_FRAME
      /\ \A j \in 1 .. k : q[j] \in Frames /\ ~ In(q[j], c, n)
  BY ChainFacts, NullIsNoFrame DEF In
<1>3. c[m] \in Frames /\ ~ In(c[m], q, k) /\ In(c[m], c, n)
  BY <1>2 DEF In
<1>4. Linked(mid, q, k)
  BY <1>1, <1>2, LinkedStays
<1> DEFINE f == c[m]
<1>5. /\ other \in HdrMap
      /\ IsChain(d, k + 1) /\ Linked(other, d, k + 1)
      /\ d[1] = (IF k = 0 THEN f ELSE q[1]) /\ d[k + 1] = f
      /\ \A g : In(g, d, k + 1) <=> In(g, q, k) \/ g = f
      /\ \A g \in Frames :
           /\ other[g].type = IF g = f THEN "free" ELSE mid[g].type
           /\ g # f /\ ~ In(g, q, k) => other[g] = mid[g]
  <2>1. other = Freed(mid, q[k], f, h) /\ d = Joined(q, k, Single(f))
    OBVIOUS
  <2>2. f \in Frames /\ ~ In(f, q, k) /\ h \in Hdr /\ IsChain(q, k)
    BY <1>3
  <2> HIDE DEF f
  <2> QED
    BY ONLY <1>1, <1>4, <2>1, <2>2, AppendedIs
<1>6. \A i \in 1 .. n - 1 :
        e[i] \in Frames /\ In(e[i], c, n) /\ e[i] # f /\ ~ In(e[i], q, k)
  <2> SUFFICES ASSUME NEW i \in 1 .. n - 1
               PROVE  e[i] \in Frames /\ In(e[i], c, n) /\ e[i] # f /\ ~ In(e[i], q, k)
    OBVIOUS
  <2>1. e[i] \in Frames
    BY <1>1, ChainFacts
  <2>2. In(e[i], e, n - 1)
    BY DEF In
  <2>3. In(e[i], c, n) /\ e[i] # f
    BY <1>1, <2>1, <2>2
  <2> QED
    BY <2>1, <2>3, <1>2 DEF In
<1>7. Linked(other, e, n - 1)
  <2>1. \A i \in 1 .. n - 1 : other[e[i]] = mid[e[i]]
    BY <1>5, <1>6
  <2> QED
    BY <1>1, <2>1, LinkedStays
<1>8. \A i \in 1 .. n - 1, j \in 1 .. k + 1 : e[i] # d[j]
  <2> SUFFICES ASSUME NEW i \in 1 .. n - 1, NEW j \in 1 .. k + 1, e[i] = d[j]
               PROVE  FALSE
    OBVIOUS
  <2>1. In(d[j], d, k + 1)
    BY DEF In
  <2> QED
    BY <1>5, <1>6, <2>1
<1>9. \A g \in Frames : In(g, e, n - 1) \/ In(g, d, k + 1) <=>
                        In(g, c, n) \/ In(g, q, k)
  BY <1>1, <1>3, <1>5
<1>10. \A j \in 1 .. k : other[q[j]].type = frame[q[j]].type
  <2>1. \A j \in 1 .. k : q[j] # f
    BY <1>3 DEF In
  <2> QED
    BY <1>1, <1>2, <1>5, <2>1
<1>11. \A j \in 1 .. k + 1 : d[j] = c[m] \/ \E i \in 1 .. k : d[j] = q[i]
  <2>1. \A j \in 1 .. k + 1 : In(d[j], d, k + 1)
    BY DEF In
  <2> QED
    BY <1>5, <2>1 DEF In
<1>12. \A i \in 1 .. n : i # m => other[c[i]].type = frame[c[i]].type
  <2>1. \A i \in 1 .. n : i # m => c[i] # f
    BY DEF IsChain
  <2> QED
    BY <1>1, <1>2, <1>5, <2>1
<1> QED
  BY <1>1, <1>3, <1>5, <1>7, <1>8, <1>9, <1>10, <1>11, <1>12

(* A kill keeps the base in shape and fails nowhere (sq_kill.c 63-92).     *)
LEMMA KillShape ==
  ASSUME NEW b \in BaseType, NEW c, NEW n, NEW q, NEW k,
         Shape(b, Closed, c, n, q, k), NEW m \in 1 .. b.num,
         NEW f, f = GetFrameOfs(b, m), NEW hdr, hdr = b.frame[f],
         NEW b1, b1 = Bypass(b, hdr),
         NEW b3, b3 = FixMemoryPointers(RemoveIndexEntry(b1, m), m, hdr),
         NEW b4, b4 = InsertFreeChain(b3, f, hdr)
  PROVE  /\ b1.ok /\ b4.ok /\ b4 \in BaseType
         /\ m \in 1 .. n /\ f = c[m]
         /\ Shape(b4, Closed, Cut(c, m - 1, 1), n - 1,
                  Joined(q, k, Single(c[m])), k + 1)
         /\ b4.uidNext = b.uidNext /\ b4.max = b.max /\ b4.skip = b.skip
         /\ b4.body = b.body /\ b4.hwm <= b.hwm
<1> DEFINE e == Cut(c, m - 1, 1)
           d == Joined(q, k, Single(c[m]))
           mid == Meet(b.frame, c[m - 1], c[m + 1])
           other == Freed(mid, q[k], c[m], hdr)
<1>1. /\ IsChain(c, n) /\ IsChain(q, k)
      /\ Linked(b.frame, c, n) /\ Linked(b.frame, q, k)
      /\ b.first = c[1] /\ b.last = c[n]
      /\ b.free = q[1] /\ b.lastFree = q[k]
      /\ \A g \in Frames : g < b.end <=> In(g, c, n) \/ In(g, q, k)
      /\ \A i \in 1 .. n, j \in 1 .. k : c[i] # q[j]
      /\ \A j \in 1 .. k : b.frame[q[j]].type = "free"
  BY DEF Shape, TwoChains
<1>2. f = c[m] /\ m \in 1 .. n /\ c[m] \in Frames
  BY <1>1, ClosedIs, FrameOfMessage, ChainFacts
<1>3. b.frame \in HdrMap /\ hdr \in Hdr /\ b.ok
  BY <1>2, BaseFacts DEF HdrMap, Shape
<1>4. hdr.prev = c[m - 1] /\ hdr.next = c[m + 1]
  BY <1>1, <1>2 DEF Linked
<1>5. /\ \A i \in Int : c[i] \in Ofs /\ q[i] \in Ofs
      /\ \A i \in Int : Touchable(b, c[i]) /\ Touchable(b, q[i])
      /\ n \in Nat /\ k \in Nat
  BY <1>1, ChainIsReadable DEF IsChain
<1>6. /\ mid \in HdrMap /\ other \in HdrMap
      /\ IsChain(e, n - 1) /\ IsChain(d, k + 1)
      /\ Linked(mid, e, n - 1)
      /\ Linked(other, e, n - 1) /\ Linked(other, d, k + 1)
      /\ \A i \in Int : e[i] = IF i < m THEN c[i] ELSE c[i + 1]
      /\ d[1] = (IF k = 0 THEN c[m] ELSE q[1]) /\ d[k + 1] = c[m]
      /\ \A i \in 1 .. n - 1, j \in 1 .. k + 1 : e[i] # d[j]
      /\ \A g \in Frames : In(g, e, n - 1) \/ In(g, d, k + 1) <=>
                           In(g, c, n) \/ In(g, q, k)
      /\ \A j \in 1 .. k : other[q[j]].type = b.frame[q[j]].type
      /\ other[c[m]].type = "free"
      /\ \A j \in 1 .. k + 1 : d[j] = c[m] \/ \E i \in 1 .. k : d[j] = q[i]
      /\ \A g \in Frames : mid[g].type = b.frame[g].type
      /\ \A i \in 1 .. n : i # m => other[c[i]].type = b.frame[c[i]].type
  <2> DEFINE fr == b.frame
  <2>1. /\ fr \in HdrMap /\ Linked(fr, c, n) /\ Linked(fr, q, k)
        /\ mid = Meet(fr, c[m - 1], c[m + 1])
        /\ other = Freed(mid, q[k], c[m], hdr)
        /\ e = Cut(c, m - 1, 1) /\ d = Joined(q, k, Single(c[m]))
        /\ m \in 1 .. n /\ hdr \in Hdr /\ IsChain(c, n) /\ IsChain(q, k)
        /\ \A i \in 1 .. n, j \in 1 .. k : c[i] # q[j]
    BY <1>1, <1>2, <1>3
  <2>2. /\ \A j \in 1 .. k : b.frame[q[j]].type = fr[q[j]].type
        /\ \A g \in Frames : b.frame[g].type = fr[g].type
        /\ \A i \in 1 .. n : b.frame[c[i]].type = fr[c[i]].type
    OBVIOUS
  <2> HIDE DEF fr, mid, other, e, d
  <2> QED
    BY ONLY <2>1, <2>2, KillChains
<1> HIDE DEF e, d, mid, other
<1>7. b1 = [b EXCEPT !.frame = mid]
  BY <1>3, <1>4, <1>5, <1>2, BypassIs DEF mid
<1>8. /\ b1 \in BaseType /\ b1.frame = mid /\ b1.end = b.end
      /\ SameList(b, b1) /\ SameFree(b, b1) /\ SameCursor(b, b1) /\ SameRest(b, b1)
  <2> DEFINE y == [b EXCEPT !.frame = mid]
  <2>1. /\ y \in BaseType /\ y.frame = mid /\ y.end = b.end
        /\ SameList(b, y) /\ SameFree(b, y) /\ SameCursor(b, y) /\ SameRest(b, y)
    BY <1>6, WithFramesIs
  <2> QED
    BY <1>7, <2>1
<1> DEFINE b2 == RemoveIndexEntry(b1, m)
<1>9. b.num \in Nat /\ Len(b.idx) >= b.num /\ b.num = n /\ b.idx \in Seq(SQIDX)
      /\ Len(b.idx) \in Nat /\ m \in Nat \ {0} /\ m \in 1 .. Len(b.idx)
  BY <1>2, <1>5, ClosedIs, BaseFacts DEF Shape, Indexed
<1>10. /\ b2 \in BaseType /\ b2.idx = Removed(b.idx, m)
       /\ b2.frame = mid /\ b2.end = b.end /\ b2.num = b.num
       /\ b2.first = b.first /\ b2.last = b.last /\ b2.hwm = b.hwm
       /\ SameFree(b1, b2) /\ SameCursor(b1, b2) /\ SameRest(b1, b2)
  BY <1>8, <1>9, RemoveIndexIs DEF SameList
<1> HIDE DEF b2
<1>11. b3 = FixMemoryPointers(b2, m, hdr)
  BY DEF b2
<1> DEFINE first == IF m = 1 THEN c[m + 1] ELSE b.first
<1>12. /\ b3 \in BaseType
       /\ b3.frame = mid /\ b3.end = b.end /\ b3.idx = Removed(b.idx, m)
       /\ SameFree(b2, b3) /\ SameRest(b2, b3)
       /\ b3.num = b.num - 1 /\ b3.first = first
       /\ b3.last = (IF m = b.num THEN c[m - 1] ELSE b.last)
       /\ b3.hwm <= b.hwm
       /\ b3.cur = (IF m = b2.cur /\ ~ Readable(b2, c[m - 1]) THEN 0
                    ELSE IF b2.cur >= m THEN b2.cur - 1 ELSE b2.cur)
       /\ b3.foCur = (IF m # b2.cur THEN b2.foCur
                      ELSE IF Readable(b2, c[m - 1]) THEN c[m - 1] ELSE NULL_FRAME)
       /\ b3.foPrev = (IF m = b2.cur
                       THEN IF Readable(b2, c[m - 1]) THEN mid[c[m - 1]].prev ELSE NULL_FRAME
                       ELSE IF m = b2.cur - 1 THEN c[m - 1] ELSE b2.foPrev)
       /\ b3.foNext = (IF m = b2.cur
                       THEN IF Readable(b2, c[m - 1]) THEN mid[c[m - 1]].next ELSE first
                       ELSE IF m = b2.cur + 1 THEN c[m + 1] ELSE b2.foNext)
  <2>1. /\ b2 \in BaseType /\ m \in Nat \ {0} /\ hdr \in Hdr
        /\ b3 = FixMemoryPointers(b2, m, hdr)
        /\ first = (IF m = 1 THEN hdr.next ELSE b2.first)
    BY ONLY <1>3, <1>4, <1>9, <1>10, <1>11
  <2> HIDE DEF first
  <2>2. /\ b3 \in BaseType
        /\ b3.frame = b2.frame /\ b3.end = b2.end /\ b3.idx = b2.idx
        /\ SameFree(b2, b3) /\ SameRest(b2, b3)
        /\ b3.num = b2.num - 1 /\ b3.first = first
        /\ b3.last = (IF m = b2.num THEN hdr.prev ELSE b2.last)
        /\ b3.hwm <= b2.hwm
        /\ b3.cur = (IF m = b2.cur /\ ~ Readable(b2, hdr.prev) THEN 0
                     ELSE IF b2.cur >= m THEN b2.cur - 1 ELSE b2.cur)
        /\ b3.foCur = (IF m # b2.cur THEN b2.foCur
                       ELSE IF Readable(b2, hdr.prev) THEN hdr.prev ELSE NULL_FRAME)
        /\ b3.foPrev = (IF m = b2.cur
                        THEN IF Readable(b2, hdr.prev) THEN b2.frame[hdr.prev].prev
                             ELSE NULL_FRAME
                        ELSE IF m = b2.cur - 1 THEN hdr.prev ELSE b2.foPrev)
        /\ b3.foNext = (IF m = b2.cur
                        THEN IF Readable(b2, hdr.prev) THEN b2.frame[hdr.prev].next
                             ELSE first
                        ELSE IF m = b2.cur + 1 THEN hdr.next ELSE b2.foNext)
    BY ONLY <2>1, FixIs
  <2> QED
    BY ONLY <1>4, <1>10, <2>2
<1> HIDE DEF first
<1>13. /\ b2.cur = b.cur /\ b2.foCur = b.foCur /\ b2.foPrev = b.foPrev
       /\ b2.foNext = b.foNext
       /\ b3.free = b.free /\ b3.lastFree = b.lastFree
       /\ b3.body = b.body /\ b3.uidNext = b.uidNext /\ b3.max = b.max
       /\ b3.skip = b.skip /\ b3.ok
  BY <1>3, <1>8, <1>10, <1>12 DEF SameFree, SameCursor, SameRest
<1>14. Touchable(b3, q[k])
  <2>1. Touchable(b, q[k])
    BY ONLY <1>5
  <2>2. /\ b3.end = b.end
        /\ \A g \in Frames : b3.frame[g].type = b.frame[g].type
    BY ONLY <1>6, <1>12
  <2> QED
    BY ONLY <2>1, <2>2 DEF Touchable, Readable
<1>15. /\ b4 \in BaseType /\ b4.frame = other /\ b4.end = b.end
       /\ SameList(b3, b4) /\ SameCursor(b3, b4) /\ SameRest(b3, b4)
       /\ b4.free = (IF b3.lastFree = NULL_FRAME THEN f ELSE b3.free)
       /\ b4.lastFree = f
  <2>1. Freed(b3.frame, b3.lastFree, f, hdr) = other
    BY <1>1, <1>2, <1>12, <1>13 DEF other
  <2>2. /\ b3 \in BaseType /\ b3.ok /\ f \in Frames /\ hdr \in Hdr
        /\ Touchable(b3, b3.lastFree) /\ b4 = InsertFreeChain(b3, f, hdr)
        /\ Freed(b3.frame, b3.lastFree, f, hdr) \in HdrMap
    <3>1. b3 \in BaseType /\ b3.ok /\ f \in Frames /\ hdr \in Hdr
      BY ONLY <1>2, <1>3, <1>12, <1>13
    <3>2. b3.lastFree = q[k]
      BY ONLY <1>1, <1>13
    <3>3. Freed(b3.frame, b3.lastFree, f, hdr) \in HdrMap
      BY ONLY <1>6, <2>1
    <3> QED
      BY ONLY <1>14, <3>1, <3>2, <3>3, b4 = InsertFreeChain(b3, f, hdr)
  <2>3. b3.end = b.end
    BY <1>12
  <2> QED
    BY ONLY <2>1, <2>2, <2>3, InsertFreeFields
<1>16. TwoChains(b4, e, n - 1, d, k + 1)
  <2>1. b4.first = e[1] /\ b4.last = e[n - 1]
    <3>1. /\ b4.first = IF m = 1 THEN c[m + 1] ELSE c[1]
          /\ b4.last = IF m = n THEN c[m - 1] ELSE c[n]
      BY <1>1, <1>9, <1>12, <1>15 DEF SameList, first
    <3>2. /\ e[1] = IF m = 1 THEN c[m + 1] ELSE c[1]
          /\ e[n - 1] = IF m = n THEN c[m - 1] ELSE c[n]
      BY <1>2, <1>5, <1>6
    <3> QED
      BY <3>1, <3>2
  <2>2. b4.free = d[1] /\ b4.lastFree = d[k + 1]
    <3>1. q[k] = NULL_FRAME <=> k = 0
      BY <1>1, <1>5 DEF IsChain
    <3> QED
      <4>1. b3.free = q[1] /\ b3.lastFree = q[k]
        BY ONLY <1>1, <1>13
      <4>2. d[1] = (IF k = 0 THEN c[m] ELSE q[1]) /\ d[k + 1] = c[m]
        BY ONLY <1>6
      <4>3. /\ b4.free = (IF b3.lastFree = NULL_FRAME THEN f ELSE b3.free)
            /\ b4.lastFree = f /\ f = c[m]
        BY ONLY <1>2, <1>15
      <4> QED
        BY ONLY <3>1, <4>1, <4>2, <4>3
  <2>3. \A j \in 1 .. k + 1 : other[d[j]].type = "free"
    BY <1>1, <1>6
  <2> QED
    BY <1>1, <1>6, <1>15, <2>1, <2>2, <2>3 DEF TwoChains
<1>17. Typed(b4, Closed, e, n - 1)
  <2> SUFFICES ASSUME NEW i \in 1 .. n - 1
               PROVE  b4.frame[e[i]].type = "normal"
    BY ClosedIs DEF Typed
  <2>1. PICK j \in 1 .. n : j # m /\ e[i] = c[j]
    BY <1>2, <1>5, <1>6
  <2>2. b.frame[c[j]].type = "normal"
    BY ClosedIs DEF Shape, Typed
  <2> QED
    BY <1>6, <1>15, <2>1, <2>2
<1>18. /\ b4.idx = Removed(b.idx, m) /\ b4.num = n - 1 /\ Len(b4.idx) = Len(b.idx)
       /\ \A i \in 1 .. n - 1 : b4.idx[i] = IF i < m THEN b.idx[i] ELSE b.idx[i + 1]
  <2> DEFINE s == b.idx
  <2>1. s \in Seq(SQIDX) /\ m \in 1 .. Len(s) /\ Len(s) >= n /\ Len(s) \in Nat
    BY <1>9
  <2>2. b4.idx = Removed(s, m) /\ b4.num = n - 1
    BY <1>9, <1>12, <1>15 DEF SameList
  <2> HIDE DEF s
  <2>3. /\ Len(Removed(s, m)) = Len(s)
        /\ \A i \in 1 .. Len(s) - 1 :
              Removed(s, m)[i] = IF i < m THEN s[i] ELSE s[i + 1]
    BY <2>1, RemovedIs
  <2>4. \A i \in 1 .. n - 1 : i \in 1 .. Len(s) - 1
    BY <1>5, <2>1
  <2> QED
    BY <2>2, <2>3, <2>4 DEF s
<1>19. Indexed(b4, Closed, e, n - 1)
  <2>1. \A i \in 1 .. n : b.idx[i].ofs = c[i]
    BY <1>9, ClosedIs DEF Shape, Indexed
  <2> QED
    <3>1. \A i \in 1 .. n - 1 : b4.idx[i].ofs = e[i]
      <4> SUFFICES ASSUME NEW i \in 1 .. n - 1 PROVE b4.idx[i].ofs = e[i]
        OBVIOUS
      <4>1. i \in 1 .. n /\ i + 1 \in 1 .. n
        BY <1>5
      <4>2. CASE i < m
        BY <1>6, <1>18, <2>1, <4>1, <4>2
      <4>3. CASE ~ (i < m)
        <5>1. b4.idx[i] = b.idx[i + 1]
          BY <1>18, <4>3
        <5>2. e[i] = c[i + 1]
          BY <1>6, <4>3
        <5> QED
          BY <2>1, <4>1, <5>1, <5>2
      <4> QED
        BY <4>2, <4>3
    <3>2. b4.num = n - 1 /\ Len(b4.idx) >= n - 1
      BY <1>5, <1>9, <1>18
    <3> QED
      BY <3>1, <3>2, ClosedIs DEF Indexed
<1>20. OnCursor(b4, e, n - 1)
  <2>1. /\ b.cur \in 0 .. n
        /\ b.foCur = c[b.cur] /\ b.foPrev = c[b.cur - 1] /\ b.foNext = c[b.cur + 1]
    BY DEF Shape, OnCursor
  <2>2. Readable(b2, c[m - 1]) <=> m > 1
    <3>1. c[m - 1] = NULL_FRAME <=> m = 1
      BY <1>1, <1>2 DEF IsChain
    <3>2. m > 1 => Readable(b2, c[m - 1])
      BY <1>2, <1>5, <1>6, <1>10, <3>1 DEF Touchable, Readable
    <3> QED
      BY <1>2, <3>1, <3>2, NullIsNoFrame DEF Readable
  <2>3. m > 1 => mid[c[m - 1]].prev = e[m - 2] /\ mid[c[m - 1]].next = e[m]
    <3> SUFFICES ASSUME m > 1
                 PROVE  mid[c[m - 1]].prev = e[m - 2] /\ mid[c[m - 1]].next = e[m]
      OBVIOUS
    <3>1. m - 1 \in 1 .. n - 1 /\ e[m - 1] = c[m - 1]
      BY <1>2, <1>5, <1>6
    <3> QED
      BY <1>2, <1>6, <3>1 DEF Linked
  <2>4. /\ b4.cur = b3.cur /\ b4.foCur = b3.foCur /\ b4.foPrev = b3.foPrev
        /\ b4.foNext = b3.foNext
    BY <1>15 DEF SameCursor
  <2>5. CASE m = b.cur /\ m > 1
    <3>1. /\ b4.cur = m - 1 /\ b4.foCur = c[m - 1] /\ b4.foPrev = e[m - 2]
          /\ b4.foNext = e[m]
      <4>1. b2.cur = m /\ Readable(b2, c[m - 1]) /\ m >= m
        BY <1>2, <1>13, <2>2, <2>5
      <4>2. b3.cur = b2.cur - 1
        BY <1>9, <1>12, <2>5, <4>1
      <4>3. b3.foCur = c[m - 1]
        BY <1>12, <4>1
      <4>4. b3.foPrev = mid[c[m - 1]].prev
        BY <1>12, <4>1
      <4>5. b3.foNext = mid[c[m - 1]].next
        BY <1>12, <4>1
      <4> QED
        BY <2>3, <2>4, <2>5, <4>1, <4>2, <4>3, <4>4, <4>5
    <3> QED
      BY <1>2, <1>5, <1>6, <3>1 DEF OnCursor
  <2>6. CASE m = b.cur /\ m = 1
    <3>1. /\ b4.cur = 0 /\ b4.foCur = NULL_FRAME /\ b4.foPrev = NULL_FRAME
          /\ b4.foNext = c[m + 1]
      BY <1>2, <1>12, <1>13, <2>2, <2>4, <2>6 DEF first
    <3>2. c[0] = NULL_FRAME /\ c[-1] = NULL_FRAME
      BY <1>1, ChainFacts
    <3> QED
      BY <1>2, <1>5, <1>6, <2>6, <3>1, <3>2 DEF OnCursor
  <2>7. CASE m # b.cur
    <3>1. /\ b4.cur = (IF b.cur >= m THEN b.cur - 1 ELSE b.cur)
          /\ b4.foCur = b.foCur
          /\ b4.foPrev = (IF m = b.cur - 1 THEN c[m - 1] ELSE b.foPrev)
          /\ b4.foNext = (IF m = b.cur + 1 THEN c[m + 1] ELSE b.foNext)
      BY <1>12, <1>13, <2>4, <2>7
    <3> QED
      BY <1>2, <1>5, <1>6, <2>1, <2>7, <3>1 DEF OnCursor
  <2> QED
    BY <1>2, <2>5, <2>6, <2>7
<1>21. Numbered(b4, e, n - 1)
  <2>1. /\ \A i, j \in 1 .. n : i < j => b.idx[i].uid < b.idx[j].uid
        /\ \A i \in 1 .. n : 1 <= b.idx[i].uid /\ b.idx[i].uid < b.uidNext
        /\ \A i \in 1 .. n : b.body[c[i]] = b.idx[i].uid
    BY <1>9 DEF Shape, Numbered
  <2>2. b4.uidNext = b.uidNext /\ b4.body = b.body
    BY <1>13, <1>15 DEF SameRest
  <2>3. \A i \in 1 .. n - 1 : 
          \E j \in 1 .. n : /\ j = (IF i < m THEN i ELSE i + 1)
                            /\ b4.idx[i] = b.idx[j] /\ e[i] = c[j]
    <3> SUFFICES ASSUME NEW i \in 1 .. n - 1
                 PROVE  \E j \in 1 .. n : /\ j = (IF i < m THEN i ELSE i + 1)
                            /\ b4.idx[i] = b.idx[j] /\ e[i] = c[j]
      OBVIOUS
    <3>1. i \in 1 .. n /\ i + 1 \in 1 .. n
      BY <1>5
    <3>2. CASE i < m
      BY <1>6, <1>18, <3>1, <3>2
    <3>3. CASE ~ (i < m)
      BY <1>6, <1>18, <3>1, <3>3
    <3> QED
      BY <3>2, <3>3
  <2>4. \A i, j \in 1 .. n - 1 : i < j => b4.idx[i].uid < b4.idx[j].uid
    BY <1>2, <1>5, <2>1, <2>3
  <2>5. \A i \in 1 .. n - 1 : /\ 1 <= b4.idx[i].uid /\ b4.idx[i].uid < b.uidNext
                              /\ b.body[e[i]] = b4.idx[i].uid
    BY <2>1, <2>3
  <2> QED
    BY <1>18, <2>2, <2>4, <2>5 DEF Numbered
<1>22. /\ b4.ok /\ Roomy(b4) /\ b4.uidNext = b.uidNext /\ b4.max = b.max
       /\ b4.skip = b.skip /\ b4.body = b.body /\ b4.hwm <= b.hwm
  BY <1>12, <1>13, <1>15 DEF SameRest, SameList, Shape, Roomy
<1>23. Shape(b4, Closed, e, n - 1, d, k + 1)
  BY ONLY <1>16, <1>17, <1>19, <1>20, <1>21, <1>22 DEF Shape
<1>24. b1.ok
  BY <1>3, <1>8 DEF SameRest
<1>25. b4 \in BaseType
  BY <1>15
<1>26. Shape(b4, Closed, Cut(c, m - 1, 1), n - 1,
                  Joined(q, k, Single(c[m])), k + 1)
  BY ONLY <1>23 DEF e, d
<1> QED
  BY ONLY <1>2, <1>22, <1>24, <1>25, <1>26

---------------------------------------------------------------------------
(***************************************************************************)
(* Making room below the limit.                                            *)
(***************************************************************************)

(* Which frames DropLinks changes, and how.                                *)
LEMMA DropLinksIs ==
  ASSUME NEW b \in BaseType, NEW c, NEW n, NEW q, NEW k,
         TwoChains(b, c, n, q, k), NEW d \in Nat, d >= 1, b.skip \in 0 .. n - d,
         \A i \in 1 .. n : b.idx[i].ofs = c[i],
         NEW other, other = DropLinks(b, d)
  PROVE  /\ other \in HdrMap
         /\ \A j \in 1 .. d :
              /\ other[c[b.skip + j]].type = "free"
              /\ other[c[b.skip + j]].prev
                   = IF j = 1 THEN q[k] ELSE c[b.skip + j - 1]
              /\ other[c[b.skip + j]].next
                   = IF j = d THEN NULL_FRAME ELSE c[b.skip + j + 1]
         /\ \A f \in Frames :
              (\A j \in 1 .. d : c[b.skip + j] # f) =>
                other[f] = IF f = q[k] THEN [b.frame[f] EXCEPT !.next = c[b.skip + 1]]
                           ELSE b.frame[f]
<1> DEFINE s == b.skip
           drop(j) == b.idx[s + j].ofs
           place(f) == CHOOSE j \in 1 .. d : drop(j) = f
           dropped == {drop(j) : j \in 1 .. d}
           freed(f) == [b.frame[f] EXCEPT
                          !.type = "free", !.len = 0,
                          !.prev = IF place(f) = 1 THEN b.lastFree
                                   ELSE drop(place(f) - 1),
                          !.next = IF place(f) = d THEN NULL_FRAME
                                   ELSE drop(place(f) + 1)]
<1>1. /\ IsChain(c, n) /\ IsChain(q, k) /\ n \in Nat /\ k \in Nat /\ s \in Nat
      /\ b.lastFree = q[k] /\ b.frame \in HdrMap /\ s + d <= n
  BY BaseFacts DEF TwoChains, IsChain
<1>2. \A j \in 1 .. d : s + j \in 1 .. n /\ drop(j) = c[s + j]
                        /\ drop(j) \in Frames
  <2> SUFFICES ASSUME NEW j \in 1 .. d
               PROVE  s + j \in 1 .. n /\ drop(j) = c[s + j] /\ drop(j) \in Frames
    OBVIOUS
  <2>1. s + j \in 1 .. n
    BY <1>1
  <2> QED
    BY <1>1, <2>1, ChainFacts
<1>3. \A i, j \in 1 .. d : drop(i) = drop(j) => i = j
  <2> SUFFICES ASSUME NEW i \in 1 .. d, NEW j \in 1 .. d, drop(i) = drop(j)
               PROVE  i = j
    OBVIOUS
  <2>1. s + i = s + j
    BY <1>1, <1>2 DEF IsChain
  <2> QED
    BY <1>1, <2>1
<1>4. other = [f \in Frames |->
                 IF f \in dropped THEN freed(f)
                 ELSE IF f = b.lastFree /\ d > 0
                      THEN [b.frame[f] EXCEPT !.next = drop(1)] ELSE b.frame[f]]
  BY DEF DropLinks
<1> HIDE DEF drop, freed
<1>5. ASSUME NEW j \in 1 .. d
      PROVE  /\ place(drop(j)) = j
             /\ freed(drop(j)) = [b.frame[drop(j)] EXCEPT
                          !.type = "free", !.len = 0,
                          !.prev = IF j = 1 THEN b.lastFree ELSE drop(j - 1),
                          !.next = IF j = d THEN NULL_FRAME ELSE drop(j + 1)]
  <2>1. place(drop(j)) = j
    BY <1>3
  <2> QED
    BY <2>1 DEF freed
<1>6. q[k] \in Ofs
  BY <1>1 DEF IsChain
<1>7. ASSUME NEW j \in 1 .. d
      PROVE  /\ freed(drop(j)) \in Hdr /\ freed(drop(j)).type = "free"
             /\ freed(drop(j)).prev = IF j = 1 THEN q[k] ELSE c[s + j - 1]
             /\ freed(drop(j)).next = IF j = d THEN NULL_FRAME ELSE c[s + j + 1]
  <2> DEFINE p == IF j = 1 THEN b.lastFree ELSE drop(j - 1)
             v == IF j = d THEN NULL_FRAME ELSE drop(j + 1)
             h == b.frame[drop(j)]
  <2>1. h \in Hdr
    BY <1>1, <1>2 DEF HdrMap
  <2>2. p \in Ofs /\ p = IF j = 1 THEN q[k] ELSE c[s + j - 1]
    <3>1. CASE j = 1
      BY <1>1, <1>6, <3>1
    <3>2. CASE j # 1
      <4>1. j - 1 \in 1 .. d /\ s + (j - 1) = s + j - 1
        BY <1>1, <3>2
      <4> QED
        BY <1>2, <3>2, <4>1, NullIsNoFrame
    <3> QED
      BY <3>1, <3>2
  <2>3. v \in Ofs /\ v = IF j = d THEN NULL_FRAME ELSE c[s + j + 1]
    <3>1. CASE j = d
      BY <3>1, NullIsNoFrame
    <3>2. CASE j # d
      <4>1. j + 1 \in 1 .. d /\ s + (j + 1) = s + j + 1
        BY <1>1, <3>2
      <4> QED
        BY <1>2, <3>2, <4>1, NullIsNoFrame
    <3> QED
      BY <3>1, <3>2
  <2>4. freed(drop(j)) = [h EXCEPT !.type = "free", !.len = 0, !.prev = p, !.next = v]
    BY <1>5
  <2> HIDE DEF p, v, h
  <2>5. /\ freed(drop(j)) \in Hdr /\ freed(drop(j)).type = "free"
        /\ freed(drop(j)).prev = p /\ freed(drop(j)).next = v
    BY <2>1, <2>2, <2>3, <2>4 DEF Hdr
  <2> QED
    BY <2>2, <2>3, <2>5
<1>8. \A f \in Frames : f \in dropped <=> \E j \in 1 .. d : f = drop(j)
  OBVIOUS
<1>9. 1 \in 1 .. d /\ d > 0
  OBVIOUS
<1>10. \A f \in Frames : f \notin dropped =>
         other[f] = IF f = q[k] THEN [b.frame[f] EXCEPT !.next = c[s + 1]]
                    ELSE b.frame[f]
  BY <1>1, <1>2, <1>4, <1>9
<1>11. \A j \in 1 .. d : other[c[s + j]] = freed(drop(j))
  BY <1>2, <1>4
<1> HIDE DEF dropped
<1>12. \A f \in Frames : other[f] \in Hdr
  <2> SUFFICES ASSUME NEW f \in Frames PROVE other[f] \in Hdr
    OBVIOUS
  <2>1. CASE f \in dropped
    BY <1>2, <1>7, <1>8, <1>11, <2>1
  <2>2. CASE f \notin dropped
    <3>1. b.frame[f] \in Hdr
      BY <1>1 DEF HdrMap
    <3>2. c[s + 1] \in Ofs
      BY <1>2, <1>9, NullIsNoFrame
    <3>3. [b.frame[f] EXCEPT !.next = c[s + 1]] \in Hdr
      BY <3>1, <3>2, HdrFacts
    <3> QED
      BY <1>10, <2>2, <3>1, <3>3
  <2> QED
    BY <2>1, <2>2
<1>13. other \in HdrMap
  BY <1>4, <1>12 DEF HdrMap
<1>14. \A f \in Frames : (\A j \in 1 .. d : c[s + j] # f) => f \notin dropped
  BY <1>2, <1>8
<1> QED
  BY <1>7, <1>10, <1>11, <1>13, <1>14

(* The two chains once d messages have gone over to the free one: e and z, *)
(* in frames that first read mid and, with the gap closed, other.          *)
ReducedChains(b, c, n, q, k, d, mid, other, e, z) ==
  /\ mid \in HdrMap /\ other \in HdrMap
  /\ \A f \in Frames : mid[f].type = other[f].type
  /\ \A i \in 1 .. n : i <= b.skip \/ i > b.skip + d =>
       mid[c[i]].type = b.frame[c[i]].type
  /\ mid[c[b.skip + 1]].prev = q[k]
  /\ IsChain(e, n - d) /\ Linked(other, e, n - d)
  /\ \A i \in Int : e[i] = IF i <= b.skip THEN c[i] ELSE c[i + d]
  /\ IsChain(z, k + d) /\ Linked(other, z, k + d)
  /\ z[1] = (IF k = 0 THEN c[b.skip + 1] ELSE q[1])
  /\ z[k + d] = c[b.skip + d]
  /\ \A i \in 1 .. n - d, j \in 1 .. k + d : e[i] # z[j]
  /\ \A j \in 1 .. k + d : other[z[j]].type = "free"
  /\ \A g \in Frames : In(g, e, n - d) \/ In(g, z, k + d) <=>
                       In(g, c, n) \/ In(g, q, k)

(* The d messages behind the skipped ones go over from the one chain to    *)
(* the end of the other (sq_msg.c 285-355).                                *)
LEMMA ReduceChains ==
  ASSUME NEW b \in BaseType, NEW c, NEW n \in Nat, NEW q, NEW k \in Nat,
         TwoChains(b, c, n, q, k), NEW d \in Nat, d >= 1, b.skip \in 0 .. n - d,
         \A i \in 1 .. n : b.idx[i].ofs = c[i],
         NEW mid, mid = DropLinks(b, d),
         NEW other, other = Meet(mid, c[b.skip], c[b.skip + d + 1]),
         NEW e, e = Cut(c, b.skip, d),
         NEW z, z = Joined(q, k, Part(c, b.skip, d))
  PROVE  ReducedChains(b, c, n, q, k, d, mid, other, e, z)
<1> DEFINE s == b.skip
           p == Part(c, s, d)
<1>1. /\ IsChain(c, n) /\ IsChain(q, k) /\ n \in Nat /\ k \in Nat /\ s \in Nat
      /\ Linked(b.frame, c, n) /\ Linked(b.frame, q, k)
      /\ b.frame \in HdrMap /\ s + d <= n /\ s \in 0 .. n - d
      /\ \A i \in 1 .. n, j \in 1 .. k : c[i] # q[j]
      /\ \A j \in 1 .. k : b.frame[q[j]].type = "free"
  BY BaseFacts DEF TwoChains, IsChain
<1>2. /\ mid \in HdrMap
      /\ \A j \in 1 .. d :
              /\ mid[c[s + j]].type = "free"
              /\ mid[c[s + j]].prev = IF j = 1 THEN q[k] ELSE c[s + j - 1]
              /\ mid[c[s + j]].next = IF j = d THEN NULL_FRAME ELSE c[s + j + 1]
      /\ \A f \in Frames :
              (\A j \in 1 .. d : c[s + j] # f) =>
                mid[f] = IF f = q[k] THEN [b.frame[f] EXCEPT !.next = c[s + 1]]
                         ELSE b.frame[f]
  BY DropLinksIs
<1>3. /\ \A i \in Int : c[i] \in Ofs /\ q[i] \in Ofs
      /\ \A i \in 1 .. n : c[i] \in Frames /\ c[i] # NULL_FRAME
      /\ \A j \in 1 .. k : q[j] \in Frames /\ q[j] # NULL_FRAME
      /\ \A i \in 1 .. n, j \in Int : c[i] = c[j] => i = j
      /\ \A i \in 1 .. n, j \in Int : c[i] # q[j]
      /\ \A j \in 1 .. k, i \in Int : q[j] = q[i] => i = j
  <2>1. /\ \A i \in Int : c[i] \in Ofs /\ q[i] \in Ofs
        /\ \A i \in 1 .. n : c[i] \in Frames /\ c[i] # NULL_FRAME
        /\ \A j \in 1 .. k : q[j] \in Frames /\ q[j] # NULL_FRAME
    <3>1. \A i \in 1 .. n : c[i] \in Frames
      BY <1>1, ChainFacts
    <3>2. \A j \in 1 .. k : q[j] \in Frames
      BY <1>1, ChainFacts
    <3>3. \A i \in Int : c[i] \in Ofs /\ q[i] \in Ofs
      BY <1>1 DEF IsChain
    <3> QED
      BY <3>1, <3>2, <3>3, NullIsNoFrame
  <2>2. \A j \in Int : j \notin 1 .. n => c[j] = NULL_FRAME
    BY <1>1, ChainFacts
  <2>3. \A j \in Int : j \notin 1 .. k => q[j] = NULL_FRAME
    BY <1>1, ChainFacts
  <2>4. /\ \A i, j \in 1 .. n : c[i] = c[j] => i = j
        /\ \A i, j \in 1 .. k : q[i] = q[j] => i = j
    BY <1>1 DEF IsChain
  <2>5. \A i \in 1 .. n, j \in Int : c[i] = c[j] => i = j
    BY <2>1, <2>2, <2>4
  <2>6. \A j \in 1 .. k, i \in Int : q[j] = q[i] => i = j
    BY <2>1, <2>3, <2>4
  <2>7. \A i \in 1 .. n, j \in Int : c[i] # q[j]
    BY <1>1, <2>1, <2>3
  <2> QED
    BY <2>1, <2>5, <2>6, <2>7
<1> DEFINE x == c[s]
           y == c[s + d + 1]
<1>4. /\ other \in HdrMap
      /\ \A f \in Frames :
           /\ other[f].next = IF f = x THEN y ELSE mid[f].next
           /\ other[f].prev = IF f = y THEN x ELSE mid[f].prev
           /\ other[f].type = mid[f].type
           /\ f # x /\ f # y => other[f] = mid[f]
  <2>1. x \in Ofs /\ y \in Ofs /\ other = Meet(mid, x, y)
    BY <1>1, <1>3
  <2> HIDE DEF x, y
  <2> QED
    BY <1>2, <2>1, MeetIs
<1>5. /\ IsChain(e, n - d)
      /\ \A f \in Frames : In(f, e, n - d) <=>
              In(f, c, n) /\ ~ \E i \in s + 1 .. s + d : c[i] = f
  <2>1. e = Cut(c, s, d)
    OBVIOUS
  <2> HIDE DEF s, p
  <2> QED
    BY <1>1, <2>1, CutIsChain
<1>6. \A i \in Int : e[i] = IF i <= s THEN c[i] ELSE c[i + d]
  BY DEF Cut
<1>7. /\ IsChain(p, d)
      /\ \A i \in 1 .. d : p[i] = c[i + s]
      /\ \A f : In(f, p, d) <=> \E i \in s + 1 .. s + d : c[i] = f
  <2> HIDE DEF s
  <2> QED
    BY <1>1, PartIsChain DEF p
<1>8. p[d + 1] = NULL_FRAME
  BY <1>7, ChainFacts
<1> HIDE DEF p
<1>9. /\ IsChain(z, k + d)
      /\ \A f : In(f, z, k + d) <=> In(f, q, k) \/ In(f, p, d)
  <2>1. \A i \in 1 .. k, j \in 1 .. d : q[i] # p[j]
    <3> SUFFICES ASSUME NEW i \in 1 .. k, NEW j \in 1 .. d PROVE q[i] # p[j]
      OBVIOUS
    <3>1. p[j] = c[j + s] /\ j + s \in 1 .. n
      BY <1>1, <1>7
    <3> QED
      BY <1>3, <3>1
  <2>2. z = Joined(q, k, p)
    BY DEF p
  <2> QED
    BY <1>1, <1>7, <2>1, <2>2, JoinedIsChain
(* a frame that stays in the message chain                                 *)
<1>10. \A i \in 1 .. n : i <= s \/ i > s + d =>
         /\ mid[c[i]] = b.frame[c[i]]
         /\ other[c[i]].prev = IF i = s + d + 1 THEN c[s] ELSE b.frame[c[i]].prev
         /\ other[c[i]].next = IF i = s THEN c[s + d + 1] ELSE b.frame[c[i]].next
  <2> SUFFICES ASSUME NEW i \in 1 .. n, i <= s \/ i > s + d
               PROVE  /\ mid[c[i]] = b.frame[c[i]]
                      /\ other[c[i]].prev = IF i = s + d + 1 THEN c[s] ELSE b.frame[c[i]].prev
                      /\ other[c[i]].next = IF i = s THEN c[s + d + 1] ELSE b.frame[c[i]].next
    OBVIOUS
  <2>1. c[i] \in Frames /\ \A j \in 1 .. d : c[s + j] # c[i]
    BY <1>1, <1>3
  <2>2. c[i] # q[k]
    BY <1>1, <1>3
  <2>3. mid[c[i]] = b.frame[c[i]]
    BY <1>2, <2>1, <2>2
  <2>4. (c[i] = x <=> i = s) /\ (c[i] = y <=> i = s + d + 1)
    BY <1>1, <1>3
  <2> QED
    BY <1>4, <2>1, <2>3, <2>4
<1>11. Linked(other, e, n - d)
  <2> DEFINE frame == b.frame
  <2>1. \A i \in 1 .. n : i <= s \/ i > s + d =>
         /\ other[c[i]].prev = IF i = s + d + 1 THEN c[s] ELSE frame[c[i]].prev
         /\ other[c[i]].next = IF i = s THEN c[s + d + 1] ELSE frame[c[i]].next
    BY <1>10
  <2>2. Linked(frame, c, n)
    BY <1>1
  <2>3. e = Cut(c, s, d)
    OBVIOUS
  <2> HIDE DEF frame, s
  <2> QED
    BY <1>1, <2>1, <2>2, <2>3, CutLinked
<1>12. \A j \in 1 .. d : p[j] \in Frames /\ p[j] # x /\ p[j] # y /\ other[p[j]] = mid[p[j]]
                         /\ p[j] = c[s + j]
  <2> SUFFICES ASSUME NEW j \in 1 .. d
               PROVE  p[j] \in Frames /\ p[j] # x /\ p[j] # y
                      /\ other[p[j]] = mid[p[j]] /\ p[j] = c[s + j]
    OBVIOUS
  <2>1. s + j \in 1 .. n /\ p[j] = c[s + j] /\ s + j # s /\ s + j # s + d + 1
    BY <1>1, <1>7
  <2>2. p[j] # x /\ p[j] # y
    BY <1>1, <1>3, <2>1
  <2> QED
    BY <1>3, <1>4, <2>1, <2>2
<1>13. \A j \in 1 .. k :
         /\ q[j] \in Frames
         /\ other[q[j]] = mid[q[j]]
         /\ mid[q[j]].type = "free"
         /\ mid[q[j]].prev = b.frame[q[j]].prev
         /\ mid[q[j]].next = IF j = k THEN p[1] ELSE b.frame[q[j]].next
  <2> SUFFICES ASSUME NEW j \in 1 .. k
               PROVE  /\ q[j] \in Frames
                      /\ other[q[j]] = mid[q[j]]
                      /\ mid[q[j]].type = "free"
                      /\ mid[q[j]].prev = b.frame[q[j]].prev
                      /\ mid[q[j]].next = IF j = k THEN p[1] ELSE b.frame[q[j]].next
    OBVIOUS
  <2>1. q[j] \in Frames /\ \A i \in 1 .. d : c[s + i] # q[j]
    BY <1>1, <1>3
  <2>2. mid[q[j]] = IF j = k THEN [b.frame[q[j]] EXCEPT !.next = c[s + 1]]
                    ELSE b.frame[q[j]]
    BY <1>1, <1>2, <1>3, <2>1
  <2>3. q[j] # x /\ q[j] # y
    <3>1. s \in 1 .. n \/ x = NULL_FRAME
      BY <1>1, ChainFacts
    <3>2. s + d + 1 \in 1 .. n \/ y = NULL_FRAME
      BY <1>1, ChainFacts
    <3> QED
      BY <1>1, <1>3, <3>1, <3>2
  <2>4. p[1] = c[s + 1] /\ c[s + 1] \in Ofs
    BY <1>1, <1>3, <1>7
  <2>5. b.frame[q[j]] \in Hdr /\ b.frame[q[j]].type = "free"
    BY <1>1, <2>1 DEF HdrMap
  <2>6. LET h == [b.frame[q[j]] EXCEPT !.next = c[s + 1]]
        IN h.next = c[s + 1] /\ h.type = "free" /\ h.prev = b.frame[q[j]].prev
    BY <2>5 DEF Hdr
  <2>7. other[q[j]] = mid[q[j]]
    BY <1>4, <2>1, <2>3
  <2> QED
    BY <2>1, <2>2, <2>4, <2>5, <2>6, <2>7
<1>14. Linked(other, z, k + d)
  <2> DEFINE frame == b.frame
  <2>1. \A i \in 1 .. k :
           /\ other[q[i]].prev = frame[q[i]].prev
           /\ other[q[i]].next = IF i = k THEN p[1] ELSE frame[q[i]].next
    BY <1>13
  <2>2. \A j \in 1 .. d :
           /\ other[p[j]].prev = IF j = 1 THEN q[k] ELSE p[j - 1]
           /\ other[p[j]].next = p[j + 1]
    <3> SUFFICES ASSUME NEW j \in 1 .. d
                 PROVE  /\ other[p[j]].prev = IF j = 1 THEN q[k] ELSE p[j - 1]
                        /\ other[p[j]].next = p[j + 1]
      OBVIOUS
    <3>1. /\ other[p[j]].prev = IF j = 1 THEN q[k] ELSE c[s + j - 1]
          /\ other[p[j]].next = IF j = d THEN NULL_FRAME ELSE c[s + j + 1]
      BY <1>2, <1>12
    <3>2. j # 1 => p[j - 1] = c[s + j - 1]
      <4>1. j # 1 => j - 1 \in 1 .. d /\ s + (j - 1) = s + j - 1
        BY <1>1
      <4> QED
        BY <1>12, <4>1
    <3>3. p[j + 1] = IF j = d THEN NULL_FRAME ELSE c[s + j + 1]
      <4>1. j # d => j + 1 \in 1 .. d /\ s + (j + 1) = s + j + 1
        BY <1>1
      <4> QED
        BY <1>8, <1>12, <4>1
    <3> QED
      BY <3>1, <3>2, <3>3
  <2>3. Linked(frame, q, k) /\ z = Joined(q, k, p)
    BY <1>1 DEF p
  <2> HIDE DEF frame
  <2>4. Linked(other, Joined(q, k, p), k + d)
    BY <1>1, <1>7, <2>1, <2>2, <2>3, JoinedLinked, ZenonT(30)
  <2> QED
    BY <2>3, <2>4
<1>15. /\ z[1] = (IF k = 0 THEN c[s + 1] ELSE q[1])
       /\ z[k + d] = c[s + d]
  <2>1. z[1] = (IF 1 <= k THEN q[1] ELSE p[1 - k]) /\ z[k + d] = p[k + d - k]
    BY <1>1 DEF Joined, p
  <2>2. p[1] = c[s + 1] /\ p[d] = c[s + d]
    BY <1>1, <1>12
  <2> QED
    BY <1>1, <2>1, <2>2
<1>16. \A i \in 1 .. n - d, j \in 1 .. k + d : e[i] # z[j]
  <2> SUFFICES ASSUME NEW i \in 1 .. n - d, NEW j \in 1 .. k + d, e[i] = z[j]
               PROVE  FALSE
    OBVIOUS
  <2>1. In(e[i], e, n - d) /\ In(e[i], z, k + d) /\ e[i] \in Frames
    BY <1>5, ChainFacts DEF In
  <2>2. In(e[i], c, n) /\ ~ In(e[i], p, d)
    BY <1>5, <1>7, <2>1
  <2>3. In(e[i], q, k)
    BY <1>9, <2>1, <2>2
  <2> QED
    BY <1>1, <2>2, <2>3 DEF In
<1>17. \A j \in 1 .. k + d : other[z[j]].type = "free"
  <2> SUFFICES ASSUME NEW j \in 1 .. k + d PROVE other[z[j]].type = "free"
    OBVIOUS
  <2>1. In(z[j], q, k) \/ In(z[j], p, d)
    BY <1>9 DEF In
  <2>2. \A i \in 1 .. d : other[p[i]].type = "free"
    BY <1>2, <1>12
  <2> QED
    BY <1>13, <2>1, <2>2 DEF In
<1>18. \A g \in Frames : In(g, e, n - d) \/ In(g, z, k + d) <=>
                         In(g, c, n) \/ In(g, q, k)
  <2>1. \A g \in Frames : In(g, p, d) => In(g, c, n)
    BY <1>1, <1>7 DEF In
  <2> QED
    BY <1>5, <1>7, <1>9, <2>1
<1>19. mid[c[s + 1]].prev = q[k]
  BY <1>2
<1>20. \A i \in 1 .. n : i <= s \/ i > s + d => mid[c[i]].type = b.frame[c[i]].type
  BY <1>10
<1> QED
  BY <1>2, <1>4, <1>5, <1>6, <1>9, <1>11, <1>14, <1>15, <1>16, <1>17, <1>18,
     <1>19, <1>20 DEF ReducedChains

(* Where every record and frame can be read, all the surplus messages are  *)
(* moved.                                                                  *)
LEMMA DroppableIs ==
  ASSUME NEW b, Surplus(b) \in Nat, b.skip \in Nat,
         \A j \in 1 .. Surplus(b) :
           b.skip + j <= b.num /\ Readable(b, b.idx[b.skip + j].ofs)
  PROVE  Droppable(b) = Surplus(b)
<1> DEFINE D(k) == /\ \A j \in 1 .. k : b.skip + j <= b.num
                                         /\ Readable(b, b.idx[b.skip + j].ofs)
                   /\ k < Surplus(b) =>
                        ~ (b.skip + k + 1 <= b.num
                           /\ Readable(b, b.idx[b.skip + k + 1].ofs))
<1>1. D(Surplus(b)) /\ Surplus(b) \in 0 .. Surplus(b)
  OBVIOUS
<1>2. ASSUME NEW k \in 0 .. Surplus(b), D(k), k # Surplus(b) PROVE FALSE
  <2>1. k + 1 \in 1 .. Surplus(b) /\ k < Surplus(b)
    BY <1>2
  <2>2. b.skip + (k + 1) = b.skip + k + 1
    BY <2>1
  <2>3. b.skip + k + 1 <= b.num /\ Readable(b, b.idx[b.skip + k + 1].ofs)
    BY <2>1, <2>2
  <2> QED
    BY <1>2, <2>1, <2>3
<1>3. Droppable(b) = CHOOSE k \in 0 .. Surplus(b) : D(k)
  BY DEF Droppable
<1> HIDE DEF D
<1> QED
  BY <1>1, <1>2, <1>3

(* The index after the d records behind the first s have gone.             *)
Shifted(idx, num, s, d) ==
  [i \in 1 .. num |-> IF i <= s THEN idx[i]
                      ELSE IF i + d <= num THEN idx[i + d] ELSE Blank]

(* The index after the move has the records of the messages that stay, in  *)
(* order.                                                                  *)
LEMMA ShiftedIs ==
  ASSUME NEW idx \in Seq(SQIDX), NEW num \in Nat, num <= Len(idx),
         NEW s \in Nat, NEW d \in Nat, s + d <= num
  PROVE  /\ Shifted(idx, num, s, d) \in Seq(SQIDX)
         /\ Len(Shifted(idx, num, s, d)) = num
         /\ \A i \in 1 .. num - d :
              Shifted(idx, num, s, d)[i] = IF i <= s THEN idx[i] ELSE idx[i + d]
<1>1. \A i \in 1 .. num :
        (IF i <= s THEN idx[i] ELSE IF i + d <= num THEN idx[i + d] ELSE Blank)
          \in SQIDX
  BY UidFacts
<1> QED
  BY <1>1 DEF Shifted

(* The base after its d oldest messages that are not skipped have gone, up *)
(* to the cursor and the mark.                                             *)
Dropped(b, c, mid, s, d, p, v) ==
  /\ c \in BaseType
  /\ c.frame = Meet(mid, p, v) /\ c.end = b.end
  /\ c.idx = Shifted(b.idx, b.num, s, d) /\ c.num = b.num - d
  /\ c.first = (IF s = 0 THEN v ELSE b.first) /\ c.last = b.last
  /\ c.free = (IF b.free = NULL_FRAME THEN b.idx[s + 1].ofs ELSE b.free)
  /\ c.lastFree = b.idx[s + d].ofs
  /\ SameCursor(b, c) /\ c.ok /\ c.body = b.body /\ c.uidNext = b.uidNext
  /\ c.max = b.max /\ c.skip = b.skip /\ c.hwm = b.hwm

(* The fields of the base once the surplus messages have gone.             *)
LEMMA DropMessagesIs ==
  ASSUME NEW b \in BaseType, NEW d \in Nat, d >= 1, d = Surplus(b),
         b.num \in Nat,
         b.num <= Len(b.idx), b.skip + d < b.num,
         NEW mid \in HdrMap, mid = DropLinks(b, d),
         NEW s \in Nat, s = b.skip,
         NEW p \in Ofs, NEW v \in Frames, s = 0 <=> p = NULL_FRAME,
         v < b.end, mid[v].type # "none", Readable(b, p) \/ s = 0,
         p \in Frames => mid[p].type # "none",
         b.idx[s + 1].ofs \in Frames, b.idx[s + d].ofs \in Frames,
         NEW c, c = ReduceLinks(DropMessages(b, d), v, p)
  PROVE  Dropped(b, c, mid, s, d, p, v)
<1> DEFINE free == IF b.free = NULL_FRAME THEN b.idx[s + 1].ofs ELSE b.free
           lastFree == b.idx[s + d].ofs
           idx == Shifted(b.idx, b.num, s, d)
           num == b.num - d
           y == DropMessages(b, d)
<1>1. /\ b.idx \in Seq(SQIDX) /\ b.free \in Ofs /\ b.skip \in Nat
      /\ b.first \in Ofs /\ v \in Ofs
  BY BaseFacts, NullIsNoFrame
<1>2. y = [b EXCEPT !.frame = mid, !.free = free, !.lastFree = lastFree,
                    !.num = num, !.idx = idx, !.ok = TRUE]
  <2>1. DropFrames(b, d) = [b EXCEPT !.frame = mid, !.free = free, !.lastFree = lastFree]
    <3>1. /\ d > 0 /\ b.skip = s /\ DropLinks(b, d) = mid
          /\ (IF b.free = NULL_FRAME /\ d > 0 THEN b.idx[b.skip + 1].ofs
              ELSE b.free) = free
          /\ (IF d > 0 THEN b.idx[b.skip + d].ofs ELSE b.lastFree) = lastFree
      OBVIOUS
    <3> HIDE DEF free, lastFree
    <3> QED
      BY ONLY <3>1 DEF DropFrames
  <2>2. b.num = b.num /\ ~ (d < Surplus(b)) /\ d # 0 /\ d > 0
    OBVIOUS
  <2> DEFINE z == DropFrames(b, d)
  <2>3. z.num = b.num /\ z.idx = b.idx
    BY <2>1 DEF BaseType
  <2>4. y = [z EXCEPT !.num = num, !.idx = idx, !.ok = TRUE]
    <3>1. (IF d < Surplus(b) THEN d + 1 ELSE d) = d /\ (d = Surplus(b)) = TRUE
      OBVIOUS
    <3> QED
      <4>1. idx = IF d = 0 THEN SubSeq(z.idx, 1, b.num - 1)
                  ELSE [i \in 1 .. b.num |->
                     IF i <= b.skip THEN z.idx[i]
                     ELSE IF i + d <= b.num THEN z.idx[i + d] ELSE Blank]
        BY <2>2, <2>3 DEF Shifted
      <4>2. num = z.num - (IF d < Surplus(b) THEN d + 1 ELSE d)
        BY <2>3, <3>1
      <4> HIDE DEF z, idx, num
      <4>3. y = [z EXCEPT
                   !.num = z.num - (IF d < Surplus(b) THEN d + 1 ELSE d),
                   !.idx = IF d = 0 THEN SubSeq(z.idx, 1, b.num - 1)
                           ELSE [i \in 1 .. b.num |->
                             IF i <= b.skip THEN z.idx[i]
                             ELSE IF i + d <= b.num THEN z.idx[i + d] ELSE Blank],
                   !.ok = (d = Surplus(b))]
        BY Zenon DEF z, DropMessages
      <4> HIDE DEF y
      <4> QED
        BY ONLY <3>1, <4>1, <4>2, <4>3
  <2> HIDE DEF y, free, lastFree, num, idx
  <2> QED
    BY <2>1, <2>4 DEF BaseType
<1>3. /\ free \in Ofs /\ lastFree \in Ofs /\ idx \in Seq(SQIDX) /\ num \in Int
      /\ mid \in [Frames -> Hdr]
  <2>1. free \in Ofs /\ lastFree \in Ofs /\ num \in Int
    <3>1. b.idx[s + 1].ofs \in Ofs /\ b.idx[s + d].ofs \in Ofs
      BY NullIsNoFrame
    <3>2. free \in Ofs
      BY <1>1, <3>1
    <3>3. lastFree \in Ofs
      BY <3>1
    <3>4. num \in Int
      OBVIOUS
    <3> QED
      BY <3>2, <3>3, <3>4
  <2>2. idx \in Seq(SQIDX)
    <3> DEFINE old == b.idx
               n == b.num
    <3>1. old \in Seq(SQIDX) /\ n \in Nat /\ n <= Len(old) /\ s \in Nat /\ s + d <= n
      BY <1>1
    <3> HIDE DEF old, n
    <3>2. Shifted(old, n, s, d) \in Seq(SQIDX)
      BY <3>1, ShiftedIs
    <3> QED
      BY <3>2 DEF old, n
  <2> QED
    BY <2>1, <2>2 DEF HdrMap
<1> HIDE DEF free, lastFree, num, idx
<1>4. y \in BaseType
  <2> HIDE DEF y
  <2> QED
    BY <1>2, <1>3 DEF BaseType
<1>5. /\ y.frame = mid /\ y.free = free /\ y.lastFree = lastFree /\ y.num = num
      /\ y.idx = idx /\ y.ok /\ y.end = b.end /\ y.skip = b.skip /\ y.max = b.max
      /\ y.first = b.first /\ y.last = b.last /\ y.hwm = b.hwm
      /\ y.body = b.body /\ y.uidNext = b.uidNext /\ SameCursor(b, y)
  <2> HIDE DEF y
  <2> QED
    BY <1>2 DEF BaseType, SameCursor
<1> HIDE DEF y
<1> DEFINE y1 == IF s = 0 THEN [y EXCEPT !.first = v] ELSE SetFrameNext(y, p, v)
           f1 == SetNext(mid, p, v)
           first == IF s = 0 THEN v ELSE b.first
<1>6. f1 \in HdrMap /\ \A f \in Frames : f1[f].type = mid[f].type
  <2>1. v \in Ofs /\ p \in Ofs /\ mid \in HdrMap
    BY <1>1
  <2> QED
    BY ONLY <2>1, SetNextIs
<1>7. y1 = [y EXCEPT !.frame = f1, !.first = first]
  <2>1. CASE s = 0
    BY <1>4, <1>5, <2>1 DEF SetNext, BaseType
  <2>2. CASE s # 0
    <3>1. Readable(y, p)
      BY <1>5, <2>2 DEF Readable
    <3>2. SetFrameNext(y, p, v) = [y EXCEPT !.frame = f1]
      BY <1>1, <1>4, <1>5, <3>1, SetFrameNextIs
    <3>3. y.first = first
      BY <1>5, <2>2
    <3> HIDE DEF f1, first
    <3>4. y1 = [y EXCEPT !.frame = f1]
      BY <2>2, <3>2
    <3> HIDE DEF y1
    <3> QED
      BY <1>4, <3>3, <3>4 DEF BaseType
  <2> QED
    BY <2>1, <2>2
<1>8. first \in Ofs /\ f1 \in [Frames -> Hdr]
  BY <1>1, <1>6 DEF HdrMap
<1> HIDE DEF y1, f1, first
<1>9. y1 \in BaseType /\ y1.frame = f1 /\ y1.end = b.end /\ y1.ok
  BY <1>4, <1>5, <1>7, <1>8 DEF BaseType
<1>10. c = SetFramePrev(y1, v, p)
  <2>1. y.skip = s
    BY <1>5
  <2>2. s = 0 => p = NULL_FRAME
    OBVIOUS
  <2> QED
    BY <2>1, <2>2 DEF ReduceLinks, y1, y
<1> DEFINE f2 == SetPrev(f1, v, p)
<1>11. Readable(y1, v)
  BY <1>6, <1>9 DEF Readable
<1>12. c = [y1 EXCEPT !.frame = f2]
  BY <1>1, <1>9, <1>10, <1>11, SetFramePrevIs
<1>13. f2 \in HdrMap
  BY <1>1, <1>6, SetPrevIs
<1>14. f2 = Meet(mid, p, v)
  BY DEF Meet, f1
<1> HIDE DEF f2
<1>15. c \in BaseType
  BY <1>9, <1>12, <1>13 DEF BaseType, HdrMap
<1>16. c = [y EXCEPT !.frame = f2, !.first = first]
  BY <1>4, <1>7, <1>12 DEF BaseType
<1>17. /\ c.frame = f2 /\ c.first = first
       /\ c.free = free /\ c.lastFree = lastFree /\ c.num = num
       /\ c.idx = idx /\ c.ok /\ c.end = b.end /\ c.skip = b.skip /\ c.max = b.max
       /\ c.last = b.last /\ c.hwm = b.hwm
       /\ c.body = b.body /\ c.uidNext = b.uidNext /\ SameCursor(b, c)
  BY <1>4, <1>5, <1>16 DEF BaseType, SameCursor
<1> QED
  BY <1>14, <1>15, <1>17 DEF first, free, lastFree, num, idx, Dropped

(* The frame of the last skipped message, and whether the cursor is on a   *)
(* message that goes.                                                      *)
SkipOfs(b) == IF b.skip = 0 THEN NULL_FRAME ELSE GetFrameOfs(b, b.skip)

Inside(b, d) == b.cur > b.skip /\ b.cur <= b.skip + d

(* The cursor after the move: the fields it can change.                    *)
LEMMA ReduceCursorIs ==
  ASSUME NEW b \in BaseType, NEW d \in Nat, NEW first \in Ofs, NEW s \in Nat,
         s = b.skip,
         NEW p \in Ofs, p = SkipOfs(b),
         NEW c, c = ReduceCursor(b, first, d)
  PROVE  /\ c \in BaseType
         /\ c.frame = b.frame /\ c.end = b.end /\ c.idx = b.idx /\ c.num = b.num
         /\ c.first = b.first /\ c.last = b.last /\ c.hwm = b.hwm
         /\ SameFree(b, c) /\ SameRest(b, c)
         /\ Inside(b, d) /\ Readable(b, p) =>
              /\ c.cur = s /\ c.foCur = p
              /\ c.foPrev = b.frame[p].prev /\ c.foNext = b.frame[p].next
         /\ Inside(b, d) /\ ~ Readable(b, p) =>
              /\ c.cur = 0 /\ c.foCur = NULL_FRAME
              /\ c.foPrev = NULL_FRAME /\ c.foNext = b.first
         /\ ~ Inside(b, d) =>
              /\ c.cur = (IF b.cur > s THEN b.cur - d ELSE b.cur)
              /\ c.foCur = b.foCur
              /\ c.foPrev = (IF b.cur = s + d + 1 THEN p ELSE b.foPrev)
              /\ c.foNext = (IF b.cur = s THEN first ELSE b.foNext)
<1> DEFINE y == c
           inside == Inside(b, d)
<1>0. /\ p = IF s = 0 THEN NULL_FRAME ELSE GetFrameOfs(b, s)
      /\ inside \in BOOLEAN /\ inside = (b.cur > s /\ b.cur <= s + d)
  BY DEF SkipOfs, Inside
<1>1. /\ b.skip \in Nat /\ b.cur \in Nat /\ b.first \in Ofs /\ b.foCur \in Ofs
      /\ b.foPrev \in Ofs /\ b.foNext \in Ofs /\ NULL_FRAME \in Ofs
      /\ b.frame \in HdrMap
  BY BaseFacts, NullIsNoFrame
<1>2. y = IF inside /\ Readable(b, p)
          THEN [b EXCEPT !.cur = s, !.foCur = p, !.foPrev = b.frame[p].prev,
                         !.foNext = b.frame[p].next]
          ELSE IF inside THEN ResetCursor(b)
          ELSE [b EXCEPT
                 !.foPrev = IF b.cur = s + d + 1 THEN p ELSE b.foPrev,
                 !.foNext = IF b.cur = s THEN first ELSE b.foNext,
                 !.cur = IF b.cur > s THEN b.cur - d ELSE b.cur]
  BY <1>0, Zenon DEF ReduceCursor
<1> HIDE DEF inside
<1>3. \E cur \in Nat, foCur, foPrev, foNext \in Ofs :
        /\ y = [b EXCEPT !.cur = cur, !.foCur = foCur, !.foPrev = foPrev,
                         !.foNext = foNext]
        /\ inside /\ Readable(b, p) =>
              /\ cur = s /\ foCur = p
              /\ foPrev = b.frame[p].prev /\ foNext = b.frame[p].next
        /\ inside /\ ~ Readable(b, p) =>
              /\ cur = 0 /\ foCur = NULL_FRAME
              /\ foPrev = NULL_FRAME /\ foNext = b.first
        /\ ~ inside =>
              /\ cur = (IF b.cur > s THEN b.cur - d ELSE b.cur)
              /\ foCur = b.foCur
              /\ foPrev = (IF b.cur = s + d + 1 THEN p ELSE b.foPrev)
              /\ foNext = (IF b.cur = s THEN first ELSE b.foNext)
  <2>1. CASE inside /\ Readable(b, p)
    <3>1. s \in Nat /\ b.frame[p].prev \in Ofs /\ b.frame[p].next \in Ofs
      BY <1>1, <2>1, HdrFacts DEF Readable, HdrMap
    <3>2. y = [b EXCEPT !.cur = s, !.foCur = p, !.foPrev = b.frame[p].prev,
                         !.foNext = b.frame[p].next]
      BY ONLY <1>2, <2>1
    <3> QED
      BY ONLY <2>1, <3>1, <3>2, p \in Ofs
  <2>2. CASE inside /\ ~ Readable(b, p)
    BY <1>1, <1>2, <2>2 DEF ResetCursor
  <2>3. CASE ~ inside
    <3> DEFINE cur == IF b.cur > s THEN b.cur - d ELSE b.cur
               foPrev == IF b.cur = s + d + 1 THEN p ELSE b.foPrev
               foNext == IF b.cur = s THEN first ELSE b.foNext
    <3>1. cur \in Nat /\ foPrev \in Ofs /\ foNext \in Ofs
      <4>1. cur \in Nat
        <5>1. s \in Nat /\ ~ (b.cur > s /\ b.cur <= s + d)
          BY <1>0, <1>1, <2>3
        <5>2. b.cur \in Nat /\ d \in Nat
          BY <1>1
        <5> QED
          BY ONLY <5>1, <5>2
      <4>2. foPrev \in Ofs
        BY <1>1
      <4>3. foNext \in Ofs
        BY <1>1
      <4> QED
        BY <4>1, <4>2, <4>3
    <3>2. y = [b EXCEPT !.foPrev = foPrev, !.foNext = foNext, !.cur = cur]
      BY <1>2, <2>3
    <3> HIDE DEF cur, foPrev, foNext
    <3>3. y = [b EXCEPT !.cur = cur, !.foCur = b.foCur, !.foPrev = foPrev,
                        !.foNext = foNext]
      BY <3>2 DEF BaseType
    <3> QED
      BY <1>1, <2>3, <3>1, <3>3 DEF cur, foPrev, foNext
  <2> QED
    BY <2>1, <2>2, <2>3
<1>4. PICK cur \in Nat, foCur, foPrev, foNext \in Ofs :
        /\ y = [b EXCEPT !.cur = cur, !.foCur = foCur, !.foPrev = foPrev,
                         !.foNext = foNext]
        /\ inside /\ Readable(b, p) =>
              /\ cur = s /\ foCur = p
              /\ foPrev = b.frame[p].prev /\ foNext = b.frame[p].next
        /\ inside /\ ~ Readable(b, p) =>
              /\ cur = 0 /\ foCur = NULL_FRAME
              /\ foPrev = NULL_FRAME /\ foNext = b.first
        /\ ~ inside =>
              /\ cur = (IF b.cur > s THEN b.cur - d ELSE b.cur)
              /\ foCur = b.foCur
              /\ foPrev = (IF b.cur = s + d + 1 THEN p ELSE b.foPrev)
              /\ foNext = (IF b.cur = s THEN first ELSE b.foNext)
  BY <1>3
<1>7. c \in BaseType
  BY ONLY <1>4, b \in BaseType DEF BaseType
<1>8. /\ c.frame = b.frame /\ c.end = b.end /\ c.idx = b.idx /\ c.num = b.num
      /\ c.first = b.first /\ c.last = b.last /\ c.hwm = b.hwm
      /\ SameFree(b, c) /\ SameRest(b, c)
      /\ c.cur = cur /\ c.foCur = foCur /\ c.foPrev = foPrev /\ c.foNext = foNext
  BY ONLY <1>4, b \in BaseType DEF BaseType, SameFree, SameRest
<1> QED
  BY <1>4, <1>7, <1>8 DEF inside

(* An assignment to the high water mark changes nothing else.              *)
LEMMA MarkIs ==
  ASSUME NEW b \in BaseType, NEW h \in Nat, NEW c, c = [b EXCEPT !.hwm = h]
  PROVE  /\ c \in BaseType
         /\ c.frame = b.frame /\ c.end = b.end /\ c.idx = b.idx /\ c.num = b.num
         /\ c.first = b.first /\ c.last = b.last /\ c.hwm = h
         /\ SameFree(b, c) /\ SameCursor(b, c) /\ SameRest(b, c)
BY DEF BaseType, SameFree, SameCursor, SameRest

(* The move never raises the mark.                                         *)
LEMMA LowerMarkIs ==
  ASSUME NEW b \in BaseType, NEW d \in Nat
  PROVE  LowerMark(b, d) \in Nat /\ LowerMark(b, d) <= b.hwm
<1>1. b.hwm \in Nat /\ b.skip \in Nat
  BY BaseFacts
<1> QED
  BY <1>1 DEF LowerMark

(* How many messages have to go.                                           *)
Going(b) == IF OverLimit(b) THEN Surplus(b) ELSE 0

(* Where the limit leaves two messages that may go, one stays to link the  *)
(* skipped ones to.                                                        *)
LEMMA SurplusIs ==
  ASSUME NEW b \in BaseType, NEW c, NEW n, NEW q, NEW k,
         Shape(b, Closed, c, n, q, k), OverLimit(b)
  PROVE  /\ n \in Nat /\ k \in Nat /\ b.skip \in Nat /\ b.max \in Nat
         /\ Surplus(b) = n - b.max + 1 /\ Surplus(b) \in Nat /\ Surplus(b) >= 1
         /\ b.skip + Surplus(b) < n
<1>1. /\ n \in Nat /\ k \in Nat /\ b.skip \in Nat /\ b.max \in Nat /\ b.num = n
      /\ b.max # 0 /\ b.num >= b.max /\ b.num > b.skip /\ b.max >= b.skip + 2
  BY BaseFacts, ClosedIs
     DEF Shape, TwoChains, Indexed, Roomy, OverLimit, IsChain
<1>2. Surplus(b) = n - b.max + 1
  BY <1>1 DEF Surplus
<1> QED
  BY <1>1, <1>2

(* ReduceShape, with a name for every value on the way.                    *)
LEMMA ReduceShapeOf ==
  ASSUME NEW b \in BaseType, NEW c, NEW n \in Nat, NEW q, NEW k \in Nat,
         Shape(b, Closed, c, n, q, k), OverLimit(b),
         NEW s \in Nat, s = b.skip, NEW d \in Nat, d = Surplus(b),
         d >= 1, s + d < n, NEW r, r = ReduceMaxMsgs(b),
         NEW p \in Ofs, p = c[s], NEW v \in Ofs, v = c[s + d + 1],
         NEW mid, mid = DropLinks(b, d), NEW other, other = Meet(mid, p, v),
         NEW e, e = Cut(c, s, d), NEW z, z = Joined(q, k, Part(c, s, d)),
         NEW y, y = ReduceLinks(DropMessages(b, d), v, p),
         NEW x, x = ReduceCursor(y, v, d), NEW h, h = LowerMark(b, d)
  PROVE  /\ r \in BaseType
         /\ Shape(r, Closed, e, n - d, z, k + d)
         /\ r.uidNext = b.uidNext /\ r.max = b.max /\ r.skip = b.skip
         /\ r.body = b.body /\ r.hwm <= b.hwm
<1>1. /\ TwoChains(b, c, n, q, k)
      /\ IsChain(c, n) /\ IsChain(q, k)
      /\ Linked(b.frame, c, n) /\ Linked(b.frame, q, k)
      /\ b.first = c[1] /\ b.last = c[n]
      /\ b.free = q[1] /\ b.lastFree = q[k]
      /\ \A g \in Frames : g < b.end <=> In(g, c, n) \/ In(g, q, k)
      /\ \A i \in 1 .. n, j \in 1 .. k : c[i] # q[j]
  BY DEF Shape, TwoChains
<1>n. /\ n \in Nat /\ k \in Nat /\ s \in Nat /\ d \in Nat /\ d >= 1 /\ s + d < n
      /\ s + 1 \in 1 .. n /\ s + d \in 1 .. n /\ s + d + 1 \in 1 .. n
      /\ (s # 0 => s \in 1 .. n) /\ s \in 0 .. n - d
  OBVIOUS
<1>2. /\ b.num = n
      /\ Len(b.idx) >= n /\ Len(b.idx) \in Nat /\ b.idx \in Seq(SQIDX)
      /\ \A i \in 1 .. n : b.idx[i].ofs = c[i]
  BY BaseFacts, ClosedIs DEF Shape, Indexed
<1>3. s \in 0 .. n - d
  OBVIOUS
<1>4. /\ \A i \in Int : c[i] \in Ofs /\ q[i] \in Ofs
      /\ \A i \in 1 .. n : c[i] \in Frames /\ Readable(b, c[i])
      /\ p = NULL_FRAME <=> s = 0
      /\ v \in Frames /\ Readable(b, v)
      /\ s # 0 => p \in Frames /\ Readable(b, p)
  <2>1. \A i \in Int : c[i] \in Ofs /\ q[i] \in Ofs
    BY <1>1 DEF IsChain
  <2>2. \A i \in 1 .. n : c[i] \in Frames /\ Readable(b, c[i])
    BY <1>1, ChainFacts, ChainIsReadable
  <2>3. s + d + 1 \in 1 .. n /\ (s # 0 => s \in 1 .. n)
    BY <1>2, <1>3
  <2>4. c[0] = NULL_FRAME
    BY <1>1, ChainFacts
  <2> QED
    BY <2>1, <2>2, <2>3, <2>4, NullIsNoFrame
<1>5. Droppable(b) = d
  <2>1. Surplus(b) \in Nat /\ b.skip \in Nat
    BY <1>2, <1>3
  <2>2. \A j \in 1 .. Surplus(b) :
           b.skip + j <= b.num /\ Readable(b, b.idx[b.skip + j].ofs)
    <3> SUFFICES ASSUME NEW j \in 1 .. d
                 PROVE  s + j <= b.num /\ Readable(b, b.idx[s + j].ofs)
      OBVIOUS
    <3>1. s + j \in 1 .. n
      BY <1>2, <1>3
    <3>2. b.num = n /\ b.idx[s + j].ofs = c[s + j] /\ Readable(b, c[s + j])
      BY ONLY <1>2, <1>4, <3>1
    <3>3. s + j <= n
      BY ONLY <1>n, <3>1
    <3> QED
      BY ONLY <3>2, <3>3
  <2> QED
    BY <2>1, <2>2, DroppableIs
<1>6. /\ mid \in HdrMap /\ other \in HdrMap
      /\ \A f \in Frames : mid[f].type = other[f].type
      /\ \A i \in 1 .. n : i <= s \/ i > s + d =>
           mid[c[i]].type = b.frame[c[i]].type
      /\ IsChain(e, n - d) /\ Linked(other, e, n - d)
      /\ \A i \in Int : e[i] = IF i <= s THEN c[i] ELSE c[i + d]
      /\ IsChain(z, k + d) /\ Linked(other, z, k + d)
      /\ z[1] = (IF k = 0 THEN c[s + 1] ELSE q[1])
      /\ z[k + d] = c[s + d]
      /\ \A i \in 1 .. n - d, j \in 1 .. k + d : e[i] # z[j]
      /\ \A j \in 1 .. k + d : other[z[j]].type = "free"
      /\ \A g \in Frames : In(g, e, n - d) \/ In(g, z, k + d) <=>
                           In(g, c, n) \/ In(g, q, k)
  <2>1. /\ TwoChains(b, c, n, q, k)
        /\ b.skip \in 0 .. n - d /\ \A i \in 1 .. n : b.idx[i].ofs = c[i]
    BY ONLY <1>1, <1>2, <1>n, s = b.skip
  <2>2. /\ d >= 1 /\ mid = DropLinks(b, d)
        /\ other = Meet(mid, c[b.skip], c[b.skip + d + 1])
        /\ e = Cut(c, b.skip, d) /\ z = Joined(q, k, Part(c, b.skip, d))
    OBVIOUS
  <2>3. ReducedChains(b, c, n, q, k, d, mid, other, e, z)
    BY ONLY <2>1, <2>2, ReduceChains
  <2>4. b.skip = s
    OBVIOUS
  <2> QED
    BY ONLY <2>3, <2>4 DEF ReducedChains
<1>e. /\ \A i \in Int : e[i] = IF i <= s THEN c[i] ELSE c[i + d]
      /\ n \in Nat /\ s \in Nat /\ d \in Nat /\ d >= 1 /\ s + d < n
  BY ONLY <1>6, <1>n
<1>t. \A i \in 1 .. n : i <= s \/ i > s + d =>
           mid[c[i]].type = b.frame[c[i]].type
  BY ONLY <1>6
<1>p. p = c[s] /\ v = c[s + d + 1]
  OBVIOUS
<1>7. /\ s + 1 \in 1 .. n /\ s + d \in 1 .. n /\ s + d + 1 \in 1 .. n
      /\ s # 0 => s \in 1 .. n
  BY ONLY <1>n
<1>8. /\ b.frame[b.idx[s + d].ofs].next = v
      /\ b.frame[b.idx[s + 1].ofs].prev = p
  <2>1. Linked(b.frame, c, n)
    BY <1>1
  <2>2. /\ b.frame[c[s + d]].next = c[s + d + 1]
        /\ b.frame[c[s + 1]].prev = c[s + 1 - 1]
    BY ONLY <1>n, <2>1 DEF Linked
  <2>3. s + 1 - 1 = s
    BY ONLY <1>n
  <2>4. b.idx[s + d].ofs = c[s + d] /\ b.idx[s + 1].ofs = c[s + 1]
    BY <1>n, <1>2
  <2> QED
    BY ONLY <1>p, <2>2, <2>3, <2>4
<1>9. r = [x EXCEPT !.hwm = h]
  <2>1. ~ (Len(b.idx) < b.num) /\ d # 0
    BY <1>p, <1>2, <1>3
  <2>2. r = [ReduceCursor(ReduceLinks(DropMessages(b, d), v, p), v, d)
               EXCEPT !.hwm = LowerMark(b, d)]
    BY ONLY <1>5, <1>8, <2>1, OverLimit(b), s = b.skip, r = ReduceMaxMsgs(b), Zenon
       DEF ReduceMaxMsgs
  <2> QED
    BY <2>2
<1>10. mid[v].type # "none" /\ (p \in Frames => mid[p].type # "none")
  <2>1. mid[v].type = b.frame[v].type
    BY ONLY <1>p, <1>n, <1>t
  <2>2. s # 0 => mid[p].type = b.frame[p].type
    BY ONLY <1>p, <1>n, <1>t
  <2> QED
    BY <1>4, <2>1, <2>2, NullIsNoFrame DEF Readable
<1>11. /\ y \in BaseType
       /\ y.frame = other /\ y.end = b.end
       /\ y.idx = Shifted(b.idx, b.num, s, d) /\ y.num = b.num - d
       /\ y.first = (IF s = 0 THEN v ELSE b.first) /\ y.last = b.last
       /\ y.free = (IF b.free = NULL_FRAME THEN b.idx[s + 1].ofs ELSE b.free)
       /\ y.lastFree = b.idx[s + d].ofs
       /\ SameCursor(b, y) /\ y.ok /\ y.body = b.body /\ y.uidNext = b.uidNext
       /\ y.max = b.max /\ y.skip = b.skip /\ y.hwm = b.hwm
  <2>1. v < b.end
    BY <1>4 DEF Readable
  <2>2. b.idx[s + 1].ofs \in Frames /\ b.idx[s + d].ofs \in Frames
    BY <1>p, <1>2, <1>4, <1>7
  <2>3. /\ mid = DropLinks(b, d) /\ d = Surplus(b) /\ d >= 1
        /\ y = ReduceLinks(DropMessages(b, d), v, p)
    OBVIOUS
  <2>4. /\ b.num \in Nat /\ b.num <= Len(b.idx) /\ b.skip + d < b.num /\ s = b.skip
    BY <1>2
  <2>5. /\ v \in Frames /\ (s = 0 <=> p = NULL_FRAME)
        /\ (Readable(b, p) \/ s = 0)
    BY ONLY <1>n, <1>p, <1>4
  <2>6. mid \in HdrMap /\ mid[v].type # "none" /\ (p \in Frames => mid[p].type # "none")
    BY ONLY <1>6, <1>10
  <2>7. Dropped(b, y, mid, s, d, p, v)
    BY ONLY <2>1, <2>2, <2>3, <2>4, <2>5, <2>6, DropMessagesIs
  <2> QED
    BY ONLY <2>7, other = Meet(mid, p, v) DEF Dropped
<1>12. /\ y.cur = b.cur /\ y.foCur = b.foCur /\ y.foPrev = b.foPrev
       /\ y.foNext = b.foNext
       /\ b.cur \in 0 .. n
       /\ b.foCur = c[b.cur] /\ b.foPrev = c[b.cur - 1] /\ b.foNext = c[b.cur + 1]
  BY <1>11 DEF SameCursor, Shape, OnCursor
<1>13. /\ Len(y.idx) = n /\ y.num = n - d
       /\ \A i \in 1 .. n - d : y.idx[i] = IF i <= s THEN b.idx[i] ELSE b.idx[i + d]
  <2>0. PICK old \in Seq(SQIDX) : old = b.idx
    BY <1>2
  <2>1. /\ n <= Len(old) /\ s + d <= n
    BY <1>2, <1>n, <2>0
  <2>2. y.idx = Shifted(old, n, s, d) /\ y.num = n - d
    BY <1>2, <1>11, <2>0
  <2>3. \A i \in Int : b.idx[i] = old[i]
    BY <2>0
  <2>4. /\ Len(Shifted(old, n, s, d)) = n
        /\ \A i \in 1 .. n - d :
              Shifted(old, n, s, d)[i] = IF i <= s THEN old[i] ELSE old[i + d]
    BY ONLY <2>1, ShiftedIs
  <2>5. \A i \in 1 .. n - d : i \in Int /\ i + d \in Int
    BY ONLY <1>n
  <2> QED
    BY ONLY <2>1, <2>2, <2>3, <2>4, <2>5
<1>14. p = (IF s = 0 THEN NULL_FRAME ELSE GetFrameOfs(y, s))
  <2>1. CASE s = 0
    BY <1>4, <2>1
  <2>2. CASE s # 0
    <3>0. s \in 1 .. n /\ s \in 1 .. n - d /\ s \in Int /\ s <= n
      BY ONLY <1>n, <2>2
    <3>1. s \in 1 .. n - d /\ s <= Len(y.idx) /\ s \in Int /\ y.cur \in Int
      BY <1>12, <1>13, <3>0
    <3>2. y.idx[s].ofs = p
      <4>1. y.idx[s] = b.idx[s]
        BY ONLY <1>13, <3>0
      <4> QED
        BY ONLY <1>2, <1>p, <3>0, <4>1
    <3>9. y.foCur = c[y.cur] /\ y.foPrev = c[y.cur - 1] /\ y.foNext = c[y.cur + 1]
      BY ONLY <1>12
    <3>7. GetFrameOfs(y, s) = p
      BY ONLY <1>p, <3>1, <3>2, <3>9 DEF GetFrameOfs
    <3> QED
      BY <2>2, <3>7
  <2> QED
    BY <2>1, <2>2
<1>c. b.cur \in 0 .. n /\ b.cur \in Int
  BY <1>n, <1>12
<1> DEFINE inside == Inside(y, d)
<1>15. h \in Nat /\ h <= b.hwm
  BY <1>3, LowerMarkIs
<1>16. /\ r \in BaseType
       /\ r.frame = other /\ r.end = b.end /\ r.idx = y.idx /\ r.num = n - d
       /\ r.first = y.first /\ r.last = y.last /\ r.hwm = h
       /\ SameFree(y, r) /\ SameRest(y, r)
       /\ inside /\ Readable(y, p) =>
              /\ r.cur = s /\ r.foCur = p
              /\ r.foPrev = other[p].prev /\ r.foNext = other[p].next
       /\ inside /\ ~ Readable(y, p) =>
              /\ r.cur = 0 /\ r.foCur = NULL_FRAME
              /\ r.foPrev = NULL_FRAME /\ r.foNext = y.first
       /\ ~ inside =>
              /\ r.cur = (IF b.cur > s THEN b.cur - d ELSE b.cur)
              /\ r.foCur = b.foCur
              /\ r.foPrev = (IF b.cur = s + d + 1 THEN p ELSE b.foPrev)
              /\ r.foNext = (IF b.cur = s THEN v ELSE b.foNext)
  <2>1. y \in BaseType /\ s = y.skip /\ x = ReduceCursor(y, v, d)
    BY <1>11
  <2>2. p = SkipOfs(y)
    BY ONLY <1>14, <2>1 DEF SkipOfs
  <2>3. /\ x \in BaseType
        /\ x.frame = y.frame /\ x.end = y.end /\ x.idx = y.idx /\ x.num = y.num
        /\ x.first = y.first /\ x.last = y.last
        /\ SameFree(y, x) /\ SameRest(y, x)
        /\ Inside(y, d) /\ Readable(y, p) =>
              /\ x.cur = s /\ x.foCur = p
              /\ x.foPrev = y.frame[p].prev /\ x.foNext = y.frame[p].next
        /\ Inside(y, d) /\ ~ Readable(y, p) =>
              /\ x.cur = 0 /\ x.foCur = NULL_FRAME
              /\ x.foPrev = NULL_FRAME /\ x.foNext = y.first
        /\ ~ Inside(y, d) =>
              /\ x.cur = (IF y.cur > s THEN y.cur - d ELSE y.cur)
              /\ x.foCur = y.foCur
              /\ x.foPrev = (IF y.cur = s + d + 1 THEN p ELSE y.foPrev)
              /\ x.foNext = (IF y.cur = s THEN v ELSE y.foNext)
    BY ONLY <2>1, <2>2, ReduceCursorIs
  <2>4. /\ r \in BaseType
        /\ r.frame = x.frame /\ r.end = x.end /\ r.idx = x.idx /\ r.num = x.num
        /\ r.first = x.first /\ r.last = x.last /\ r.hwm = h
        /\ SameFree(x, r) /\ SameCursor(x, r) /\ SameRest(x, r)
    BY ONLY <1>9, <1>15, <2>3, MarkIs
  <2>5. /\ y.frame = other /\ y.end = b.end /\ y.num = n - d
        /\ y.cur = b.cur /\ y.foCur = b.foCur
        /\ y.foPrev = b.foPrev /\ y.foNext = b.foNext
    BY <1>11, <1>12, <1>13
  <2>6. SameFree(y, r) /\ SameRest(y, r)
    BY ONLY <2>3, <2>4 DEF SameFree, SameRest
  <2>7. /\ r.cur = x.cur /\ r.foCur = x.foCur /\ r.foPrev = x.foPrev
        /\ r.foNext = x.foNext
    BY ONLY <2>4 DEF SameCursor
  <2> QED
    BY ONLY <2>3, <2>4, <2>5, <2>6, <2>7
<1>i. inside <=> b.cur > s /\ b.cur <= s + d
  BY <1>11, <1>12 DEF Inside
<1>o. ~ inside =>
              /\ r.cur = (IF b.cur > s THEN b.cur - d ELSE b.cur)
              /\ r.foCur = b.foCur
              /\ r.foPrev = (IF b.cur = s + d + 1 THEN p ELSE b.foPrev)
              /\ r.foNext = (IF b.cur = s THEN v ELSE b.foNext)
  BY ONLY <1>16
<1> HIDE DEF inside
<1>17. r.first = e[1] /\ r.last = e[n - d]
  <2>1. e[1] = IF s = 0 THEN v ELSE c[1]
    BY ONLY <1>p, <1>n, <1>e
  <2>2. e[n - d] = c[n]
    BY ONLY <1>p, <1>n, <1>e
  <2> QED
    BY <1>1, <1>11, <1>16, <2>1, <2>2
<1>18. r.free = z[1] /\ r.lastFree = z[k + d]
  <2>1. q[1] = NULL_FRAME <=> k = 0
    BY <1>1, <1>2 DEF IsChain
  <2>2. b.idx[s + 1].ofs = c[s + 1] /\ b.idx[s + d].ofs = c[s + d]
    BY <1>p, <1>2, <1>7
  <2> QED
    <3>1. b.free = q[1]
      BY ONLY <1>1
    <3>2. r.free = y.free /\ r.lastFree = y.lastFree
      BY ONLY <1>16 DEF SameFree
    <3>3. /\ y.free = (IF b.free = NULL_FRAME THEN b.idx[s + 1].ofs ELSE b.free)
          /\ y.lastFree = b.idx[s + d].ofs
      BY ONLY <1>11
    <3>4. z[1] = (IF k = 0 THEN c[s + 1] ELSE q[1]) /\ z[k + d] = c[s + d]
      BY ONLY <1>6
    <3> QED
      BY ONLY <2>1, <2>2, <3>1, <3>2, <3>3, <3>4
<1>19. TwoChains(r, e, n - d, z, k + d)
  <2>1. r.frame = other /\ r.end = b.end
    BY ONLY <1>16
  <2>2. \A g \in Frames : g < b.end <=> In(g, c, n) \/ In(g, q, k)
    BY ONLY <1>1
  <2>3. /\ IsChain(e, n - d) /\ Linked(other, e, n - d)
        /\ IsChain(z, k + d) /\ Linked(other, z, k + d)
        /\ \A i \in 1 .. n - d, j \in 1 .. k + d : e[i] # z[j]
        /\ \A j \in 1 .. k + d : other[z[j]].type = "free"
        /\ \A g \in Frames : In(g, e, n - d) \/ In(g, z, k + d) <=>
                             In(g, c, n) \/ In(g, q, k)
    BY ONLY <1>6
  <2> QED
    BY ONLY <1>17, <1>18, <2>1, <2>2, <2>3 DEF TwoChains
<1>20. Typed(r, Closed, e, n - d)
  <2> SUFFICES ASSUME NEW i \in 1 .. n - d PROVE r.frame[e[i]].type = "normal"
    BY ClosedIs DEF Typed
  <2>1. \E j \in 1 .. n : (j <= s \/ j > s + d) /\ e[i] = c[j]
    <3>1. i \in 1 .. n /\ i + d \in 1 .. n /\ (i > s => i + d > s + d)
      BY <1>p, <1>2, <1>3
    <3>2. i \in Int /\ e[i] = IF i <= s THEN c[i] ELSE c[i + d]
      BY ONLY <1>e, i \in 1 .. n - d
    <3>3. CASE i <= s
      BY ONLY <3>1, <3>2, <3>3
    <3>4. CASE ~ (i <= s)
      BY ONLY <1>n, <3>1, <3>2, <3>4
    <3> QED
      BY <3>3, <3>4
  <2>2. PICK j \in 1 .. n : (j <= s \/ j > s + d) /\ e[i] = c[j]
    BY <2>1
  <2>3. b.frame[c[j]].type = "normal"
    BY ClosedIs DEF Shape, Typed
  <2>4. c[j] \in Frames
    BY <1>4
  <2> QED
    BY <1>6, <1>16, <2>2, <2>3, <2>4
<1>21. /\ r.num = n - d /\ Len(r.idx) = n
       /\ \A i \in 1 .. n - d : \E j \in 1 .. n :
            j = (IF i <= s THEN i ELSE i + d) /\ r.idx[i] = b.idx[j] /\ e[i] = c[j]
  <2> SUFFICES ASSUME NEW i \in 1 .. n - d
               PROVE  \E j \in 1 .. n :
            j = (IF i <= s THEN i ELSE i + d) /\ r.idx[i] = b.idx[j] /\ e[i] = c[j]
    BY <1>13, <1>16
  <2>1. i \in 1 .. n /\ i + d \in 1 .. n
    BY ONLY <1>n, i \in 1 .. n - d
  <2>0. i \in Int /\ r.idx = y.idx
        /\ y.idx[i] = IF i <= s THEN b.idx[i] ELSE b.idx[i + d]
    BY <1>13, <1>16
  <2>2. CASE i <= s
    BY ONLY <1>e, <2>0, <2>1, <2>2
  <2>3. CASE ~ (i <= s)
    BY ONLY <1>e, <2>0, <2>1, <2>3
  <2> QED
    BY <2>2, <2>3
<1>22. Indexed(r, Closed, e, n - d)
  <2>1. \A i \in 1 .. n - d : r.idx[i].ofs = e[i]
    BY <1>p, <1>2, <1>21, ZenonT(30)
  <2>2. Len(r.idx) >= n - d
    BY <1>p, <1>2, <1>3, <1>21
  <2> QED
    BY <1>21, <2>1, <2>2, ClosedIs DEF Indexed
<1>23. Numbered(r, e, n - d)
  <2>1. /\ \A i, j \in 1 .. n : i < j => b.idx[i].uid < b.idx[j].uid
        /\ \A i \in 1 .. n : 1 <= b.idx[i].uid /\ b.idx[i].uid < b.uidNext
        /\ \A i \in 1 .. n : b.body[c[i]] = b.idx[i].uid
    <3>1. Numbered(b, c, n) /\ b.num = n
      BY <1>2 DEF Shape
    <3> QED
      BY ONLY <3>1 DEF Numbered
  <2>2. r.uidNext = b.uidNext /\ r.body = b.body
    BY <1>11, <1>16 DEF SameRest
  <2>3. \A i, j \in 1 .. n - d : i < j => r.idx[i].uid < r.idx[j].uid
    <3> SUFFICES ASSUME NEW i \in 1 .. n - d, NEW j \in 1 .. n - d, i < j
                 PROVE  r.idx[i].uid < r.idx[j].uid
      OBVIOUS
    <3>1. PICK i1 \in 1 .. n : i1 = (IF i <= s THEN i ELSE i + d)
                                /\ r.idx[i] = b.idx[i1]
      BY ONLY <1>21, i \in 1 .. n - d
    <3>2. PICK j1 \in 1 .. n : j1 = (IF j <= s THEN j ELSE j + d)
                                /\ r.idx[j] = b.idx[j1]
      BY ONLY <1>21, j \in 1 .. n - d
    <3>3. i1 < j1
      <4>1. i \in Int /\ j \in Int /\ i < j
        OBVIOUS
      <4> QED
        BY ONLY <1>n, <3>1, <3>2, <4>1
    <3> QED
      BY ONLY <2>1, <3>1, <3>2, <3>3
  <2>4. \A i \in 1 .. n - d : /\ 1 <= r.idx[i].uid /\ r.idx[i].uid < b.uidNext
                              /\ b.body[e[i]] = r.idx[i].uid
    <3> SUFFICES ASSUME NEW i \in 1 .. n - d
                 PROVE  /\ 1 <= r.idx[i].uid /\ r.idx[i].uid < b.uidNext
                        /\ b.body[e[i]] = r.idx[i].uid
      OBVIOUS
    <3>1. PICK i1 \in 1 .. n : r.idx[i] = b.idx[i1] /\ e[i] = c[i1]
      BY ONLY <1>21, i \in 1 .. n - d
    <3> QED
      BY ONLY <2>1, <3>1
  <2>5. r.num = n - d
    BY ONLY <1>21
  <2> QED
    BY ONLY <2>2, <2>3, <2>4, <2>5 DEF Numbered
<1>24. OnCursor(r, e, n - d)
  <2>1. Readable(y, p) <=> s # 0
    <3>1. /\ y.frame = other /\ y.end = b.end
          /\ \A f \in Frames : mid[f].type = other[f].type
      BY ONLY <1>6, <1>11
    <3>2. CASE s = 0
      <4>1. p = NULL_FRAME
        BY ONLY <1>4, <3>2
      <4> QED
        BY ONLY <3>2, <4>1, NullIsNoFrame DEF Readable
    <3>3. CASE s # 0
      <4>1. p \in Frames /\ Readable(b, p)
        BY ONLY <1>4, <3>3
      <4>2. mid[p].type # "none"
        BY ONLY <1>10, <4>1
      <4> QED
        BY ONLY <3>1, <3>3, <4>1, <4>2 DEF Readable
    <3> QED
      BY ONLY <3>2, <3>3
  <2>2. s # 0 => other[p].prev = e[s - 1] /\ other[p].next = e[s + 1]
    <3> SUFFICES ASSUME s # 0
                 PROVE  other[p].prev = e[s - 1] /\ other[p].next = e[s + 1]
      OBVIOUS
    <3>1. s \in 1 .. n - d /\ e[s] = p
      BY ONLY <1>p, <1>n, <1>e, s # 0
    <3>2. Linked(other, e, n - d)
      BY ONLY <1>6
    <3> QED
      BY ONLY <3>1, <3>2 DEF Linked
  <2>3. CASE inside /\ s # 0
    <3>1. /\ r.cur = s /\ r.foCur = p /\ r.foPrev = e[s - 1] /\ r.foNext = e[s + 1]
      BY <1>16, <2>1, <2>2, <2>3
    <3>2. s \in 0 .. n - d /\ e[s] = p
      BY ONLY <1>p, <1>n, <1>e
    <3> QED
      BY <3>1, <3>2 DEF OnCursor
  <2>4. CASE inside /\ s = 0
    <3>1. /\ r.cur = 0 /\ r.foCur = NULL_FRAME /\ r.foPrev = NULL_FRAME
          /\ r.foNext = e[1]
      BY <1>16, <1>17, <2>1, <2>4
    <3>2. e[0] = NULL_FRAME /\ e[-1] = NULL_FRAME /\ 0 \in 0 .. n - d
      BY <1>p, <1>1, <1>e, ChainFacts
    <3>3. 0 - 1 = -1 /\ 0 + 1 = 1
      OBVIOUS
    <3> QED
      BY <3>1, <3>2, <3>3 DEF OnCursor
  <2>5. CASE b.cur <= s
    <3>1. /\ r.cur = b.cur /\ r.foCur = b.foCur
          /\ r.foPrev = b.foPrev /\ r.foNext = (IF b.cur = s THEN v ELSE b.foNext)
      BY ONLY <1>n, <1>c, <1>i, <1>o, <1>12, <2>5
    <3>2. e[b.cur] = c[b.cur] /\ e[b.cur - 1] = c[b.cur - 1]
      BY ONLY <1>p, <1>e, <1>c, <2>5
    <3>3. e[b.cur + 1] = IF b.cur = s THEN v ELSE c[b.cur + 1]
      BY ONLY <1>p, <1>e, <1>c, <2>5
    <3>4. b.cur \in 0 .. n - d
      BY ONLY <1>n, <1>c, <2>5
    <3> QED
      BY <1>12, <3>1, <3>2, <3>3, <3>4 DEF OnCursor
  <2>6. CASE b.cur > s + d
    <3>1. /\ r.cur = b.cur - d /\ r.foCur = b.foCur
          /\ r.foPrev = (IF b.cur = s + d + 1 THEN p ELSE b.foPrev)
          /\ r.foNext = b.foNext
      BY ONLY <1>n, <1>c, <1>i, <1>o, <1>12, <2>6
    <3>2. e[b.cur - d] = c[b.cur] /\ e[b.cur - d + 1] = c[b.cur + 1]
      BY ONLY <1>p, <1>e, <1>c, <2>6
    <3>3. e[b.cur - d - 1] = IF b.cur = s + d + 1 THEN p ELSE c[b.cur - 1]
      BY ONLY <1>p, <1>e, <1>c, <2>6
    <3>4. b.cur - d \in 0 .. n - d
      BY ONLY <1>n, <1>c, <2>6
    <3> QED
      BY <1>12, <3>1, <3>2, <3>3, <3>4 DEF OnCursor
  <2> QED
    BY ONLY <1>n, <1>c, <1>i, <2>3, <2>4, <2>5, <2>6
<1>25. /\ r.ok /\ Roomy(r) /\ r.uidNext = b.uidNext /\ r.max = b.max
       /\ r.skip = b.skip /\ r.body = b.body /\ r.hwm <= b.hwm
  BY <1>11, <1>15, <1>16 DEF SameRest, Shape, Roomy
<1>26. Shape(r, Closed, e, n - d, z, k + d)
  BY ONLY <1>19, <1>20, <1>22, <1>23, <1>24, <1>25 DEF Shape
<1>28. r \in BaseType
  BY <1>16
<1> QED
  BY ONLY <1>25, <1>26, <1>28
(* Making room below the limit keeps the base in shape: the oldest        *)
(* messages after the skipped ones go from the one chain to the other.     *)
LEMMA ReduceShape ==
  ASSUME NEW b \in BaseType, NEW c, NEW n, NEW q, NEW k,
         Shape(b, Closed, c, n, q, k), OverLimit(b),
         NEW d, d = Surplus(b), NEW r, r = ReduceMaxMsgs(b)
  PROVE  /\ d \in Nat /\ d >= 1 /\ b.skip \in Nat /\ n \in Nat /\ b.skip + d < n
         /\ r \in BaseType
         /\ Shape(r, Closed, Cut(c, b.skip, d), n - d,
                  Joined(q, k, Part(c, b.skip, d)), k + d)
         /\ r.uidNext = b.uidNext /\ r.max = b.max /\ r.skip = b.skip
         /\ r.body = b.body /\ r.hwm <= b.hwm
<1> DEFINE s == b.skip
           e == Cut(c, s, d)
           z == Joined(q, k, Part(c, s, d))
           p == c[s]
           v == c[s + d + 1]
           mid == DropLinks(b, d)
           other == Meet(mid, p, v)
           y == ReduceLinks(DropMessages(b, d), v, p)
           x == ReduceCursor(y, v, d)
           h == LowerMark(b, d)
<1>1. /\ n \in Nat /\ k \in Nat /\ s \in Nat /\ d \in Nat /\ d >= 1 /\ s + d < n
  BY SurplusIs
<1>2. p \in Ofs /\ v \in Ofs
  <2>1. \A i \in Int : c[i] \in Ofs
    BY DEF Shape, TwoChains, IsChain
  <2>2. s \in Int /\ s + d + 1 \in Int
    BY <1>1
  <2> QED
    BY <2>1, <2>2
<1> HIDE DEF s, e, z, p, v, mid, other, y, x, h
<1>3. /\ s = b.skip /\ p = c[s] /\ v = c[s + d + 1] /\ mid = DropLinks(b, d)
      /\ other = Meet(mid, p, v) /\ e = Cut(c, s, d)
      /\ z = Joined(q, k, Part(c, s, d))
      /\ y = ReduceLinks(DropMessages(b, d), v, p) /\ x = ReduceCursor(y, v, d)
      /\ h = LowerMark(b, d)
  BY DEF s, e, z, p, v, mid, other, y, x, h
<1>4. /\ r \in BaseType
      /\ Shape(r, Closed, e, n - d, z, k + d)
      /\ r.uidNext = b.uidNext /\ r.max = b.max /\ r.skip = b.skip
      /\ r.body = b.body /\ r.hwm <= b.hwm
  BY <1>1, <1>2, <1>3, ReduceShapeOf
<1> QED
  BY ONLY <1>1, <1>3, <1>4

---------------------------------------------------------------------------
(***************************************************************************)
(* Writing a created message.  Between the freeing of the frame it         *)
(* replaces and the linking of the new one the message chain h of n has a  *)
(* gap at m, and the allocated frame g is in neither chain.                *)
(***************************************************************************)
GapLinks(b, m, h, n, q, k) ==
  /\ Holed(h, n, m) /\ IsChain(q, k)
  /\ HoleLinked(b.frame, h, n, m) /\ Linked(b.frame, q, k)
  /\ (m # 1 => b.first = h[1]) /\ (m # n => b.last = h[n])
  /\ b.free = q[1] /\ b.lastFree = q[k]
  /\ \A i \in 1 .. n, j \in 1 .. k : h[i] # q[j]

GapFrames(b, h, n, q, k, g) ==
  /\ (g = NULL_FRAME \/ (g \in Frames /\ ~ In(g, h, n)))
  /\ ~ In(g, q, k)
  /\ \A f \in Frames : f < b.end <=> f = g \/ In(f, h, n) \/ In(f, q, k)

GapTypes(b, m, h, n, q, k) ==
  /\ \A j \in 1 .. k : b.frame[q[j]].type = "free"
  /\ \A i \in 1 .. n : i # m => b.frame[h[i]].type = "normal"

GapChains(b, m, h, n, q, k, g) ==
  /\ GapLinks(b, m, h, n, q, k)
  /\ GapFrames(b, h, n, q, k, g)
  /\ GapTypes(b, m, h, n, q, k)

GapIndex(b, h, n) ==
  /\ b.num = n /\ Len(b.idx) >= n
  /\ \A i \in 1 .. n : b.idx[i].ofs = h[i]

GapCursor(b, m, h, n) ==
  /\ b.cur \in 0 .. n
  /\ b.cur # m => b.foCur = h[b.cur]
  /\ b.cur - 1 # m => b.foPrev = h[b.cur - 1]
  /\ b.cur + 1 # m => b.foNext = h[b.cur + 1]

GapNumbered(b, m, h, n) ==
  /\ \A i, j \in 1 .. n : i < j => b.idx[i].uid < b.idx[j].uid
  /\ \A i \in 1 .. n : 1 <= b.idx[i].uid /\ b.idx[i].uid < b.uidNext
  /\ \A i \in 1 .. n : i # m => b.body[h[i]] = b.idx[i].uid

Gap(b, m, h, n, q, k, g) ==
  /\ GapChains(b, m, h, n, q, k, g)
  /\ GapIndex(b, h, n) /\ GapCursor(b, m, h, n) /\ GapNumbered(b, m, h, n)
  /\ b.ok /\ Roomy(b)

(* A change of frames and of the free chain alone leaves the rest of a     *)
(* gap.                                                                    *)
LEMMA GapStays ==
  ASSUME NEW b, NEW c, NEW m, NEW h, NEW n, NEW q, NEW k, NEW g,
         NEW p, NEW r, NEW f,
         Gap(b, m, h, n, p, r, f), SameList(b, c), SameCursor(b, c),
         SameRest(b, c),
         GapChains(c, m, h, n, q, k, g)
  PROVE  Gap(c, m, h, n, q, k, g)
BY DEF Gap, SameList, SameCursor, SameRest, GapIndex, GapCursor, GapNumbered, Roomy

(* A new message: the gap is behind the last one.                          *)
LEMMA GapOfNew ==
  ASSUME NEW b \in BaseType, NEW w, NEW c, NEW n, NEW q, NEW k,
         Shape(b, w, c, n, q, k), New(w), w # Closed
  PROVE  /\ n \in Nat /\ w.msg = n + 1
         /\ Gap(b, n + 1, c, n + 1, q, k, NULL_FRAME)
         /\ b.last = c[n] /\ c[n + 2] = NULL_FRAME
<1>1. TwoChains(b, c, n, q, k) /\ Typed(b, w, c, n) /\ Indexed(b, w, c, n)
      /\ OnCursor(b, c, n) /\ Numbered(b, c, n) /\ b.ok /\ Roomy(b)
      /\ OnMessage(b, w, c)
  BY DEF Shape
<1>2. IsChain(c, n) /\ Linked(b.frame, c, n) /\ IsChain(q, k) /\ n \in Nat
      /\ k \in Nat /\ b.last = c[n] /\ b.first = c[1]
  BY <1>1 DEF TwoChains, IsChain
<1>3. ~ Over(w) /\ Pend(w)
  BY DEF New, Over
<1>4. b.num = n + 1 /\ w.msg = n + 1
  BY <1>1 DEF Indexed, OnMessage
<1>5. c[n + 1] = NULL_FRAME /\ c[n + 2] = NULL_FRAME
  <2>1. n + 2 \in Int /\ n + 2 \notin 1 .. n
    BY <1>2
  <2> QED
    BY <1>2, <2>1, ChainFacts
<1>6. /\ Holed(c, n + 1, n + 1) /\ HoleLinked(b.frame, c, n + 1, n + 1)
      /\ \A f \in Frames : In(f, c, n + 1) <=> In(f, c, n)
  BY <1>2, OpenEndIs
<1>7. \A j \in 1 .. k : q[j] \in Frames /\ q[j] # NULL_FRAME
  BY <1>2, ChainFacts, NullIsNoFrame
<1>8. 1 .. n + 1 = 1 .. n \cup {n + 1}
  BY <1>2
<1>9. GapChains(b, n + 1, c, n + 1, q, k, NULL_FRAME)
  <2>1. ~ In(NULL_FRAME, q, k)
    BY <1>7 DEF In
  <2>2. \A f \in Frames : f < b.end <=> f = NULL_FRAME \/ In(f, c, n + 1) \/ In(f, q, k)
    BY <1>1, <1>6, NullIsNoFrame DEF TwoChains
  <2>3. \A i \in 1 .. n + 1, j \in 1 .. k : c[i] # q[j]
    BY <1>1, <1>5, <1>7, <1>8 DEF TwoChains
  <2>4. \A i \in 1 .. n + 1 : i # n + 1 => b.frame[c[i]].type = "normal"
    BY <1>1, <1>3, <1>8 DEF Typed
  <2>5. /\ Linked(b.frame, q, k) /\ b.free = q[1] /\ b.lastFree = q[k]
        /\ \A j \in 1 .. k : b.frame[q[j]].type = "free"
    BY <1>1 DEF TwoChains
  <2>6. GapLinks(b, n + 1, c, n + 1, q, k)
    BY ONLY <1>2, <1>6, <2>3, <2>5 DEF GapLinks
  <2>7. GapFrames(b, c, n + 1, q, k, NULL_FRAME)
    BY ONLY <2>1, <2>2 DEF GapFrames
  <2>8. GapTypes(b, n + 1, c, n + 1, q, k)
    BY ONLY <2>4, <2>5 DEF GapTypes
  <2> QED
    BY ONLY <2>6, <2>7, <2>8 DEF GapChains
<1>10. GapIndex(b, c, n + 1)
  <2>1. \A i \in 1 .. n + 1 : b.idx[i].ofs = c[i]
    BY <1>1, <1>3, <1>4, <1>5, <1>8 DEF Indexed
  <2>2. Len(b.idx) >= n + 1
    BY <1>1, <1>4 DEF Indexed
  <2> QED
    BY ONLY <1>4, <2>1, <2>2 DEF GapIndex
<1>11. GapCursor(b, n + 1, c, n + 1)
  BY <1>1, <1>2 DEF OnCursor, GapCursor
<1>12. GapNumbered(b, n + 1, c, n + 1)
  BY <1>1, <1>4, <1>8 DEF Numbered, GapNumbered
<1> QED
  BY ONLY <1>1, <1>2, <1>4, <1>5, <1>9, <1>10, <1>11, <1>12 DEF Gap

(* A replaced message: its frame goes to the free chain, its place in the  *)
(* message chain is the gap.                                               *)
LEMMA GapOfOver ==
  ASSUME NEW b \in BaseType, NEW w, NEW c, NEW n, NEW q, NEW k,
         Shape(b, w, c, n, q, k), Over(w), w # Closed, w.foRead \in Frames,
         w.rd \in Hdr,
         NEW a, a = InsertFreeChain(b, w.foRead, w.rd)
  PROVE  /\ a \in BaseType /\ n \in Nat /\ w.msg \in 1 .. n
         /\ Gap(a, w.msg, Hollow(c, w.msg), n,
                Joined(q, k, Single(w.foRead)), k + 1, NULL_FRAME)
         /\ w.rd.prev = Hollow(c, w.msg)[w.msg - 1]
         /\ w.rd.next = Hollow(c, w.msg)[w.msg + 1]
         /\ SameList(b, a) /\ SameCursor(b, a) /\ SameRest(b, a)
<1>1. TwoChains(b, c, n, q, k) /\ Typed(b, w, c, n) /\ Indexed(b, w, c, n)
      /\ OnCursor(b, c, n) /\ Numbered(b, c, n) /\ b.ok /\ Roomy(b)
      /\ OnMessage(b, w, c)
  BY DEF Shape
<1>2. /\ IsChain(c, n) /\ Linked(b.frame, c, n) /\ IsChain(q, k) /\ n \in Nat
      /\ k \in Nat /\ b.last = c[n] /\ b.first = c[1] /\ b.free = q[1]
      /\ b.lastFree = q[k] /\ Linked(b.frame, q, k) /\ b.frame \in HdrMap
      /\ \A i \in 1 .. n, j \in 1 .. k : c[i] # q[j]
  BY <1>1, BaseFacts DEF TwoChains, IsChain
<1>3. ~ New(w) /\ Pend(w)
  BY DEF New, Over
<1>4. /\ b.num = n /\ w.msg \in 1 .. n /\ w.foRead = c[w.msg]
      /\ w.rd = b.frame[c[w.msg]]
  BY <1>1, <1>3 DEF Indexed, OnMessage
<1>5. PICK m \in 1 .. n : m = w.msg
  BY <1>4
<1>6. PICK f \in Frames : f = w.foRead
  OBVIOUS
<1>7. PICK rd \in Hdr : rd = w.rd
  OBVIOUS
<1>8. PICK h : h = Hollow(c, m)
  OBVIOUS
<1>9. PICK z : z = Joined(q, k, Single(f))
  OBVIOUS
<1>10. PICK other : other = Freed(b.frame, q[k], f, rd)
  OBVIOUS
<1>11. f = c[m] /\ ~ In(f, q, k)
  BY <1>2, <1>4, <1>5, <1>6 DEF In
<1>12. PICK frame \in HdrMap : frame = b.frame
  BY <1>2
<1>13. /\ other \in HdrMap
       /\ IsChain(z, k + 1) /\ Linked(other, z, k + 1)
       /\ z[1] = (IF k = 0 THEN f ELSE q[1]) /\ z[k + 1] = f
       /\ \A g : In(g, z, k + 1) <=> In(g, q, k) \/ g = f
       /\ \A g \in Frames :
              /\ other[g].type = IF g = f THEN "free" ELSE frame[g].type
              /\ g # f /\ ~ In(g, q, k) => other[g] = frame[g]
  <2>1. Linked(frame, q, k) /\ other = Freed(frame, q[k], f, rd)
    BY <1>2, <1>10, <1>12
  <2> QED
    BY ONLY <1>2, <1>9, <1>11, <2>1, AppendedIs
<1>14. /\ a \in BaseType /\ a.frame = other /\ a.end = b.end
       /\ SameList(b, a) /\ SameCursor(b, a) /\ SameRest(b, a)
       /\ a.free = (IF b.lastFree = NULL_FRAME THEN f ELSE b.free)
       /\ a.lastFree = f
  <2>1. Touchable(b, b.lastFree)
    <3>1. k \in Int
      BY <1>2
    <3> QED
      BY <1>2, <3>1, ChainIsReadable
  <2>2. a = InsertFreeChain(b, f, rd) /\ Freed(b.frame, b.lastFree, f, rd) = other
    BY <1>2, <1>6, <1>7, <1>10
  <2> QED
    BY <1>1, <1>13, <2>1, <2>2, InsertFreeFields
<1>15. /\ \A i \in 1 .. n : c[i] \in Frames /\ (i # m => c[i] # f)
       /\ \A i \in 1 .. n : i # m => other[c[i]] = frame[c[i]]
  <2>1. \A i \in 1 .. n : c[i] \in Frames
    BY <1>2, ChainFacts
  <2>2. \A i \in 1 .. n : i # m => c[i] # f
    BY <1>2, <1>11 DEF IsChain
  <2>3. \A i \in 1 .. n : ~ In(c[i], q, k)
    BY <1>2 DEF In
  <2> QED
    BY ONLY <1>13, <2>1, <2>2, <2>3
<1>16. /\ Holed(h, n, m) /\ HoleLinked(other, h, n, m)
       /\ \A i \in Int : i # m => h[i] = c[i]
       /\ \A g \in Frames : In(g, h, n) <=> In(g, c, n) /\ g # c[m]
  <2>1. Linked(frame, c, n)
    BY <1>2, <1>12
  <2>2. \A i \in 1 .. n : i # m =>
           /\ other[c[i]].prev = frame[c[i]].prev
           /\ other[c[i]].next = frame[c[i]].next
    BY <1>15
  <2> QED
    BY ONLY <1>2, <1>8, <2>1, <2>2, HollowIs
<1>17. \A j \in 1 .. k + 1 : z[j] \in Frames /\ z[j] # NULL_FRAME
  BY <1>13, ChainFacts, NullIsNoFrame
<1>h. h[m] = NULL_FRAME /\ m \in Int
  BY <1>5, <1>16 DEF Holed
<1>18. \A i \in 1 .. n, j \in 1 .. k + 1 : h[i] # z[j]
  <2> SUFFICES ASSUME NEW i \in 1 .. n, NEW j \in 1 .. k + 1, h[i] = z[j]
               PROVE  FALSE
    OBVIOUS
  <2>1. i # m /\ h[i] = c[i] /\ i \in Int
    BY <1>h, <1>16, <1>17
  <2>2. In(c[i], z, k + 1)
    BY <2>1 DEF In
  <2>3. In(c[i], q, k)
    BY <1>13, <1>15, <2>1, <2>2
  <2> QED
    BY <1>2, <2>3 DEF In
<1>19. \A j \in 1 .. k + 1 : other[z[j]].type = "free"
  <2> SUFFICES ASSUME NEW j \in 1 .. k + 1 PROVE other[z[j]].type = "free"
    OBVIOUS
  <2>1. In(z[j], z, k + 1)
    BY DEF In
  <2>2. z[j] \in Frames
    BY <1>17
  <2>3. CASE z[j] = f
    BY <1>13, <2>2, <2>3
  <2>4. CASE z[j] # f
    <3>1. In(z[j], q, k)
      BY <1>13, <2>1, <2>4
    <3>2. frame[z[j]].type = "free"
      BY <1>1, <1>12, <3>1 DEF In, TwoChains
    <3> QED
      BY <1>13, <2>2, <2>4, <3>2
  <2> QED
    BY <2>3, <2>4
<1>20. GapChains(a, m, h, n, z, k + 1, NULL_FRAME)
  <2>1. (m # 1 => a.first = h[1]) /\ (m # n => a.last = h[n])
    BY <1>2, <1>14, <1>16 DEF SameList
  <2>2. a.free = z[1] /\ a.lastFree = z[k + 1]
    <3>1. b.lastFree = NULL_FRAME <=> k = 0
      <4>1. k = 0 => q[k] = NULL_FRAME
        BY <1>2, ChainFacts
      <4>2. k # 0 => q[k] # NULL_FRAME
        <5>1. k # 0 => k \in 1 .. k
          BY <1>2
        <5> QED
          BY <1>2, <5>1, ChainFacts, NullIsNoFrame
      <4> QED
        BY <1>2, <4>1, <4>2
    <3> QED
      BY <1>2, <1>13, <1>14, <3>1
  <2>3. ~ In(NULL_FRAME, z, k + 1)
    BY <1>17 DEF In
  <2>4. \A g \in Frames : g < a.end <=> g = NULL_FRAME \/ In(g, h, n) \/ In(g, z, k + 1)
    <3> SUFFICES ASSUME NEW g \in Frames
                 PROVE  g < a.end <=> g = NULL_FRAME \/ In(g, h, n) \/ In(g, z, k + 1)
      OBVIOUS
    <3>1. g < b.end <=> In(g, c, n) \/ In(g, q, k)
      BY <1>1 DEF TwoChains
    <3>2. In(c[m], c, n)
      BY DEF In
    <3>3. In(g, h, n) <=> In(g, c, n) /\ g # c[m]
      BY ONLY <1>16, g \in Frames
    <3>4. In(g, z, k + 1) <=> In(g, q, k) \/ g = c[m]
      BY ONLY <1>11, <1>13
    <3>5. a.end = b.end /\ g # NULL_FRAME
      BY <1>14, NullIsNoFrame
    <3>6. g < a.end <=> g < b.end
      BY ONLY <3>5, Zenon
    <3>7. g = c[m] => In(g, c, n)
      BY ONLY <3>2, Zenon
    <3> QED
      BY ONLY <3>1, <3>3, <3>4, <3>5, <3>6, <3>7, Zenon
  <2>5. \A i \in 1 .. n : i # m => a.frame[h[i]].type = "normal"
    <3> SUFFICES ASSUME NEW i \in 1 .. n, i # m PROVE a.frame[h[i]].type = "normal"
      OBVIOUS
    <3>1. h[i] = c[i] /\ other[c[i]] = frame[c[i]]
      BY <1>15, <1>16
    <3>2. b.frame[c[i]].type = "normal"
      BY <1>1, <1>5 DEF Typed
    <3> QED
      BY <1>12, <1>14, <3>1, <3>2
  <2>6. a.frame = other
    BY <1>14
  <2>7. GapLinks(a, m, h, n, z, k + 1)
    BY ONLY <1>13, <1>16, <1>18, <2>1, <2>2, <2>6 DEF GapLinks
  <2>8. GapFrames(a, h, n, z, k + 1, NULL_FRAME)
    BY ONLY <2>3, <2>4 DEF GapFrames
  <2>9. GapTypes(a, m, h, n, z, k + 1)
    BY ONLY <1>19, <2>5, <2>6 DEF GapTypes
  <2> QED
    BY ONLY <2>7, <2>8, <2>9 DEF GapChains
<1>21. GapIndex(a, h, n)
  <2>1. a.num = n /\ a.idx = b.idx /\ Len(b.idx) >= n
    BY <1>1, <1>4, <1>14 DEF SameList, Indexed
  <2>2. \A i \in 1 .. n : b.idx[i].ofs = IF i = m THEN NULL_FRAME ELSE c[i]
    BY <1>1, <1>3, <1>4, <1>5 DEF Indexed
  <2> QED
    BY ONLY <1>h, <1>16, <2>1, <2>2 DEF GapIndex
<1>22. GapCursor(a, m, h, n)
  <2>1. /\ a.cur = b.cur /\ a.foCur = b.foCur /\ a.foPrev = b.foPrev
        /\ a.foNext = b.foNext
    BY <1>14 DEF SameCursor
  <2>2. /\ b.cur \in 0 .. n /\ b.foCur = c[b.cur] /\ b.foPrev = c[b.cur - 1]
        /\ b.foNext = c[b.cur + 1]
    BY <1>1 DEF OnCursor
  <2>3. b.cur \in Int /\ b.cur - 1 \in Int /\ b.cur + 1 \in Int
    BY <1>2, <2>2
  <2> QED
    BY ONLY <1>16, <2>1, <2>2, <2>3 DEF GapCursor
<1>23. GapNumbered(a, m, h, n)
  <2>1. a.idx = b.idx /\ a.uidNext = b.uidNext /\ a.body = b.body
    BY <1>14 DEF SameList, SameRest
  <2>2. /\ \A i, j \in 1 .. n : i < j => b.idx[i].uid < b.idx[j].uid
        /\ \A i \in 1 .. n : 1 <= b.idx[i].uid /\ b.idx[i].uid < b.uidNext
        /\ \A i \in 1 .. n : b.body[c[i]] = b.idx[i].uid
    BY <1>1, <1>4 DEF Numbered
  <2>3. \A i \in 1 .. n : i # m => h[i] = c[i]
    BY <1>16
  <2> QED
    BY ONLY <2>1, <2>2, <2>3 DEF GapNumbered
<1>24. a.ok /\ Roomy(a)
  BY <1>1, <1>14 DEF SameRest, Roomy
<1>25. Gap(a, m, h, n, z, k + 1, NULL_FRAME)
  BY ONLY <1>20, <1>21, <1>22, <1>23, <1>24 DEF Gap
<1>26. rd.prev = h[m - 1] /\ rd.next = h[m + 1]
  <2>1. rd = b.frame[c[m]]
    BY <1>4, <1>5, <1>7
  <2>2. b.frame[c[m]].prev = c[m - 1] /\ b.frame[c[m]].next = c[m + 1]
    BY <1>2 DEF Linked
  <2>3. m - 1 \in Int /\ m - 1 # m /\ m + 1 \in Int /\ m + 1 # m
    BY <1>h
  <2> QED
    BY ONLY <1>16, <2>1, <2>2, <2>3
<1> QED
  BY ONLY <1>2, <1>4, <1>5, <1>6, <1>7, <1>8, <1>9, <1>14, <1>25, <1>26

(* The frames of both chains can be read.                                  *)
LEMMA GapReadable ==
  ASSUME NEW b, NEW m, NEW h, NEW n, NEW q, NEW k, NEW g,
         GapChains(b, m, h, n, q, k, g)
  PROVE  /\ n \in Nat /\ m \in 1 .. n /\ k \in Nat
         /\ \A j \in 1 .. k : Readable(b, q[j]) /\ q[j] \in Frames
         /\ \A i \in 1 .. n : i # m => Readable(b, h[i]) /\ h[i] \in Frames
         /\ \A i \in Int : h[i] \in Ofs /\ Touchable(b, h[i])
<1>1. /\ Holed(h, n, m) /\ IsChain(q, k)
      /\ \A f \in Frames : f < b.end <=> f = g \/ In(f, h, n) \/ In(f, q, k)
      /\ \A j \in 1 .. k : b.frame[q[j]].type = "free"
      /\ \A i \in 1 .. n : i # m => b.frame[h[i]].type = "normal"
  BY DEF GapChains, GapLinks, GapFrames, GapTypes
<1>2. /\ n \in Nat /\ m \in 1 .. n /\ k \in Nat
      /\ \A i \in Int : h[i] \in Ofs
      /\ \A i \in Int : i \in 1 .. n /\ i # m <=> h[i] # NULL_FRAME
  BY <1>1 DEF Holed, IsChain
<1>3. \A j \in 1 .. k : q[j] \in Frames /\ q[j] < b.end
  BY <1>1, ChainFacts DEF In
<1>4. \A j \in 1 .. k : Readable(b, q[j])
  BY <1>1, <1>3 DEF Readable
<1>5. \A i \in 1 .. n : i # m => h[i] \in Frames /\ h[i] < b.end
  <2> SUFFICES ASSUME NEW i \in 1 .. n, i # m
               PROVE  h[i] \in Frames /\ h[i] < b.end
    OBVIOUS
  <2>1. i \in Int
    BY <1>2
  <2>2. h[i] \in Frames
    BY <1>2, <2>1, NullIsNoFrame
  <2>3. In(h[i], h, n)
    BY DEF In
  <2> QED
    BY <1>1, <2>2, <2>3
<1>6. \A i \in 1 .. n : i # m => Readable(b, h[i])
  BY <1>1, <1>5 DEF Readable
<1>7. \A i \in Int : Touchable(b, h[i])
  BY <1>2, <1>6 DEF Touchable
<1> QED
  BY ONLY <1>2, <1>3, <1>4, <1>5, <1>6, <1>7

(* A frame of the free chain is taken for the message.                     *)
LEMMA TakenFromFree ==
  ASSUME NEW b \in BaseType, NEW m, NEW h, NEW n, NEW q, NEW k,
         Gap(b, m, h, n, q, k, NULL_FRAME), NEW j \in 1 .. k,
         NEW a, a = RemoveFreeChain(b, q[j])
  PROVE  /\ a \in BaseType /\ q[j] \in Frames
         /\ Gap(a, m, h, n, Cut(q, j - 1, 1), k - 1, q[j])
         /\ SameList(b, a) /\ SameCursor(b, a) /\ SameRest(b, a)
<1>1. GapChains(b, m, h, n, q, k, NULL_FRAME) /\ b.ok
  BY DEF Gap
<1>2. /\ Holed(h, n, m) /\ IsChain(q, k) /\ k \in Nat
      /\ HoleLinked(b.frame, h, n, m) /\ Linked(b.frame, q, k)
      /\ (m # 1 => b.first = h[1]) /\ (m # n => b.last = h[n])
      /\ b.free = q[1] /\ b.lastFree = q[k]
      /\ \A i \in 1 .. n, i1 \in 1 .. k : h[i] # q[i1]
  BY <1>1 DEF GapChains, GapLinks, IsChain
<1>3. /\ \A f \in Frames : f < b.end <=> f = NULL_FRAME \/ In(f, h, n) \/ In(f, q, k)
      /\ \A i \in 1 .. k : b.frame[q[i]].type = "free"
      /\ \A i \in 1 .. n : i # m => b.frame[h[i]].type = "normal"
  BY <1>1 DEF GapChains, GapFrames, GapTypes
<1>4. /\ \A i \in 1 .. k : Readable(b, q[i]) /\ q[i] \in Frames
      /\ \A i \in 1 .. n : i # m => Readable(b, h[i]) /\ h[i] \in Frames
  BY <1>1, GapReadable
<1>5. PICK frame \in HdrMap : frame = b.frame
  BY BaseFacts
<1>6. PICK other : other = Meet(frame, q[j - 1], q[j + 1])
  OBVIOUS
<1>7. PICK z : z = Cut(q, j - 1, 1)
  OBVIOUS
<1>8. PICK f \in Frames : f = q[j]
  BY <1>4
<1>9. /\ other \in HdrMap
      /\ IsChain(z, k - 1) /\ Linked(other, z, k - 1)
      /\ \A i \in Int : z[i] = IF i < j THEN q[i] ELSE q[i + 1]
      /\ \A i \in Frames : In(i, z, k - 1) <=> In(i, q, k) /\ i # q[j]
      /\ \A i \in Frames : /\ other[i].type = frame[i].type
                           /\ ~ In(i, q, k) => other[i] = frame[i]
  <2>1. Linked(frame, q, k)
    BY <1>2, <1>5
  <2> QED
    BY ONLY <1>2, <1>6, <1>7, <2>1, j \in 1 .. k, UnlinkedIs
<1> DEFINE free == IF j = 1 THEN q[2] ELSE b.free
           lastFree == IF j = k THEN q[k - 1] ELSE b.lastFree
<1>10. a = [b EXCEPT !.frame = other, !.free = free, !.lastFree = lastFree]
  <2>1. RemoveFreeChain(b, q[j]) = FreeWithout(b, q, k, j)
    <3>1. /\ IsChain(q, k) /\ Linked(b.frame, q, k) /\ b.free = q[1]
          /\ b.lastFree = q[k]
      BY <1>2
    <3>2. b.ok /\ \A i \in 1 .. k : Readable(b, q[i])
      BY <1>1, <1>4
    <3> QED
      BY ONLY <3>1, <3>2, b \in BaseType, j \in 1 .. k, RemoveFreeIs
  <2> QED
    BY <1>5, <1>6, <2>1 DEF FreeWithout
<1>11. free = z[1] /\ lastFree = z[k - 1] /\ free \in Ofs /\ lastFree \in Ofs
  <2>1. j \in Int /\ k \in Int /\ j >= 1 /\ j <= k
    BY <1>2
  <2>2. z[1] = IF j = 1 THEN q[2] ELSE q[1]
    BY ONLY <1>9, <2>1
  <2>3. z[k - 1] = IF j = k THEN q[k - 1] ELSE q[k]
    BY ONLY <1>9, <2>1
  <2>4. q[1] \in Ofs /\ q[2] \in Ofs /\ q[k] \in Ofs /\ q[k - 1] \in Ofs
    BY <1>2, <2>1 DEF IsChain
  <2> QED
    BY <1>2, <2>2, <2>3, <2>4
<1> HIDE DEF free, lastFree
<1>12. /\ a \in BaseType /\ a.frame = other /\ a.end = b.end
       /\ a.free = free /\ a.lastFree = lastFree
       /\ SameList(b, a) /\ SameCursor(b, a) /\ SameRest(b, a)
  <2>1. a \in BaseType
    BY <1>9, <1>10, <1>11 DEF BaseType, HdrMap
  <2> QED
    BY <1>10, <2>1 DEF BaseType, SameList, SameCursor, SameRest
<1>13. \A i \in 1 .. n : i # m => other[h[i]] = frame[h[i]]
  <2>1. \A i \in 1 .. n : ~ In(h[i], q, k)
    BY <1>2 DEF In
  <2> QED
    BY ONLY <1>4, <1>9, <2>1
<1>14. HoleLinked(other, h, n, m)
  <2>1. HoleLinked(frame, h, n, m)
    BY <1>2, <1>5
  <2> QED
    BY ONLY <1>13, <2>1 DEF HoleLinked
<1>15. \A i \in 1 .. k - 1 : z[i] \in Frames /\ In(z[i], q, k)
  <2>1. \A i \in 1 .. k - 1 : z[i] \in Frames /\ In(z[i], z, k - 1)
    BY <1>9, ChainFacts DEF In
  <2> QED
    BY ONLY <1>9, <2>1
<1>16. GapLinks(a, m, h, n, z, k - 1)
  <2>1. \A i \in 1 .. n, i1 \in 1 .. k - 1 : h[i] # z[i1]
    BY <1>2, <1>15 DEF In
  <2>2. (m # 1 => a.first = h[1]) /\ (m # n => a.last = h[n])
    BY <1>2, <1>12 DEF SameList
  <2>3. a.frame = other /\ a.free = z[1] /\ a.lastFree = z[k - 1]
    BY <1>11, <1>12
  <2>4. Holed(h, n, m)
    BY <1>2
  <2> QED
    BY ONLY <1>9, <1>14, <2>1, <2>2, <2>3, <2>4 DEF GapLinks
<1>17. GapFrames(a, h, n, z, k - 1, f)
  <2>1. ~ In(f, z, k - 1)
    BY <1>8, <1>9
  <2>2. ~ In(f, h, n)
    BY <1>2, <1>8 DEF In
  <2>3. ASSUME NEW i \in Frames
        PROVE  i < a.end <=> i = f \/ In(i, h, n) \/ In(i, z, k - 1)
    <3>1. In(q[j], q, k)
      BY DEF In
    <3>2. i < a.end <=> i < b.end
      BY ONLY <1>12, Zenon
    <3>3. i < b.end <=> In(i, h, n) \/ In(i, q, k)
      BY <1>3, NullIsNoFrame
    <3>4. In(i, z, k - 1) <=> In(i, q, k) /\ i # f
      BY <1>8, <1>9
    <3>5. i = f => In(i, q, k)
      BY ONLY <1>8, <3>1, Zenon
    <3> QED
      BY ONLY <3>2, <3>3, <3>4, <3>5, Zenon
  <2> QED
    BY ONLY <2>1, <2>2, <2>3, f \in Frames DEF GapFrames
<1>18. GapTypes(a, m, h, n, z, k - 1)
  <2>1. \A i \in 1 .. k - 1 : other[z[i]].type = "free"
    <3> SUFFICES ASSUME NEW i \in 1 .. k - 1 PROVE other[z[i]].type = "free"
      OBVIOUS
    <3>1. z[i] \in Frames /\ In(z[i], q, k)
      BY <1>15
    <3>2. frame[z[i]].type = "free"
      BY <1>3, <1>5, <3>1 DEF In
    <3> QED
      BY <1>9, <3>1, <3>2
  <2>2. \A i \in 1 .. n : i # m => other[h[i]].type = "normal"
    BY <1>3, <1>5, <1>13
  <2>3. a.frame = other
    BY <1>12
  <2> QED
    BY ONLY <2>1, <2>2, <2>3 DEF GapTypes
<1>19. Gap(a, m, h, n, z, k - 1, f)
  <2>1. GapChains(a, m, h, n, z, k - 1, f)
    BY ONLY <1>16, <1>17, <1>18 DEF GapChains
  <2>2. Gap(b, m, h, n, q, k, NULL_FRAME)
    OBVIOUS
  <2> QED
    BY ONLY <1>12, <2>1, <2>2, GapStays
<1> QED
  BY ONLY <1>7, <1>8, <1>12, <1>19

(* A frame is added at the end of the file.                                *)
LEMMA TakenFromEnd ==
  ASSUME NEW b \in BaseType, NEW m, NEW h, NEW n, NEW q, NEW k,
         Gap(b, m, h, n, q, k, NULL_FRAME), b.end <= MaxFrames,
         NEW a, a = [b EXCEPT !.end = @ + 1]
  PROVE  /\ a \in BaseType /\ b.end \in Frames
         /\ Gap(a, m, h, n, q, k, b.end)
         /\ SameList(b, a) /\ SameCursor(b, a) /\ SameRest(b, a)
<1>1. PICK e \in 1 .. MaxFrames + 1 : e = b.end
  BY BaseFacts
<1>2. e \in Frames /\ e + 1 \in 1 .. MaxFrames + 1 /\ e \in Nat
  BY <1>1, SizesAssumption DEF Frames
<1>3. a = [b EXCEPT !.end = e + 1]
  BY <1>1
<1>4. /\ a \in BaseType /\ a.end = e + 1 /\ a.frame = b.frame
      /\ SameList(b, a) /\ SameCursor(b, a) /\ SameRest(b, a) /\ SameFree(b, a)
  BY <1>2, <1>3 DEF BaseType, SameList, SameCursor, SameRest, SameFree
<1>5. GapChains(b, m, h, n, q, k, NULL_FRAME)
  BY DEF Gap
<1>6. GapLinks(a, m, h, n, q, k)
  BY <1>4, <1>5 DEF GapChains, GapLinks, SameList, SameFree
<1>7. GapTypes(a, m, h, n, q, k)
  BY <1>4, <1>5 DEF GapChains, GapTypes
<1>8. GapFrames(a, h, n, q, k, e)
  <2>1. \A f \in Frames : f < e <=> In(f, h, n) \/ In(f, q, k)
    BY <1>1, <1>5, NullIsNoFrame DEF GapChains, GapFrames
  <2>2. \A f \in Frames : f < e + 1 <=> f = e \/ f < e
    BY <1>2, SizesAssumption DEF Frames
  <2>3. ~ (e < e)
    BY <1>2
  <2>4. ~ In(e, h, n) /\ ~ In(e, q, k)
    BY ONLY <1>2, <2>1, <2>3
  <2>5. \A f \in Frames : f < a.end <=> f = e \/ In(f, h, n) \/ In(f, q, k)
    BY ONLY <1>4, <2>1, <2>2
  <2> QED
    BY ONLY <1>2, <2>4, <2>5 DEF GapFrames
<1>9. Gap(a, m, h, n, q, k, e)
  <2>1. GapChains(a, m, h, n, q, k, e)
    BY ONLY <1>6, <1>7, <1>8 DEF GapChains
  <2>2. Gap(b, m, h, n, q, k, NULL_FRAME)
    OBVIOUS
  <2> QED
    BY ONLY <1>4, <2>1, <2>2, GapStays
<1> QED
  BY ONLY <1>1, <1>2, <1>4, <1>9

(* The header of a message's frame has its type.                           *)
LEMMA MessageIs ==
  ASSUME NEW hdr \in Hdr, NEW p \in Ofs, NEW v \in Ofs
  PROVE  /\ Message(hdr, p, v) \in Hdr
         /\ Message(hdr, p, v).type = "normal"
         /\ Message(hdr, p, v).prev = p /\ Message(hdr, p, v).next = v
BY DEF Message, Hdr

(* Linking a frame in between p and v changes that frame and one link of   *)
(* each of them.                                                           *)
LEMMA LinkedUpIs ==
  ASSUME NEW frame \in HdrMap, NEW p \in Ofs, NEW f \in Frames, NEW v \in Ofs,
         NEW w \in Hdr
  PROVE  /\ LinkedUp(frame, p, f, v, w) \in HdrMap
         /\ LinkedUp(frame, p, f, v, w)[f] = w
         /\ \A g \in Frames : g # f =>
              /\ LinkedUp(frame, p, f, v, w)[g].type = frame[g].type
              /\ LinkedUp(frame, p, f, v, w)[g].prev = IF g = v THEN f ELSE frame[g].prev
              /\ LinkedUp(frame, p, f, v, w)[g].next = IF g = p THEN f ELSE frame[g].next
              /\ g # p /\ g # v => LinkedUp(frame, p, f, v, w)[g] = frame[g]
<1> DEFINE f0 == SetPrev(frame, v, f)
           f1 == SetNext(f0, p, f)
<1>1. f \in Ofs
  BY NullIsNoFrame
<1>2. /\ f0 \in HdrMap
      /\ \A g \in Frames :
           /\ f0[g].prev = IF g = v THEN f ELSE frame[g].prev
           /\ f0[g].next = frame[g].next
           /\ f0[g].type = frame[g].type
           /\ g # v => f0[g] = frame[g]
  BY <1>1, SetPrevIs
<1> HIDE DEF f0
<1>3. /\ f1 \in HdrMap
      /\ \A g \in Frames :
           /\ f1[g].next = IF g = p THEN f ELSE f0[g].next
           /\ f1[g].prev = f0[g].prev
           /\ f1[g].type = f0[g].type
           /\ g # p => f1[g] = f0[g]
  BY <1>1, <1>2, SetNextIs
<1> HIDE DEF f1
<1>4. LinkedUp(frame, p, f, v, w) = [f1 EXCEPT ![f] = w]
  BY DEF LinkedUp, f1, f0
<1> QED
  BY <1>2, <1>3, <1>4 DEF HdrMap

(* The fields after frame f has been linked in as message m.               *)
LinkedFields(b, a, m, p, f, v, frame) ==
  /\ a.frame = frame
  /\ a.end = b.end /\ a.idx = b.idx /\ a.num = b.num /\ a.hwm = b.hwm
  /\ a.cur = b.cur
  /\ SameFree(b, a) /\ SameRest(b, a)
  /\ a.first = (IF p = NULL_FRAME THEN f ELSE b.first)
  /\ a.last = (IF v = NULL_FRAME THEN f ELSE b.last)
  /\ a.foCur = (IF m = b.cur THEN f ELSE b.foCur)
  /\ a.foNext = (IF m = b.cur + 1 THEN f ELSE b.foNext)
  /\ a.foPrev = (IF m = b.cur - 1 THEN f ELSE b.foPrev)

(* The fields of the base once a frame is linked in.                       *)
LEMMA LinkedBaseIs ==
  ASSUME NEW b \in BaseType, NEW r, NEW p \in Ofs, NEW f \in Frames,
         NEW v \in Ofs,
         NEW w \in Hdr, NEW m, r.msg = m,
         NEW a, a = LinkedBase(b, r, p, f, v, w),
         NEW frame, frame = LinkedUp(b.frame, p, f, v, w)
  PROVE  a \in BaseType /\ LinkedFields(b, a, m, p, f, v, frame)
<1>1. PICK g0 \in HdrMap : g0 = frame
  BY BaseFacts, LinkedUpIs
<1>2. PICK g1 \in Ofs : g1 = IF p = NULL_FRAME THEN f ELSE b.first
  BY BaseFacts, NullIsNoFrame
<1>3. PICK g2 \in Ofs : g2 = IF v = NULL_FRAME THEN f ELSE b.last
  BY BaseFacts, NullIsNoFrame
<1>4. PICK g3 \in Ofs : g3 = IF m = b.cur THEN f ELSE b.foCur
  BY BaseFacts, NullIsNoFrame
<1>5. PICK g4 \in Ofs : g4 = IF m = b.cur + 1 THEN f ELSE b.foNext
  BY BaseFacts, NullIsNoFrame
<1>6. PICK g5 \in Ofs : g5 = IF m = b.cur - 1 THEN f ELSE b.foPrev
  BY BaseFacts, NullIsNoFrame
<1>7. a = [b EXCEPT !.frame = g0, !.first = g1, !.last = g2, !.foCur = g3,
                    !.foNext = g4, !.foPrev = g5]
  BY <1>1, <1>2, <1>3, <1>4, <1>5, <1>6 DEF LinkedBase
<1>8. a \in BaseType
  BY ONLY <1>7, b \in BaseType, g0 \in HdrMap, g1 \in Ofs, g2 \in Ofs, g3 \in Ofs,
          g4 \in Ofs, g5 \in Ofs DEF BaseType, HdrMap
<1>9. /\ a.frame = g0 /\ a.first = g1 /\ a.last = g2 /\ a.foCur = g3 /\ a.foNext = g4
      /\ a.foPrev = g5
      /\ a.end = b.end /\ a.idx = b.idx /\ a.num = b.num /\ a.hwm = b.hwm
      /\ a.cur = b.cur /\ SameFree(b, a) /\ SameRest(b, a)
  BY ONLY <1>7, b \in BaseType DEF BaseType, SameFree, SameRest
<1> QED
  BY <1>1, <1>2, <1>3, <1>4, <1>5, <1>6, <1>8, <1>9 DEF LinkedFields

(* The frame linked into the gap: the message chain is whole again.        *)
LEMMA GapIsFilled ==
  ASSUME NEW b \in BaseType, NEW m, NEW h, NEW n, NEW q, NEW k,
         NEW g \in Frames,
         Gap(b, m, h, n, q, k, g), NEW r, r.msg = m, NEW hdr \in Hdr,
         LinksOf(b, r, h[m - 1], h[m + 1]),
         NEW a, a = LinkMessageFrame(b, r, g, hdr), NEW e, e = Filled(h, m, g)
  PROVE  /\ a \in BaseType /\ a.ok
         /\ TwoChains(a, e, n, q, k) /\ OnCursor(a, e, n)
         /\ \A i \in Int : e[i] = IF i = m THEN g ELSE h[i]
         /\ \A i, j \in 1 .. n : e[i] = e[j] => i = j
         /\ \A i \in 1 .. n : e[i] \in Frames /\ a.frame[e[i]].type = "normal"
         /\ a.idx = b.idx /\ a.num = b.num /\ a.hwm = b.hwm /\ SameRest(b, a)
<1>1. GapChains(b, m, h, n, q, k, g) /\ b.ok /\ GapCursor(b, m, h, n)
  BY DEF Gap
<1>2. /\ Holed(h, n, m) /\ IsChain(q, k) /\ k \in Nat /\ n \in Nat /\ m \in 1 .. n
      /\ HoleLinked(b.frame, h, n, m) /\ Linked(b.frame, q, k)
      /\ (m # 1 => b.first = h[1]) /\ (m # n => b.last = h[n])
      /\ b.free = q[1] /\ b.lastFree = q[k]
      /\ \A i \in 1 .. n, i1 \in 1 .. k : h[i] # q[i1]
  BY <1>1 DEF GapChains, GapLinks, IsChain, Holed
<1>3. /\ \A f \in Frames : f < b.end <=> f = g \/ In(f, h, n) \/ In(f, q, k)
      /\ ~ In(g, h, n) /\ ~ In(g, q, k)
      /\ \A i \in 1 .. k : b.frame[q[i]].type = "free"
      /\ \A i \in 1 .. n : i # m => b.frame[h[i]].type = "normal"
  BY <1>1, NullIsNoFrame DEF GapChains, GapFrames, GapTypes
<1>4. /\ \A i \in 1 .. k : q[i] \in Frames
      /\ \A i \in 1 .. n : i # m => h[i] \in Frames
      /\ \A i \in Int : h[i] \in Ofs /\ Touchable(b, h[i])
      /\ \A i \in Int : i \in 1 .. n /\ i # m <=> h[i] # NULL_FRAME
      /\ \A i, j \in 1 .. n : h[i] = h[j] => i = j
  BY <1>1, <1>2, GapReadable DEF Holed
<1>5. PICK frame \in HdrMap : frame = b.frame
  BY BaseFacts
<1>6. PICK p \in Ofs : p = h[m - 1] /\ Touchable(b, p)
  BY <1>2, <1>4
<1>7. PICK v \in Ofs : v = h[m + 1] /\ Touchable(b, v)
  BY <1>2, <1>4
<1>8. PICK w \in Hdr : w = Message(hdr, p, v)
  BY MessageIs
<1>9. PICK other : other = LinkedUp(frame, p, g, v, w)
  OBVIOUS
<1>10. /\ a \in BaseType /\ LinkedFields(b, a, m, p, g, v, other)
  <2>1. LinksOf(b, r, p, v)
    BY <1>6, <1>7
  <2>2. a = LinkedBase(b, r, p, g, v, w)
    BY <1>1, <1>6, <1>7, <1>8, <2>1, LinkIs
  <2>3. other = LinkedUp(b.frame, p, g, v, w)
    BY <1>5, <1>9
  <2> QED
    BY ONLY <2>2, <2>3, b \in BaseType, r.msg = m, LinkedBaseIs
<1>22. /\ a \in BaseType /\ a.frame = other
       /\ a.end = b.end /\ a.idx = b.idx /\ a.num = b.num /\ a.hwm = b.hwm
       /\ a.cur = b.cur
       /\ SameFree(b, a) /\ SameRest(b, a)
       /\ a.first = (IF p = NULL_FRAME THEN g ELSE b.first)
       /\ a.last = (IF v = NULL_FRAME THEN g ELSE b.last)
       /\ a.foCur = (IF m = b.cur THEN g ELSE b.foCur)
       /\ a.foNext = (IF m = b.cur + 1 THEN g ELSE b.foNext)
       /\ a.foPrev = (IF m = b.cur - 1 THEN g ELSE b.foPrev)
  BY <1>10 DEF LinkedFields
<1>11. /\ other \in HdrMap /\ other[g] = w
       /\ \A i \in Frames : i # g =>
              /\ other[i].type = frame[i].type
              /\ other[i].prev = IF i = v THEN g ELSE frame[i].prev
              /\ other[i].next = IF i = p THEN g ELSE frame[i].next
              /\ i # p /\ i # v => other[i] = frame[i]
  BY ONLY <1>9, LinkedUpIs
<1>12. w.type = "normal" /\ w.prev = p /\ w.next = v
  BY <1>8, MessageIs
<1>13. /\ IsChain(e, n)
       /\ \A i \in Int : e[i] = IF i = m THEN g ELSE h[i]
       /\ \A i \in Frames : In(i, e, n) <=> i = g \/ In(i, h, n)
  BY ONLY <1>2, <1>3, e = Filled(h, m, g), FilledIsChain
<1>14. Linked(other, e, n)
  <2>1. ASSUME NEW i \in 1 .. n, i # m
        PROVE  /\ other[h[i]].prev = IF i = m + 1 THEN g ELSE frame[h[i]].prev
               /\ other[h[i]].next = IF i = m - 1 THEN g ELSE frame[h[i]].next
    <3>1. h[i] \in Frames /\ h[i] # g /\ i \in Int
      BY <1>2, <1>3, <1>4, <2>1 DEF In
    <3>2. h[i] = v <=> i = m + 1
      <4>1. CASE m + 1 \in 1 .. n
        BY <1>4, <1>7, <2>1, <4>1
      <4>2. CASE m + 1 \notin 1 .. n
        BY <1>2, <1>4, <1>7, <2>1, <3>1, <4>2, NullIsNoFrame
      <4> QED
        BY <4>1, <4>2
    <3>3. h[i] = p <=> i = m - 1
      <4>1. CASE m - 1 \in 1 .. n
        BY <1>4, <1>6, <2>1, <4>1
      <4>2. CASE m - 1 \notin 1 .. n
        BY <1>2, <1>4, <1>6, <2>1, <3>1, <4>2, NullIsNoFrame
      <4> QED
        BY <4>1, <4>2
    <3> QED
      BY ONLY <1>11, <3>1, <3>2, <3>3
  <2>2. HoleLinked(frame, h, n, m)
    BY <1>2, <1>5
  <2>3. other[g].prev = h[m - 1] /\ other[g].next = h[m + 1]
    BY <1>6, <1>7, <1>11, <1>12
  <2> QED
    BY ONLY <1>2, <2>1, <2>2, <2>3, e = Filled(h, m, g), FilledLinked
<1>15. \A i \in 1 .. k : /\ q[i] # g /\ q[i] # p /\ q[i] # v
                         /\ other[q[i]] = frame[q[i]]
  <2> SUFFICES ASSUME NEW i \in 1 .. k
               PROVE  /\ q[i] # g /\ q[i] # p /\ q[i] # v
                      /\ other[q[i]] = frame[q[i]]
    OBVIOUS
  <2>1. q[i] \in Frames /\ q[i] # NULL_FRAME /\ q[i] # g
    BY <1>3, <1>4, NullIsNoFrame DEF In
  <2>2. q[i] # p
    BY <1>2, <1>4, <1>6, <2>1
  <2>3. q[i] # v
    BY <1>2, <1>4, <1>7, <2>1
  <2> QED
    BY ONLY <1>11, <2>1, <2>2, <2>3
<1>16. Linked(other, q, k)
  <2>1. Linked(frame, q, k)
    BY <1>2, <1>5
  <2> QED
    BY ONLY <1>15, <2>1 DEF Linked
<1>17. \A i \in 1 .. n : e[i] \in Frames /\ other[e[i]].type = "normal"
  <2> SUFFICES ASSUME NEW i \in 1 .. n
               PROVE  e[i] \in Frames /\ other[e[i]].type = "normal"
    OBVIOUS
  <2>1. i \in Int
    BY <1>2
  <2>2. CASE i = m
    BY <1>11, <1>12, <1>13, <2>1, <2>2
  <2>3. CASE i # m
    <3>1. e[i] = h[i] /\ h[i] \in Frames /\ h[i] # g
      BY <1>3, <1>4, <1>13, <2>1, <2>3 DEF In
    <3> QED
      BY <1>3, <1>5, <1>11, <2>3, <3>1
  <2> QED
    BY <2>2, <2>3
<1>18. TwoChains(a, e, n, q, k)
  <2>1. a.first = e[1] /\ a.last = e[n]
    <3>1. 1 \in 1 .. n /\ n \in 1 .. n /\ m - 1 \in Int /\ m + 1 \in Int /\ m \in Int
      BY <1>2
    <3>2. p = NULL_FRAME <=> m = 1
      BY <1>2, <1>4, <1>6, <3>1
    <3>3. v = NULL_FRAME <=> m = n
      BY <1>2, <1>4, <1>7, <3>1
    <3> QED
      BY <1>2, <1>22, <1>13, <3>1, <3>2, <3>3
  <2>2. \A i \in Frames : i < a.end <=> In(i, e, n) \/ In(i, q, k)
    BY ONLY <1>3, <1>22, <1>13
  <2>3. \A i \in 1 .. n, j \in 1 .. k : e[i] # q[j]
    BY <1>2, <1>13, <1>15
  <2>4. \A j \in 1 .. k : other[q[j]].type = "free"
    BY <1>3, <1>5, <1>15
  <2>5. a.frame = other /\ a.free = q[1] /\ a.lastFree = q[k]
    BY <1>2, <1>22 DEF SameFree
  <2> QED
    BY ONLY <1>2, <1>13, <1>14, <1>16, <2>1, <2>2, <2>3, <2>4, <2>5 DEF TwoChains
<1>19. OnCursor(a, e, n)
  <2>1. b.cur \in 0 .. n /\ b.cur \in Int /\ m \in Int
    BY <1>1, <1>2 DEF GapCursor
  <2>2. a.foCur = e[a.cur]
    BY <1>1, <1>22, <1>13, <2>1 DEF GapCursor
  <2>3. a.foPrev = e[a.cur - 1]
    BY <1>1, <1>22, <1>13, <2>1 DEF GapCursor
  <2>4. a.foNext = e[a.cur + 1]
    BY <1>1, <1>22, <1>13, <2>1 DEF GapCursor
  <2> QED
    BY ONLY <1>22, <2>1, <2>2, <2>3, <2>4 DEF OnCursor
<1>20. \A i, j \in 1 .. n : e[i] = e[j] => i = j
  BY ONLY <1>13 DEF IsChain
<1>21. a.ok
  BY <1>1, <1>22 DEF SameRest
<1> QED
  BY ONLY <1>22, <1>13, <1>17, <1>18, <1>19, <1>20, <1>21

(* What StoreMessage does to the base for message m of frame f.            *)
StoredAs(b, m, f, u) ==
  [[[b EXCEPT !.body[f] = u] EXCEPT !.idx[m].ofs = f] EXCEPT !.ok = TRUE]

(* Base s is b with message m, of id u, stored in frame f.                 *)
Storing(b, m, f, u, s) ==
  /\ s \in BaseType /\ s.ok /\ s.frame = b.frame /\ s.end = b.end
  /\ s.first = b.first /\ s.last = b.last /\ s.num = b.num /\ s.hwm = b.hwm
  /\ SameFree(b, s) /\ SameCursor(b, s)
  /\ s.uidNext = b.uidNext /\ s.max = b.max /\ s.skip = b.skip
  /\ Len(s.idx) = Len(b.idx)
  /\ s.body = [b.body EXCEPT ![f] = u]
  /\ \A i \in 1 .. Len(b.idx) :
       /\ s.idx[i].uid = b.idx[i].uid
       /\ s.idx[i].ofs = (IF i = m THEN f ELSE b.idx[i].ofs)

(* The fields of the base once a message is stored.                        *)
LEMMA StoredIs ==
  ASSUME NEW b \in BaseType, NEW m \in 1 .. Len(b.idx), NEW f \in Frames,
         NEW u \in Uids, NEW s, s = StoredAs(b, m, f, u)
  PROVE  Storing(b, m, f, u, s)
<1>1. PICK body \in [Frames -> Uids] : body = [b.body EXCEPT ![f] = u]
  BY DEF BaseType
<1>2. f \in Ofs
  BY NullIsNoFrame
<1>3. PICK d \in Seq(SQIDX) : d = b.idx
  BY DEF BaseType
<1>4. PICK e : e = [d EXCEPT ![m].ofs = f]
  OBVIOUS
<1>5. \A i \in 1 .. Len(d) : d[i] \in SQIDX
  OBVIOUS
<1>6. [d[m] EXCEPT !.ofs = f] \in SQIDX
  BY <1>2, <1>3, <1>5 DEF SQIDX
<1>7. e \in Seq(SQIDX) /\ Len(e) = Len(d)
  BY <1>3, <1>4, <1>6
<1>8. \A i \in 1 .. Len(d) : /\ e[i].uid = d[i].uid
                             /\ e[i].ofs = (IF i = m THEN f ELSE d[i].ofs)
  BY <1>3, <1>4, <1>5 DEF SQIDX
<1>9. s = [b EXCEPT !.body = body, !.idx = e, !.ok = TRUE]
  BY <1>1, <1>3, <1>4 DEF StoredAs, BaseType
<1>10. s \in BaseType
  BY ONLY <1>7, <1>9, b \in BaseType, body \in [Frames -> Uids] DEF BaseType
<1>11. /\ s.ok /\ s.frame = b.frame /\ s.end = b.end
       /\ s.first = b.first /\ s.last = b.last /\ s.num = b.num /\ s.hwm = b.hwm
       /\ SameFree(b, s) /\ SameCursor(b, s)
       /\ s.uidNext = b.uidNext /\ s.max = b.max /\ s.skip = b.skip
       /\ s.body = body /\ s.idx = e
  BY ONLY <1>9, b \in BaseType DEF BaseType, SameFree, SameCursor
<1> QED
  BY ONLY <1>1, <1>3, <1>7, <1>8, <1>10, <1>11 DEF Storing

(* Handle w once its message is in frame f.                                *)
Wrote(w, f, u) == [w EXCEPT !.foWrite = f, !.uid = u, !.written = TRUE]

(* A handle whose message is stored is not pending any more.               *)
LEMMA WroteIs ==
  ASSUME NEW w \in HandleType, w.mode = "create", NEW f \in Frames,
         NEW u \in Uids,
         NEW x, x = Wrote(w, f, u)
  PROVE  /\ x \in HandleType /\ x # Closed /\ x.mode = "create"
         /\ x.foWrite = f /\ x.uid = u /\ x.written /\ x.msg = w.msg
         /\ ~ Pend(x) /\ ~ Over(x) /\ ~ New(x)
<1>1. f \in Ofs /\ f # NULL_FRAME
  BY NullIsNoFrame
<1>2. /\ x \in HandleType /\ x.mode = "create"
      /\ x.foWrite = f /\ x.uid = u /\ x.written /\ x.msg = w.msg
  BY <1>1 DEF HandleType, Wrote
<1> QED
  BY ONLY <1>1, <1>2, ClosedIs DEF Pend, Over, New

(* The write of a created message, from the gap on.                        *)
LEMMA GapIsWritten ==
  ASSUME NEW b \in BaseType, NEW m, NEW h, NEW n, NEW q, NEW k,
         NEW g \in Frames,
         Gap(b, m, h, n, q, k, g), NEW w \in HandleType, w.msg = m,
         w.mode = "create", w.uid = b.idx[m].uid, NEW hdr \in Hdr,
         LinksOf(b, w, h[m - 1], h[m + 1]),
         NEW a, a = LinkMessageFrame(b, w, g, hdr), NEW e, e = Filled(h, m, g),
         NEW s, s = StoredAs(a, m, g, w.uid), NEW x, x = Wrote(w, g, w.uid)
  PROVE  /\ a.ok /\ m <= Len(a.idx) /\ s \in BaseType /\ Shape(s, x, e, n, q, k)
         /\ s.num = b.num /\ s.hwm = b.hwm /\ s.uidNext = b.uidNext
         /\ s.max = b.max /\ s.skip = b.skip
         /\ \A i \in 1 .. n : s.idx[i].uid = b.idx[i].uid
<1>1. /\ a \in BaseType /\ a.ok
      /\ TwoChains(a, e, n, q, k) /\ OnCursor(a, e, n)
      /\ \A i \in Int : e[i] = IF i = m THEN g ELSE h[i]
      /\ \A i, j \in 1 .. n : e[i] = e[j] => i = j
      /\ \A i \in 1 .. n : e[i] \in Frames /\ a.frame[e[i]].type = "normal"
      /\ a.idx = b.idx /\ a.num = b.num /\ a.hwm = b.hwm /\ SameRest(b, a)
  BY GapIsFilled
<1>2. /\ n \in Nat /\ m \in 1 .. n /\ k \in Nat
      /\ GapIndex(b, h, n) /\ GapNumbered(b, m, h, n) /\ Roomy(b)
  BY GapReadable DEF Gap
<1>3. PICK u \in Uids : u = w.uid
  BY DEF HandleType
<1>4. m \in 1 .. Len(a.idx) /\ Len(a.idx) \in Nat /\ n <= Len(a.idx) /\ b.num = n
  BY <1>1, <1>2, BaseFacts DEF GapIndex
<1>5. /\ s \in BaseType /\ s.ok /\ s.frame = a.frame /\ s.end = a.end
      /\ s.first = a.first /\ s.last = a.last /\ s.num = a.num /\ s.hwm = a.hwm
      /\ SameFree(a, s) /\ SameCursor(a, s)
      /\ s.uidNext = a.uidNext /\ s.max = a.max /\ s.skip = a.skip
      /\ Len(s.idx) = Len(a.idx)
      /\ s.body = [a.body EXCEPT ![g] = u]
      /\ \A i \in 1 .. Len(a.idx) :
           /\ s.idx[i].uid = a.idx[i].uid
           /\ s.idx[i].ofs = (IF i = m THEN g ELSE a.idx[i].ofs)
  <2>1. a \in BaseType /\ m \in 1 .. Len(a.idx) /\ s = StoredAs(a, m, g, u)
    BY ONLY <1>1, <1>3, <1>4, s = StoredAs(a, m, g, w.uid)
  <2>2. Storing(a, m, g, u, s)
    BY ONLY <2>1, g \in Frames, u \in Uids, StoredIs
  <2> QED
    BY ONLY <2>2 DEF Storing
<1>6. /\ x \in HandleType /\ x # Closed /\ x.mode = "create"
      /\ x.foWrite = g /\ x.uid = u /\ x.written /\ x.msg = m
      /\ ~ Pend(x) /\ ~ Over(x) /\ ~ New(x)
  BY <1>3, WroteIs
<1>7. TwoChains(s, e, n, q, k) /\ OnCursor(s, e, n)
  BY ONLY <1>1, <1>5 DEF TwoChains, OnCursor, SameFree, SameCursor
<1>8. Typed(s, x, e, n)
  BY ONLY <1>1, <1>5, <1>6 DEF Typed
<1>9. \A i \in 1 .. n : /\ i \in Int /\ i \in 1 .. Len(a.idx)
                        /\ s.idx[i].uid = b.idx[i].uid
  <2>1. a.idx = b.idx
    BY ONLY <1>1
  <2>2. \A i \in 1 .. Len(a.idx) : s.idx[i].uid = a.idx[i].uid
    BY ONLY <1>5
  <2>3. \A i \in 1 .. n : i \in Int /\ i \in 1 .. Len(a.idx)
    BY ONLY <1>2, <1>4
  <2> QED
    BY ONLY <2>1, <2>2, <2>3
<1>10. Indexed(s, x, e, n)
  <2>1. \A i \in 1 .. n : s.idx[i].ofs = e[i]
    BY ONLY <1>1, <1>2, <1>5, <1>9 DEF GapIndex
  <2> QED
    BY ONLY <1>1, <1>4, <1>5, <1>6, <2>1 DEF Indexed
<1>11. Numbered(s, e, n)
  <2>1. \A i \in 1 .. n : s.body[e[i]] = s.idx[i].uid
    <3> SUFFICES ASSUME NEW i \in 1 .. n PROVE s.body[e[i]] = s.idx[i].uid
      OBVIOUS
    <3>1. a.body \in [Frames -> Uids] /\ a.body = b.body
      BY <1>1 DEF BaseType, SameRest
    <3>4. s.body = [a.body EXCEPT ![g] = u] /\ s.idx[i].uid = b.idx[i].uid
      BY ONLY <1>5, <1>9, i \in 1 .. n
    <3>5. e[i] = IF i = m THEN g ELSE h[i]
      BY ONLY <1>1, <1>9, i \in 1 .. n
    <3>2. CASE i = m
      <4>1. e[i] = g
        BY ONLY <3>2, <3>5
      <4>2. s.body[g] = u
        BY ONLY <3>1, <3>4, g \in Frames
      <4>3. b.idx[m].uid = u
        BY <1>3
      <4> QED
        BY ONLY <3>2, <3>4, <4>1, <4>2, <4>3
    <3>3. CASE i # m
      <4>1. e[i] # g /\ e[i] = h[i] /\ e[i] \in Frames
        BY <1>1, <1>2, <1>9, <3>3
      <4>2. s.body[e[i]] = b.body[h[i]]
        BY ONLY <3>1, <3>4, <4>1, g \in Frames
      <4>3. b.body[h[i]] = b.idx[i].uid
        BY ONLY <1>2, <3>3, i \in 1 .. n DEF GapNumbered
      <4> QED
        BY ONLY <3>4, <4>2, <4>3
    <3> QED
      BY <3>2, <3>3
  <2>2. s.num = n /\ s.uidNext = b.uidNext
    BY ONLY <1>1, <1>4, <1>5 DEF SameRest
  <2> QED
    BY ONLY <1>2, <1>9, <2>1, <2>2 DEF Numbered, GapNumbered
<1>12. OnMessage(s, x, e)
  <2>1. m \in 1 .. s.num /\ s.idx[m].uid = u /\ e[m] = g
    <3>1. b.idx[m].uid = u
      BY <1>3
    <3>2. s.num = n /\ m \in 1 .. n
      BY ONLY <1>1, <1>2, <1>4, <1>5
    <3>3. s.idx[m].uid = b.idx[m].uid /\ m \in Int
      BY ONLY <1>9, <3>2
    <3>4. e[m] = g
      BY ONLY <1>1, <3>3
    <3> QED
      BY ONLY <3>1, <3>2, <3>3, <3>4
  <2> QED
    BY ONLY <1>6, <2>1 DEF OnMessage
<1>13. Roomy(s) /\ s.uidNext = b.uidNext /\ s.max = b.max /\ s.skip = b.skip
  <2>1. a.uidNext = b.uidNext /\ a.max = b.max /\ a.skip = b.skip
    BY ONLY <1>1 DEF SameRest
  <2>2. s.uidNext = a.uidNext /\ s.max = a.max /\ s.skip = a.skip
    BY ONLY <1>5
  <2>3. Roomy(b)
    BY ONLY <1>2
  <2> QED
    BY ONLY <2>1, <2>2, <2>3 DEF Roomy
<1>14. Shape(s, x, e, n, q, k)
  BY ONLY <1>5, <1>6, <1>7, <1>8, <1>10, <1>11, <1>12, <1>13 DEF Shape
<1> QED
  BY ONLY <1>1, <1>2, <1>4, <1>5, <1>9, <1>13, <1>14

---------------------------------------------------------------------------
(***************************************************************************)
(* Writing: the search for a frame and what becomes of the message.        *)
(***************************************************************************)

(* What a write of the created message w into base b comes to, got being   *)
(* what the search for a frame returns.                                    *)
WrittenAs(b, w, got, n) ==
  \E g, e, q, k :
    LET s == StoredAs(got.b, w.msg, g, w.uid)
    IN /\ g \in Frames
       /\ got.got = g /\ w.msg <= Len(got.b.idx)
       /\ s \in BaseType /\ Shape(s, Wrote(w, g, w.uid), e, n, q, k)
       /\ s.num = b.num /\ s.hwm = b.hwm /\ s.uidNext = b.uidNext
       /\ s.max = b.max /\ s.skip = b.skip
       /\ \A i \in 1 .. n : s.idx[i].uid = b.idx[i].uid

(* A frame linked into the gap is a written message.                       *)
LEMMA WrittenFrom ==
  ASSUME NEW b \in BaseType, NEW m, NEW h, NEW n, NEW q, NEW k,
         NEW g \in Frames,
         Gap(b, m, h, n, q, k, g), NEW w \in HandleType, w.msg = m,
         w.mode = "create", w.uid = b.idx[m].uid, NEW hdr \in Hdr,
         LinksOf(b, w, h[m - 1], h[m + 1]),
         NEW got,
         got = [b |-> LinkMessageFrame(b, w, g, hdr),
                got |-> IF LinkMessageFrame(b, w, g, hdr).ok THEN g
                        ELSE NULL_FRAME]
  PROVE  WrittenAs(b, w, got, n)
<1>1. PICK a : a = LinkMessageFrame(b, w, g, hdr)
  OBVIOUS
<1>2. PICK e : e = Filled(h, m, g)
  OBVIOUS
<1>3. PICK s : s = StoredAs(a, m, g, w.uid)
  OBVIOUS
<1>4. PICK x : x = Wrote(w, g, w.uid)
  OBVIOUS
<1>5. /\ a.ok /\ m <= Len(a.idx) /\ s \in BaseType /\ Shape(s, x, e, n, q, k)
      /\ s.num = b.num /\ s.hwm = b.hwm /\ s.uidNext = b.uidNext
      /\ s.max = b.max /\ s.skip = b.skip
      /\ \A i \in 1 .. n : s.idx[i].uid = b.idx[i].uid
  BY <1>1, <1>2, <1>3, <1>4, GapIsWritten
<1>6. got.b = a /\ got.got = g
  BY <1>1, <1>5
<1> QED
  BY ONLY <1>3, <1>4, <1>5, <1>6, g \in Frames, w.msg = m DEF WrittenAs

(* What the replaced frame's way to the free chain leaves alone.           *)
LEMMA WrittenKept ==
  ASSUME NEW b, NEW c, NEW w, NEW got, NEW n, WrittenAs(c, w, got, n),
         SameList(b, c), SameRest(b, c)
  PROVE  WrittenAs(b, w, got, n)
BY DEF WrittenAs, SameList, SameRest

NewHdr(cap, len) == [NoHdr EXCEPT !.cap = cap, !.len = len]

(* The header of a new frame has its type.                                 *)
LEMMA NewHdrIs ==
  ASSUME NEW cap \in Sizes \cup {0},
         NEW len \in Sizes PROVE NewHdr(cap, len) \in Hdr
BY DEF NewHdr, NoHdr, Hdr, Ofs

(* The cases of the search for a frame.                                    *)
LEMMA GetWriteFrameIs ==
  ASSUME NEW b0, NEW r, NEW len, NEW full, ~ full, NEW b,
         b = (IF r.foRead = NULL_FRAME THEN b0
              ELSE InsertFreeChain(b0, r.foRead, r.rd)),
         b.ok, ~ ProbeFails(b, len), NEW got, got = GetWriteFrame(b0, r, len, full)
  PROVE  \/ \E f, c, hdr :
              /\ f \in ProbeFreeChain(b, len)
              /\ c = RemoveFreeChain(b, f) /\ hdr = NewHdr(b.frame[f].cap, len)
              /\ c.ok =>
                   got = [b |-> LinkMessageFrame(c, r, f, hdr),
                          got |-> IF LinkMessageFrame(c, r, f, hdr).ok THEN f
                                  ELSE NULL_FRAME]
         \/ b.end > MaxFrames /\ got.got = NULL_FRAME
         \/ \E c, hdr :
              /\ ~ (b.end > MaxFrames)
              /\ c = [b EXCEPT !.end = @ + 1] /\ hdr = NewHdr(len, len)
              /\ got = [b |-> LinkMessageFrame(c, r, b.end, hdr),
                        got |-> IF LinkMessageFrame(c, r, b.end, hdr).ok THEN b.end
                                ELSE NULL_FRAME]
<1>1. CASE ProbeFreeChain(b, len) # {}
  <2>1. PICK f \in ProbeFreeChain(b, len) : f = CHOOSE p \in ProbeFreeChain(b, len) : TRUE
    BY <1>1
  <2>2. PICK c : c = RemoveFreeChain(b, f)
    OBVIOUS
  <2>3. PICK hdr : hdr = NewHdr(b.frame[f].cap, len)
    OBVIOUS
  <2>4. c.ok => got = [b |-> LinkMessageFrame(c, r, f, hdr),
                       got |-> IF LinkMessageFrame(c, r, f, hdr).ok THEN f
                               ELSE NULL_FRAME]
    BY <1>1, <2>1, <2>2, <2>3, Zenon DEF GetWriteFrame, NewHdr
  <2> QED
    BY <2>2, <2>3, <2>4
<1>2. CASE ProbeFreeChain(b, len) = {} /\ b.end > MaxFrames
  <2>1. got.got = NULL_FRAME
    BY <1>2 DEF GetWriteFrame
  <2> QED
    BY <1>2, <2>1
<1>3. CASE ProbeFreeChain(b, len) = {} /\ ~ (b.end > MaxFrames)
  <2>1. PICK c : c = [b EXCEPT !.end = @ + 1]
    OBVIOUS
  <2>2. PICK hdr : hdr = NewHdr(len, len)
    OBVIOUS
  <2>3. got = [b |-> LinkMessageFrame(c, r, b.end, hdr),
               got |-> IF LinkMessageFrame(c, r, b.end, hdr).ok THEN b.end
                       ELSE NULL_FRAME]
    BY <1>3, <2>1, <2>2, Zenon DEF GetWriteFrame, NewHdr
  <2> QED
    BY <1>3, <2>1, <2>2, <2>3
<1> QED
  BY <1>1, <1>2, <1>3

(* The search for a frame, from a base with a gap and no frame taken.      *)
LEMMA WrittenInGap ==
  ASSUME NEW b \in BaseType, NEW m, NEW h, NEW n, NEW q, NEW k,
         Gap(b, m, h, n, q, k, NULL_FRAME), NEW w \in HandleType, w.msg = m,
         w.mode = "create", w.uid = b.idx[m].uid,
         LinksOf(b, w, h[m - 1], h[m + 1]), NEW len \in Sizes, NEW full, ~ full,
         NEW b0, b = (IF w.foRead = NULL_FRAME THEN b0
                      ELSE InsertFreeChain(b0, w.foRead, w.rd)),
         NEW got, got = GetWriteFrame(b0, w, len, full),
         b.end > MaxFrames => got.got # NULL_FRAME
  PROVE  WrittenAs(b, w, got, n)
<1>1. GapChains(b, m, h, n, q, k, NULL_FRAME) /\ b.ok
  BY DEF Gap
<1>2. /\ IsChain(q, k) /\ Linked(b.frame, q, k) /\ b.free = q[1]
      /\ \A j \in 1 .. k : b.frame[q[j]].type = "free"
  BY <1>1 DEF GapChains, GapLinks, GapTypes
<1>3. \A j \in 1 .. k : Readable(b, q[j])
  BY <1>1, GapReadable
<1>4. ~ ProbeFails(b, len) /\ \A f \in ProbeFreeChain(b, len) : In(f, q, k)
  BY <1>2, <1>3, ProbeIs
<1>5. ASSUME NEW c \in BaseType, NEW q1, NEW k1, NEW g \in Frames,
             Gap(c, m, h, n, q1, k1, g), SameList(b, c), SameRest(b, c),
             NEW hdr \in Hdr,
             got = [b |-> LinkMessageFrame(c, w, g, hdr),
                    got |-> IF LinkMessageFrame(c, w, g, hdr).ok THEN g
                            ELSE NULL_FRAME]
      PROVE  WrittenAs(b, w, got, n)
  <2>1. w.uid = c.idx[m].uid
    BY <1>5 DEF SameList
  <2>2. LinksOf(c, w, h[m - 1], h[m + 1])
    BY <1>5 DEF SameList, LinksOf
  <2>3. WrittenAs(c, w, got, n)
    BY <1>5, <2>1, <2>2, WrittenFrom
  <2> QED
    BY ONLY <1>5, <2>3, WrittenKept
<1>6. CASE \E f, c, hdr :
             /\ f \in ProbeFreeChain(b, len)
             /\ c = RemoveFreeChain(b, f) /\ hdr = NewHdr(b.frame[f].cap, len)
             /\ c.ok =>
                  got = [b |-> LinkMessageFrame(c, w, f, hdr),
                         got |-> IF LinkMessageFrame(c, w, f, hdr).ok THEN f
                                 ELSE NULL_FRAME]
  <2>1. PICK f, c, hdr :
             /\ f \in ProbeFreeChain(b, len)
             /\ c = RemoveFreeChain(b, f) /\ hdr = NewHdr(b.frame[f].cap, len)
             /\ c.ok =>
                  got = [b |-> LinkMessageFrame(c, w, f, hdr),
                         got |-> IF LinkMessageFrame(c, w, f, hdr).ok THEN f
                                 ELSE NULL_FRAME]
    BY <1>6
  <2>2. PICK j \in 1 .. k : q[j] = f
    BY <1>4, <2>1 DEF In
  <2>3. /\ c \in BaseType /\ q[j] \in Frames
        /\ Gap(c, m, h, n, Cut(q, j - 1, 1), k - 1, q[j])
        /\ SameList(b, c) /\ SameCursor(b, c) /\ SameRest(b, c)
    BY <2>1, <2>2, TakenFromFree
  <2>4. c.ok
    BY <2>3 DEF Gap
  <2>5. b.frame[f].cap \in Sizes \cup {0}
    <3>1. b.frame[f] \in Hdr
      BY <2>2, <2>3, BaseFacts DEF HdrMap
    <3> QED
      BY <3>1 DEF Hdr
  <2>6. hdr \in Hdr
    BY <2>1, <2>5, NewHdrIs
  <2> QED
    BY <1>5, <2>1, <2>2, <2>3, <2>4, <2>6
<1>7. CASE b.end > MaxFrames /\ got.got = NULL_FRAME
  BY <1>7
<1>8. CASE \E c, hdr :
             /\ ~ (b.end > MaxFrames)
             /\ c = [b EXCEPT !.end = @ + 1] /\ hdr = NewHdr(len, len)
             /\ got = [b |-> LinkMessageFrame(c, w, b.end, hdr),
                       got |-> IF LinkMessageFrame(c, w, b.end, hdr).ok THEN b.end
                               ELSE NULL_FRAME]
  <2>1. PICK c, hdr :
             /\ ~ (b.end > MaxFrames)
             /\ c = [b EXCEPT !.end = @ + 1] /\ hdr = NewHdr(len, len)
             /\ got = [b |-> LinkMessageFrame(c, w, b.end, hdr),
                       got |-> IF LinkMessageFrame(c, w, b.end, hdr).ok THEN b.end
                               ELSE NULL_FRAME]
    BY <1>8
  <2>2. b.end <= MaxFrames
    BY <2>1, BaseFacts, SizesAssumption
  <2>3. /\ c \in BaseType /\ b.end \in Frames
        /\ Gap(c, m, h, n, q, k, b.end)
        /\ SameList(b, c) /\ SameCursor(b, c) /\ SameRest(b, c)
    BY <2>1, <2>2, TakenFromEnd
  <2>4. hdr \in Hdr
    BY <2>1, NewHdrIs
  <2> QED
    BY <1>5, <2>1, <2>3, <2>4
<1> QED
  BY <1>1, <1>4, <1>6, <1>7, <1>8, GetWriteFrameIs

(* The write of a created message, new or over an old one.                 *)
LEMMA WriteShape ==
  ASSUME NEW b \in BaseType, NEW w \in HandleType, NEW c, NEW n, NEW q, NEW k,
         Shape(b, w, c, n, q, k), Pend(w), NEW len \in Sizes, NEW full, ~ full,
         NEW got, got = GetWriteFrame(b, w, len, full),
         b.end > MaxFrames => got.got # NULL_FRAME
  PROVE  WrittenAs(b, w, got, b.num)
<1>1. w # Closed /\ w.mode = "create" /\ OnMessage(b, w, c) /\ Indexed(b, w, c, n)
  BY ClosedIs DEF Pend, Shape
<1>2. w.uid = b.idx[w.msg].uid
  BY <1>1 DEF OnMessage
<1>3. CASE New(w)
  <2>1. /\ n \in Nat /\ w.msg = n + 1
        /\ Gap(b, n + 1, c, n + 1, q, k, NULL_FRAME)
        /\ b.last = c[n] /\ c[n + 2] = NULL_FRAME
    BY <1>1, <1>3, GapOfNew
  <2>2. w.foRead = NULL_FRAME /\ b.num = n + 1
    BY <1>1, <1>3 DEF New, Indexed
  <2>3. PICK m \in Nat : m = n + 1
    BY <2>1
  <2>4. LinksOf(b, w, c[m - 1], c[m + 1])
    <3>1. m - 1 = n /\ m + 1 = n + 2
      BY <2>1, <2>3
    <3> QED
      BY <2>1, <2>2, <3>1 DEF LinksOf
  <2>5. Gap(b, m, c, m, q, k, NULL_FRAME) /\ w.msg = m /\ b.num = m
    BY <2>1, <2>2, <2>3
  <2>6. b = (IF w.foRead = NULL_FRAME THEN b
             ELSE InsertFreeChain(b, w.foRead, w.rd))
    BY <2>2
  <2> QED
    BY <1>1, <1>2, <2>4, <2>5, <2>6, WrittenInGap
<1>4. CASE Over(w)
  <2>1. w.foRead \in Frames /\ w.rd \in Hdr
    BY <1>4 DEF HandleType, Over, Ofs
  <2>2. PICK a : a = InsertFreeChain(b, w.foRead, w.rd)
    OBVIOUS
  <2>3. PICK m : m = w.msg
    OBVIOUS
  <2>4. PICK h : h = Hollow(c, m)
    OBVIOUS
  <2>5. PICK z : z = Joined(q, k, Single(w.foRead))
    OBVIOUS
  <2>6. /\ a \in BaseType /\ n \in Nat /\ m \in 1 .. n
        /\ Gap(a, m, h, n, z, k + 1, NULL_FRAME)
        /\ w.rd.prev = h[m - 1] /\ w.rd.next = h[m + 1]
        /\ SameList(b, a) /\ SameCursor(b, a) /\ SameRest(b, a)
    BY <1>1, <1>4, <2>1, <2>2, <2>3, <2>4, <2>5, GapOfOver
  <2>7. b.num = n /\ w.foRead # NULL_FRAME
    BY <1>1, <1>4 DEF Indexed, Over, New
  <2>8. LinksOf(a, w, h[m - 1], h[m + 1])
    BY <2>6, <2>7 DEF LinksOf
  <2>9. w.uid = a.idx[m].uid
    BY <1>2, <2>3, <2>6 DEF SameList
  <2>10. a = (IF w.foRead = NULL_FRAME THEN b
              ELSE InsertFreeChain(b, w.foRead, w.rd))
    BY <2>2, <2>7
  <2>11. a.end = b.end
    BY <2>2 DEF InsertFreeChain, SetFrameNext, Fail, BaseType
  <2>12. WrittenAs(a, w, got, n)
    BY <1>1, <2>3, <2>6, <2>8, <2>9, <2>10, <2>11, WrittenInGap
  <2> QED
    BY <2>6, <2>7, <2>12, WrittenKept
<1> QED
  BY <1>3, <1>4 DEF New, Over

---------------------------------------------------------------------------
(***************************************************************************)
(* The other calls, each by what it does to a base in shape.               *)
(***************************************************************************)

(* A change of the header fields that the chains do not depend on.         *)
LEMMA HeaderStays ==
  ASSUME NEW b, NEW w, NEW c, NEW n, NEW q, NEW k, Shape(b, w, c, n, q, k),
         NEW s,
         s.frame = b.frame, s.body = b.body, s.idx = b.idx, s.num = b.num,
         s.uidNext = b.uidNext, s.end = b.end, s.first = b.first,
         s.last = b.last,
         SameFree(b, s), OnCursor(s, c, n), s.ok, Roomy(s)
  PROVE  Shape(s, w, c, n, q, k)
<1>1. TwoChains(s, c, n, q, k)
  BY DEF Shape, TwoChains, SameFree
<1>2. Typed(s, w, c, n) /\ Indexed(s, w, c, n) /\ Numbered(s, c, n)
  BY DEF Shape, Typed, Indexed, Numbered
<1>3. OnMessage(b, w, c) => OnMessage(s, w, c)
  BY DEF OnMessage
<1> QED
  BY <1>1, <1>2, <1>3 DEF Shape

(* Message m becomes the current one.                                      *)
Visited(b, m, f) ==
  [b EXCEPT !.cur = m, !.foCur = f, !.foPrev = b.frame[f].prev,
            !.foNext = b.frame[f].next]

(* Making a message the current one keeps the base in shape (sq_msg.c      *)
(* 143-195).                                                               *)
LEMMA VisitShape ==
  ASSUME NEW b \in BaseType, NEW w, NEW c, NEW n, NEW q, NEW k,
         Shape(b, w, c, n, q, k), NEW m \in 1 .. b.num,
         NEW f, f = GetFrameOfs(b, m), Readable(b, f),
         NEW s, s = Visited(b, m, f)
  PROVE  /\ s \in BaseType /\ Shape(s, w, c, n, q, k) /\ m \in 1 .. n /\ f = c[m]
         /\ s.idx = b.idx /\ s.num = b.num /\ s.hwm = b.hwm /\ s.body = b.body
         /\ s.uidNext = b.uidNext /\ s.max = b.max /\ s.skip = b.skip
<1>1. f \in Frames /\ f # NULL_FRAME
  BY NullIsNoFrame DEF Readable
<1>2. f = c[m] /\ m \in Int
  BY <1>1, FrameOfMessage, BaseFacts
<1>3. IsChain(c, n) /\ Linked(b.frame, c, n) /\ n \in Nat /\ b.ok /\ Roomy(b)
  BY DEF Shape, TwoChains, IsChain
<1>4. m \in 1 .. n
  BY <1>1, <1>2, <1>3 DEF IsChain
<1>5. PICK p \in Ofs : p = b.frame[f].prev /\ p = c[m - 1]
  BY <1>2, <1>3, <1>4, BaseFacts DEF Linked, IsChain
<1>6. PICK v \in Ofs : v = b.frame[f].next /\ v = c[m + 1]
  BY <1>2, <1>3, <1>4, BaseFacts DEF Linked, IsChain
<1>7. m \in Nat /\ f \in Ofs
  BY <1>1, <1>3, <1>4, NullIsNoFrame
<1>8. s = [b EXCEPT !.cur = m, !.foCur = f, !.foPrev = p, !.foNext = v]
  BY <1>5, <1>6 DEF Visited
<1>9. s \in BaseType
  BY ONLY <1>7, <1>8, b \in BaseType, p \in Ofs, v \in Ofs DEF BaseType
<1>10. /\ s.frame = b.frame /\ s.body = b.body /\ s.idx = b.idx /\ s.num = b.num
       /\ s.uidNext = b.uidNext /\ s.end = b.end /\ s.first = b.first
       /\ s.last = b.last /\ s.hwm = b.hwm /\ s.max = b.max /\ s.skip = b.skip
       /\ SameFree(b, s) /\ s.ok = b.ok
       /\ s.cur = m /\ s.foCur = f /\ s.foPrev = p /\ s.foNext = v
  BY ONLY <1>8, b \in BaseType DEF BaseType, SameFree
<1>11. OnCursor(s, c, n)
  BY <1>2, <1>3, <1>4, <1>5, <1>6, <1>10 DEF OnCursor
<1>12. Roomy(s) /\ s.ok
  BY <1>3, <1>10 DEF Roomy
<1>13. Shape(s, w, c, n, q, k)
  BY ONLY <1>10, <1>11, <1>12, Shape(b, w, c, n, q, k), HeaderStays
<1> QED
  BY <1>2, <1>4, <1>9, <1>10, <1>13

(* Resetting the cursor keeps the base in shape.                           *)
LEMMA ResetShape ==
  ASSUME NEW b \in BaseType, NEW w, NEW c, NEW n, NEW q, NEW k,
         Shape(b, w, c, n, q, k), NEW s, s = ResetCursor(b)
  PROVE  /\ s \in BaseType /\ Shape(s, w, c, n, q, k)
         /\ s.idx = b.idx /\ s.num = b.num /\ s.hwm = b.hwm /\ s.body = b.body
         /\ s.uidNext = b.uidNext /\ s.max = b.max /\ s.skip = b.skip
<1>1. /\ s \in BaseType
      /\ s.frame = b.frame /\ s.body = b.body /\ s.idx = b.idx /\ s.num = b.num
      /\ s.uidNext = b.uidNext /\ s.end = b.end /\ s.first = b.first
      /\ s.last = b.last /\ s.hwm = b.hwm /\ s.max = b.max /\ s.skip = b.skip
      /\ SameFree(b, s) /\ s.ok = b.ok
      /\ s.cur = 0 /\ s.foCur = NULL_FRAME /\ s.foPrev = NULL_FRAME
      /\ s.foNext = b.first
  BY NullIsNoFrame DEF ResetCursor, BaseType, SameFree
<1>2. IsChain(c, n) /\ n \in Nat /\ b.first = c[1] /\ b.ok /\ Roomy(b)
  BY DEF Shape, TwoChains, IsChain
<1>3. c[0] = NULL_FRAME /\ c[0 - 1] = NULL_FRAME
  BY <1>2, ChainFacts
<1>4. OnCursor(s, c, n)
  BY <1>1, <1>2, <1>3 DEF OnCursor
<1>5. Roomy(s) /\ s.ok
  BY <1>1, <1>2 DEF Roomy
<1>6. Shape(s, w, c, n, q, k)
  BY ONLY <1>1, <1>4, <1>5, Shape(b, w, c, n, q, k), HeaderStays
<1> QED
  BY <1>1, <1>6

Limited(b, max, skip) == [b EXCEPT !.max = max, !.skip = skip]

(* Setting a limit keeps the base in shape (sq_misc.c 145-179).            *)
LEMMA LimitShape ==
  ASSUME NEW b \in BaseType, NEW w, NEW c, NEW n, NEW q, NEW k,
         Shape(b, w, c, n, q, k), NEW max \in Nat, NEW skip \in Nat,
         max = 0 \/ max >= skip + 2,
         NEW s, s = Limited(b, max, skip)
  PROVE  /\ s \in BaseType /\ Shape(s, w, c, n, q, k)
         /\ s.idx = b.idx /\ s.num = b.num /\ s.hwm = b.hwm /\ s.body = b.body
         /\ s.uidNext = b.uidNext /\ s.max = max /\ s.skip = skip
<1>1. /\ s \in BaseType
      /\ s.frame = b.frame /\ s.body = b.body /\ s.idx = b.idx /\ s.num = b.num
      /\ s.uidNext = b.uidNext /\ s.end = b.end /\ s.first = b.first
      /\ s.last = b.last /\ s.hwm = b.hwm /\ s.max = max /\ s.skip = skip
      /\ SameFree(b, s) /\ SameCursor(b, s) /\ s.ok = b.ok
  BY DEF Limited, BaseType, SameFree, SameCursor
<1>2. OnCursor(b, c, n) /\ b.ok
  BY DEF Shape
<1>3. OnCursor(s, c, n)
  BY <1>1, <1>2 DEF OnCursor, SameCursor
<1>4. Roomy(s) /\ s.ok
  BY <1>1, <1>2 DEF Roomy
<1>5. Shape(s, w, c, n, q, k)
  BY ONLY <1>1, <1>3, <1>4, Shape(b, w, c, n, q, k), HeaderStays
<1> QED
  BY <1>1, <1>5

(* Setting the mark keeps the base in shape (sq_misc.c 115-142).           *)
LEMMA MarkShape ==
  ASSUME NEW b \in BaseType, NEW w, NEW c, NEW n, NEW q, NEW k,
         Shape(b, w, c, n, q, k), NEW hwm \in Nat, NEW s,
         s = [b EXCEPT !.hwm = hwm]
  PROVE  /\ s \in BaseType /\ Shape(s, w, c, n, q, k)
         /\ s.idx = b.idx /\ s.num = b.num /\ s.body = b.body
         /\ s.uidNext = b.uidNext /\ s.max = b.max /\ s.skip = b.skip
<1>1. /\ s \in BaseType
      /\ s.frame = b.frame /\ s.body = b.body /\ s.idx = b.idx /\ s.num = b.num
      /\ s.uidNext = b.uidNext /\ s.end = b.end /\ s.first = b.first
      /\ s.last = b.last /\ s.max = b.max /\ s.skip = b.skip
      /\ SameFree(b, s) /\ SameCursor(b, s) /\ s.ok = b.ok
  BY DEF BaseType, SameFree, SameCursor
<1>2. OnCursor(b, c, n) /\ b.ok /\ Roomy(b)
  BY DEF Shape
<1>3. OnCursor(s, c, n)
  BY <1>1, <1>2 DEF OnCursor, SameCursor
<1>4. Roomy(s) /\ s.ok
  BY <1>1, <1>2 DEF Roomy
<1>5. Shape(s, w, c, n, q, k)
  BY ONLY <1>1, <1>3, <1>4, Shape(b, w, c, n, q, k), HeaderStays
<1> QED
  BY <1>1, <1>5

(* A closed handle has its type.                                           *)
LEMMA ClosedType == Closed \in HandleType
<1>1. NoHdr \in Hdr /\ NULL_FRAME \in Ofs
  BY DEF NoHdr, Hdr, Ofs
<1>2. 0 \in Uids
  BY SizesAssumption DEF Uids, NoUid
<1> QED
  BY <1>1, <1>2 DEF Closed, HandleType

(* The index with record r put behind the last message.                    *)
Put(d, m, r) ==
  [i \in 1 .. (IF m > Len(d) THEN m ELSE Len(d)) |->
     IF i = m THEN r ELSE IF i <= Len(d) THEN d[i] ELSE Zero]

IsPut(d, m, r, e) ==
  /\ e \in Seq(SQIDX) /\ Len(e) >= m /\ e[m] = r
  /\ \A i \in 1 .. m - 1 : e[i] = d[i]

(* The index with a record put behind the last message keeps the others    *)
(* (sq_idx.c 366-420).                                                     *)
LEMMA PutIndexIs ==
  ASSUME NEW d \in Seq(SQIDX), NEW m \in Nat, m >= 1, Len(d) >= m - 1,
         NEW r \in SQIDX,
         NEW e, e = Put(d, m, r)
  PROVE  IsPut(d, m, r, e)
<1>1. PICK l \in Nat : l = IF m > Len(d) THEN m ELSE Len(d)
  OBVIOUS
<1>2. Len(d) \in Nat /\ \A i \in 1 .. Len(d) : d[i] \in SQIDX
  OBVIOUS
<1>3. \A i \in 1 .. l : i = m \/ i <= Len(d)
  BY <1>1, <1>2
<1>4. e = [i \in 1 .. l |-> IF i = m THEN r ELSE IF i <= Len(d) THEN d[i] ELSE Zero]
  BY <1>1 DEF Put
<1>5. \A i \in 1 .. l : e[i] \in SQIDX
  BY <1>2, <1>3, <1>4
<1>6. e \in [1 .. l -> SQIDX]
  BY <1>4, <1>5
<1>7. e \in Seq(SQIDX) /\ Len(e) = l
  BY <1>4, <1>6
<1>8. m \in 1 .. l /\ l >= m
  BY <1>1, <1>2
<1>9. e[m] = r
  BY <1>4, <1>8
<1>10. ASSUME NEW i \in 1 .. m - 1 PROVE e[i] = d[i]
  BY <1>2, <1>4, <1>8
<1> QED
  BY <1>7, <1>8, <1>9, <1>10 DEF IsPut

(* The header and the index as they show a new message.                    *)
Announced(b, u) ==
  [PutIndex(b, b.num + 1, [ofs |-> NULL_FRAME, uid |-> u])
     EXCEPT !.num = b.num + 1, !.uidNext = u + 1]

NewHandle(m, u) == [Closed EXCEPT !.mode = "create", !.msg = m, !.uid = u]

(* Announcing a new message, its frame still to come, keeps the base in    *)
(* shape (sq_msg.c 482-537).                                               *)
LEMMA AnnounceShape ==
  ASSUME NEW b \in BaseType, NEW c, NEW n, NEW q, NEW k,
         Shape(b, Closed, c, n, q, k), NEW u, u = b.uidNext, u <= MaxUid,
         NEW s, s = Announced(b, u), NEW x, x = NewHandle(b.num + 1, u)
  PROVE  /\ s \in BaseType /\ x \in HandleType /\ x # Closed
         /\ Shape(s, x, c, n, q, k)
         /\ b.num = n /\ n \in Nat /\ s.num = n + 1 /\ s.hwm = b.hwm /\ s.uidNext = u + 1
         /\ s.max = b.max /\ s.skip = b.skip /\ s.body = b.body
         /\ \A i \in 1 .. n : s.idx[i].uid = b.idx[i].uid
         /\ s.idx[n + 1].uid = u
<1>1. /\ TwoChains(b, c, n, q, k) /\ Typed(b, Closed, c, n) /\ Indexed(b, Closed, c, n)
      /\ OnCursor(b, c, n) /\ Numbered(b, c, n) /\ b.ok /\ Roomy(b)
  BY DEF Shape
<1>2. IsChain(c, n) /\ n \in Nat
  BY <1>1 DEF TwoChains, IsChain
<1>3. b.num = n /\ Len(b.idx) >= n /\ \A i \in 1 .. n : b.idx[i].ofs = c[i]
  BY <1>1, ClosedIs DEF Indexed
<1>4. u \in 1 .. MaxUid /\ u \in Uids /\ u + 1 \in 1 .. MaxUid + 1
  BY BaseFacts, SizesAssumption DEF Uids, NoUid
<1>5. PICK m \in Nat : m = n + 1 /\ m >= 1
  BY <1>2
<1>6. PICK r \in SQIDX : r = [ofs |-> NULL_FRAME, uid |-> u]
  BY <1>4, NullIsNoFrame DEF SQIDX
<1>7. PICK d \in Seq(SQIDX) : d = b.idx
  BY BaseFacts
<1>8. PICK e : e = Put(d, m, r)
  OBVIOUS
<1>9. Len(d) >= m - 1
  BY <1>2, <1>3, <1>5, <1>7
<1>10. /\ e \in Seq(SQIDX) /\ Len(e) >= m /\ e[m] = r
       /\ \A i \in 1 .. m - 1 : e[i] = d[i]
  <2>1. IsPut(d, m, r, e)
    BY ONLY <1>5, <1>8, <1>9, PutIndexIs, d \in Seq(SQIDX), r \in SQIDX, m \in Nat
  <2> QED
    BY ONLY <2>1 DEF IsPut
<1>11. s = [b EXCEPT !.idx = e, !.num = m, !.uidNext = u + 1]
  <2>1. PutIndex(b, m, r) = [b EXCEPT !.idx = e]
    BY <1>7, <1>8 DEF PutIndex, Put
  <2>2. s = [PutIndex(b, m, r) EXCEPT !.num = m, !.uidNext = u + 1]
    BY <1>3, <1>5, <1>6 DEF Announced
  <2> QED
    BY <2>1, <2>2 DEF BaseType
<1>12. s \in BaseType
  <2>1. m \in Int
    BY <1>5
  <2> QED
    BY ONLY <1>4, <1>10, <1>11, <2>1, b \in BaseType DEF BaseType
<1>13. /\ s.frame = b.frame /\ s.body = b.body /\ s.idx = e /\ s.num = m
       /\ s.uidNext = u + 1 /\ s.end = b.end /\ s.first = b.first
       /\ s.last = b.last /\ s.hwm = b.hwm /\ s.max = b.max /\ s.skip = b.skip
       /\ SameFree(b, s) /\ SameCursor(b, s) /\ s.ok = b.ok
  BY ONLY <1>11, b \in BaseType DEF BaseType, SameFree, SameCursor
<1>14. /\ x \in HandleType /\ x.mode = "create" /\ x.msg = m /\ x.uid = u
       /\ x.foRead = NULL_FRAME /\ x.foWrite = NULL_FRAME /\ ~ x.written
  <2>1. x = NewHandle(m, u) /\ m \in Int
    BY <1>3, <1>5
  <2>2. x \in HandleType
    BY ONLY <1>4, <2>1, ClosedType DEF NewHandle, HandleType
  <2> QED
    BY <2>1, <2>2 DEF NewHandle, Closed
<1>15. Pend(x) /\ New(x) /\ ~ Over(x) /\ x # Closed
  BY <1>14, ClosedIs DEF Pend, New, Over
<1>16. TwoChains(s, c, n, q, k)
  BY <1>1, <1>13 DEF TwoChains, SameFree
<1>17. OnCursor(s, c, n)
  BY <1>1, <1>13 DEF OnCursor, SameCursor
<1>18. Typed(s, x, c, n)
  BY <1>1, <1>13, <1>15, ClosedIs DEF Typed
<1>19. c[n + 1] = NULL_FRAME /\ 1 .. m = 1 .. n \cup {m} /\ m \notin 1 .. n
       /\ m - 1 = n
  BY <1>2, <1>5, ChainFacts
<1>20. \A i \in 1 .. n : e[i] = b.idx[i]
  BY <1>7, <1>10, <1>19
<1>21. e[m].ofs = NULL_FRAME /\ e[m].uid = u
  BY <1>6, <1>10
<1>22. Indexed(s, x, c, n)
  <2>1. \A i \in 1 .. m : s.idx[i].ofs = IF Pend(x) /\ x.msg = i THEN NULL_FRAME ELSE c[i]
    BY <1>3, <1>13, <1>14, <1>15, <1>19, <1>20, <1>21
  <2> QED
    BY ONLY <1>5, <1>10, <1>13, <1>15, <2>1 DEF Indexed
<1>23. Numbered(s, c, n)
  <2>1. \A i \in 1 .. n : 1 <= e[i].uid /\ e[i].uid < u /\ b.body[c[i]] = e[i].uid
    BY <1>1, <1>3, <1>20 DEF Numbered
  <2>2. \A i, j \in 1 .. n : i < j => e[i].uid < e[j].uid
    BY <1>1, <1>3, <1>20 DEF Numbered
  <2>3. \A i \in 1 .. m : e[i] \in SQIDX /\ i \in Int
    BY <1>10
  <2>4. \A i \in 1 .. m : e[i].uid \in Nat
    BY <2>3, SizesAssumption DEF SQIDX, Uids, NoUid
  <2>5. \A i \in 1 .. m : 1 <= e[i].uid /\ e[i].uid < u + 1
    BY ONLY <1>4, <1>19, <1>21, <2>1, <2>4
  <2>6. \A i, j \in 1 .. m : i < j => e[i].uid < e[j].uid
    <3>1. \A i \in 1 .. n : i < m
      BY <1>2, <1>5
    <3> QED
      BY ONLY <1>5, <1>19, <1>21, <2>1, <2>2, <2>3, <3>1
  <2> QED
    BY ONLY <1>13, <2>1, <2>5, <2>6 DEF Numbered
<1>24. OnMessage(s, x, c)
  BY <1>5, <1>13, <1>14, <1>15, <1>21 DEF OnMessage
<1>25. Roomy(s) /\ s.ok
  BY <1>1, <1>13 DEF Roomy
<1>26. Shape(s, x, c, n, q, k)
  BY ONLY <1>14, <1>16, <1>17, <1>18, <1>22, <1>23, <1>24, <1>25 DEF Shape
<1> QED
  BY ONLY <1>2, <1>3, <1>5, <1>12, <1>13, <1>14, <1>15, <1>20, <1>21, <1>26

OverHandle(m, f, rd, u) ==
  [Closed EXCEPT !.mode = "create", !.msg = m, !.foRead = f, !.rd = rd, !.uid = u]

UpdateHeader(b, f) == [b.frame[f] EXCEPT !.type = "update"]

Updating(b, m, f, rd) == [b EXCEPT !.idx[m].ofs = NULL_FRAME, !.frame[f] = rd]

(* Message m is about to be replaced.                                      *)
LEMMA OverShape ==
  ASSUME NEW b \in BaseType, NEW c, NEW n, NEW q, NEW k,
         Shape(b, Closed, c, n, q, k), NEW m \in 1 .. b.num,
         NEW f, f = b.idx[m].ofs,
         NEW rd, rd = UpdateHeader(b, f),
         NEW u, u = b.idx[m].uid,
         NEW s, s = Updating(b, m, f, rd),
         NEW x, x = OverHandle(m, f, rd, u)
  PROVE  /\ s \in BaseType /\ x \in HandleType /\ x # Closed
         /\ Shape(s, x, c, n, q, k)
         /\ n \in Nat /\ b.num = n /\ s.num = b.num /\ s.hwm = b.hwm
         /\ s.uidNext = b.uidNext
         /\ s.max = b.max /\ s.skip = b.skip /\ s.body = b.body
         /\ \A i \in 1 .. n : s.idx[i].uid = b.idx[i].uid
<1>1. /\ TwoChains(b, c, n, q, k) /\ Typed(b, Closed, c, n) /\ Indexed(b, Closed, c, n)
      /\ OnCursor(b, c, n) /\ Numbered(b, c, n) /\ b.ok /\ Roomy(b)
  BY DEF Shape
<1>2. /\ IsChain(c, n) /\ n \in Nat /\ k \in Nat
      /\ Linked(b.frame, c, n) /\ Linked(b.frame, q, k)
      /\ \A i \in 1 .. n, j \in 1 .. k : c[i] # q[j]
      /\ \A j \in 1 .. k : b.frame[q[j]].type = "free"
  BY <1>1 DEF TwoChains, IsChain
<1>3. b.num = n /\ Len(b.idx) >= n /\ \A i \in 1 .. n : b.idx[i].ofs = c[i]
  BY <1>1, ClosedIs DEF Indexed
<1>4. /\ m \in 1 .. n /\ m \in Int /\ f = c[m] /\ f \in Frames
      /\ \A i \in 1 .. n : c[i] \in Frames
  BY <1>2, <1>3, ChainFacts
<1>5. PICK frame \in HdrMap : frame = b.frame
  BY BaseFacts
<1>6. PICK d \in Seq(SQIDX) : d = b.idx
  BY BaseFacts
<1>7. rd \in Hdr /\ rd.prev = frame[f].prev /\ rd.next = frame[f].next
      /\ rd.type = "update"
  <2>1. frame[f] \in Hdr
    BY <1>4 DEF HdrMap
  <2> QED
    BY <1>5, <2>1 DEF UpdateHeader, Hdr
<1>8. PICK other : other = [frame EXCEPT ![f] = rd]
  OBVIOUS
<1>9. PICK e : e = [d EXCEPT ![m].ofs = NULL_FRAME]
  OBVIOUS
<1>10. /\ other \in HdrMap
       /\ \A g \in Frames : /\ other[g].prev = frame[g].prev
                            /\ other[g].next = frame[g].next
                            /\ g # f => other[g] = frame[g]
       /\ other[f] = rd
  BY <1>4, <1>7, <1>8 DEF HdrMap
<1>11. \A i \in 1 .. Len(d) : d[i] \in SQIDX
  OBVIOUS
<1>12. m \in 1 .. Len(d) /\ Len(d) \in Nat
  <2>1. Len(d) \in Nat
    OBVIOUS
  <2>2. Len(d) >= n
    BY <1>3, <1>6
  <2> QED
    BY ONLY <1>2, <1>4, <2>1, <2>2
<1>13. [d[m] EXCEPT !.ofs = NULL_FRAME] \in SQIDX
  BY <1>11, <1>12, NullIsNoFrame DEF SQIDX
<1>14. e \in Seq(SQIDX) /\ Len(e) = Len(d)
  BY <1>9, <1>12, <1>13
<1>15. \A i \in 1 .. Len(d) : /\ e[i].uid = d[i].uid
                              /\ e[i].ofs = (IF i = m THEN NULL_FRAME ELSE d[i].ofs)
  BY <1>9, <1>11 DEF SQIDX
<1>16. s = [b EXCEPT !.idx = e, !.frame = other]
  BY <1>5, <1>6, <1>8, <1>9 DEF Updating, BaseType
<1>17. s \in BaseType
  BY ONLY <1>10, <1>14, <1>16, b \in BaseType DEF BaseType, HdrMap
<1>18. /\ s.frame = other /\ s.body = b.body /\ s.idx = e /\ s.num = b.num
       /\ s.uidNext = b.uidNext /\ s.end = b.end /\ s.first = b.first
       /\ s.last = b.last /\ s.hwm = b.hwm /\ s.max = b.max /\ s.skip = b.skip
       /\ SameFree(b, s) /\ SameCursor(b, s) /\ s.ok = b.ok
  BY ONLY <1>16, b \in BaseType DEF BaseType, SameFree, SameCursor
<1>19. u \in Uids /\ f \in Ofs /\ m \in Int
  BY <1>4, <1>6, <1>11, <1>12, NullIsNoFrame DEF SQIDX
<1>20. /\ x \in HandleType /\ x.mode = "create" /\ x.msg = m /\ x.uid = u
       /\ x.foRead = f /\ x.rd = rd /\ x.foWrite = NULL_FRAME /\ ~ x.written
  <2>1. x \in HandleType
    BY ONLY <1>7, <1>19, x = OverHandle(m, f, rd, u), ClosedType
       DEF OverHandle, HandleType
  <2> QED
    BY <2>1 DEF OverHandle, Closed
<1>21. Over(x) /\ ~ New(x) /\ Pend(x) /\ x # Closed
  BY <1>4, <1>20, ClosedIs, NullIsNoFrame DEF Pend, New, Over
<1>22. TwoChains(s, c, n, q, k)
  <2>1. \A j \in 1 .. k : q[j] \in Frames
    BY <1>1, ChainFacts DEF TwoChains
  <2>2. Linked(other, c, n)
    BY <1>2, <1>4, <1>5, <1>10 DEF Linked
  <2>3. Linked(other, q, k)
    BY <1>2, <1>5, <1>10, <2>1 DEF Linked
  <2>4. \A j \in 1 .. k : other[q[j]].type = "free"
    BY <1>2, <1>4, <1>5, <1>10, <2>1
  <2> QED
    BY ONLY <1>1, <1>18, <2>2, <2>3, <2>4 DEF TwoChains, SameFree
<1>23. OnCursor(s, c, n)
  BY <1>1, <1>18 DEF OnCursor, SameCursor
<1>24. Typed(s, x, c, n)
  <2>1. ASSUME NEW i \in 1 .. n, i = m PROVE other[c[i]].type = "update"
    BY <1>4, <1>7, <1>10, <2>1
  <2>2. ASSUME NEW i \in 1 .. n, i # m PROVE other[c[i]].type = "normal"
    <3>1. c[i] # f /\ c[i] \in Frames
      BY <1>2, <1>4, <2>2 DEF IsChain
    <3> QED
      BY <1>1, <1>5, <1>10, <2>2, <3>1, ClosedIs DEF Typed
  <2> QED
    BY ONLY <1>18, <1>20, <1>21, <2>1, <2>2 DEF Typed
<1>25. \A i \in 1 .. n : i \in 1 .. Len(d)
  BY <1>2, <1>3, <1>6, <1>12
<1>26. Indexed(s, x, c, n)
  <2>1. \A i \in 1 .. n : e[i].ofs = IF m = i THEN NULL_FRAME ELSE c[i]
    BY <1>3, <1>6, <1>15, <1>25
  <2> QED
    BY ONLY <1>3, <1>6, <1>14, <1>18, <1>20, <1>21, <2>1 DEF Indexed
<1>27. \A i \in 1 .. n : e[i].uid = b.idx[i].uid
  BY <1>6, <1>15, <1>25
<1>28. Numbered(s, c, n)
  BY ONLY <1>1, <1>3, <1>18, <1>27 DEF Numbered
<1>29. OnMessage(s, x, c)
  BY <1>3, <1>4, <1>10, <1>18, <1>20, <1>21, <1>27 DEF OnMessage
<1>30. Roomy(s) /\ s.ok
  BY <1>1, <1>18 DEF Roomy
<1>31. Shape(s, x, c, n, q, k)
  BY ONLY <1>20, <1>22, <1>23, <1>24, <1>26, <1>28, <1>29, <1>30 DEF Shape
<1> QED
  BY ONLY <1>2, <1>3, <1>17, <1>18, <1>20, <1>21, <1>27, <1>31

UpdateHandle(m, f, rd) ==
  [Closed EXCEPT !.mode = "rw", !.msg = m, !.foRead = f, !.rd = rd]

(* Message m is open for updating.                                         *)
LEMMA UpdateShape ==
  ASSUME NEW b \in BaseType, NEW c, NEW n, NEW q, NEW k,
         Shape(b, Closed, c, n, q, k), NEW m \in 1 .. n,
         NEW f, f = c[m], NEW rd, rd \in Hdr, NEW x, x = UpdateHandle(m, f, rd)
  PROVE  x \in HandleType /\ x # Closed /\ Shape(b, x, c, n, q, k)
<1>1. /\ Typed(b, Closed, c, n) /\ Indexed(b, Closed, c, n)
      /\ IsChain(c, n) /\ n \in Nat
  BY DEF Shape, TwoChains, IsChain
<1>2. m \in Int /\ f \in Ofs /\ b.num = n
  BY <1>1, ClosedIs, ChainFacts, NullIsNoFrame DEF Indexed
<1>3. /\ x \in HandleType /\ x.mode = "rw" /\ x.msg = m
      /\ x.foRead = f /\ x.uid = 0
  <2>1. x \in HandleType
    BY ONLY <1>2, rd \in Hdr, x = UpdateHandle(m, f, rd), ClosedType
       DEF UpdateHandle, HandleType
  <2> QED
    BY <2>1 DEF UpdateHandle, Closed
<1>4. ~ Pend(x) /\ ~ New(x) /\ ~ Over(x) /\ x # Closed
  BY <1>3, ClosedIs DEF Pend, New, Over
<1>5. Typed(b, x, c, n) /\ Indexed(b, x, c, n)
  BY <1>1, <1>4, ClosedIs DEF Typed, Indexed
<1>6. OnMessage(b, x, c)
  BY <1>2, <1>3, <1>4 DEF OnMessage
<1> QED
  BY <1>3, <1>4, <1>5, <1>6 DEF Shape

(* A write to the frame the message has changes nothing of the base.       *)
LEMMA RewriteShape ==
  ASSUME NEW b \in BaseType, NEW w \in HandleType, NEW c, NEW n, NEW q, NEW k,
         Shape(b, w, c, n, q, k), w # Closed, ~ Pend(w), NEW m, m = w.msg,
         NEW u, u = b.idx[m].uid, NEW f, f = c[m], NEW s, s = StoredAs(b, m, f, u),
         NEW x, x = Wrote(w, f, u)
  PROVE  /\ m \in 1 .. n /\ m <= Len(b.idx) /\ u # 0 /\ s = b
         /\ w.mode = "create" => w.foWrite = f /\ w.uid = u
         /\ w.mode = "rw" => w.foRead = f /\ w.uid \in {0, u}
         /\ x \in HandleType /\ x # Closed /\ Shape(b, x, c, n, q, k)
<1>1. /\ Typed(b, w, c, n) /\ Indexed(b, w, c, n) /\ Numbered(b, c, n)
      /\ IsChain(c, n) /\ n \in Nat /\ OnMessage(b, w, c)
      /\ w.mode \in {"rw", "create"} /\ b.ok
  BY DEF Shape, TwoChains, IsChain
<1>2. ~ New(w) /\ ~ Over(w) /\ b.num = n /\ Len(b.idx) >= n
  BY <1>1 DEF New, Over, Indexed
<1>3. m \in 1 .. n /\ Len(b.idx) \in Nat
  BY <1>1, <1>2, BaseFacts DEF OnMessage
<1>4. m \in 1 .. Len(b.idx) /\ f \in Frames /\ f # NULL_FRAME /\ f \in Ofs
  <2>1. m \in 1 .. Len(b.idx)
    BY ONLY <1>1, <1>2, <1>3
  <2>2. f \in Frames
    BY <1>1, <1>3, ChainFacts
  <2> QED
    BY <2>1, <2>2, NullIsNoFrame
<1>5. b.idx[m].ofs = f /\ b.body[f] = u /\ 1 <= u
  BY <1>1, <1>2, <1>3 DEF Indexed, Numbered
<1>6. b.idx \in Seq(SQIDX)
  BY BaseFacts
<1>7. b.idx[m] \in SQIDX
  BY <1>4, <1>6
<1>8. u \in Uids
  BY <1>7 DEF SQIDX
<1>9. u # 0
  BY <1>5
<1>10. [b.body EXCEPT ![f] = u] = b.body
  <2>1. b.body \in [Frames -> Uids]
    BY BaseFacts
  <2> QED
    BY <1>5, <2>1
<1>11. [b.idx EXCEPT ![m].ofs = f] = b.idx
  <2>1. [b.idx[m] EXCEPT !.ofs = f] = b.idx[m]
    BY <1>5, <1>7 DEF SQIDX
  <2>2. [b.idx EXCEPT ![m] = b.idx[m]] = b.idx
    BY <1>4, <1>6
  <2> QED
    BY <2>1, <2>2
<1>12. s = b
  <2>1. s = [b EXCEPT !.body = [b.body EXCEPT ![f] = u],
                      !.idx = [b.idx EXCEPT ![m].ofs = f], !.ok = TRUE]
    BY DEF StoredAs, BaseType
  <2>2. s = [b EXCEPT !.body = b.body, !.idx = b.idx, !.ok = TRUE]
    BY <1>10, <1>11, <2>1
  <2> QED
    BY ONLY <1>1, <2>2, b \in BaseType DEF BaseType
<1>13. /\ w.mode = "create" => w.foWrite = f /\ w.uid = u
       /\ w.mode = "rw" => w.foRead = f /\ w.uid \in {0, u}
  BY <1>1 DEF OnMessage
<1>14. /\ x \in HandleType /\ x.mode = w.mode /\ x.msg = m /\ x.foRead = w.foRead
       /\ x.foWrite = f /\ x.written /\ x.uid = u
  BY <1>4, <1>8 DEF Wrote, HandleType
<1>15. ~ Pend(x) /\ ~ New(x) /\ ~ Over(x) /\ x # Closed
  BY <1>1, <1>4, <1>14, ClosedIs DEF Pend, New, Over
<1>16. Typed(b, x, c, n) /\ Indexed(b, x, c, n)
  BY <1>1, <1>2, <1>15 DEF Typed, Indexed
<1>17. OnMessage(b, x, c)
  BY <1>2, <1>3, <1>13, <1>14, <1>15 DEF OnMessage
<1>18. Shape(b, x, c, n, q, k)
  BY <1>1, <1>14, <1>16, <1>17 DEF Shape
<1> QED
  BY <1>3, <1>4, <1>9, <1>12, <1>13, <1>14, <1>15, <1>18

(* The close of a handle, with the undo of an announced message.           *)
Undone(b, w) == IF New(w) THEN [b EXCEPT !.num = @ - 1] ELSE b

(* A close that undoes the announcement of a message not written keeps the *)
(* base in shape (sq_msg.c 588-668).                                       *)
LEMMA CloseShape ==
  ASSUME NEW b \in BaseType, NEW w \in HandleType, NEW c, NEW n, NEW q, NEW k,
         Shape(b, w, c, n, q, k), ~ Over(w),
         NEW s, s = Undone(b, w)
  PROVE  /\ s \in BaseType /\ Shape(s, Closed, c, n, q, k)
         /\ n \in Nat /\ s.num = n /\ s.hwm = b.hwm /\ s.uidNext = b.uidNext
         /\ s.max = b.max /\ s.skip = b.skip /\ s.body = b.body /\ s.idx = b.idx
<1>1. /\ TwoChains(b, c, n, q, k) /\ Typed(b, w, c, n) /\ Indexed(b, w, c, n)
      /\ OnCursor(b, c, n) /\ Numbered(b, c, n) /\ b.ok /\ Roomy(b) /\ n \in Nat
      /\ w # Closed => OnMessage(b, w, c)
  BY DEF Shape, TwoChains, IsChain
<1>2. b.num = (IF New(w) THEN n + 1 ELSE n) /\ Len(b.idx) >= b.num
  BY <1>1 DEF Indexed
<1>3. /\ s \in BaseType /\ s.num = n
      /\ s.frame = b.frame /\ s.body = b.body /\ s.idx = b.idx
      /\ s.uidNext = b.uidNext /\ s.end = b.end /\ s.first = b.first
      /\ s.last = b.last /\ s.hwm = b.hwm /\ s.max = b.max /\ s.skip = b.skip
      /\ SameFree(b, s) /\ SameCursor(b, s) /\ s.ok = b.ok
  <2>1. CASE New(w)
    <3>1. n \in Int /\ s = [b EXCEPT !.num = n]
      BY <1>1, <1>2, <2>1 DEF Undone
    <3> QED
      BY ONLY <3>1, b \in BaseType DEF BaseType, SameFree, SameCursor
  <2>2. CASE ~ New(w)
    BY <1>1, <1>2, <2>2 DEF Undone, BaseType, SameFree, SameCursor
  <2> QED
    BY <2>1, <2>2
<1>4. TwoChains(s, c, n, q, k)
  BY <1>1, <1>3 DEF TwoChains, SameFree
<1>5. OnCursor(s, c, n) /\ Roomy(s) /\ s.ok
  BY <1>1, <1>3 DEF OnCursor, SameCursor, Roomy
<1>6. Typed(s, Closed, c, n)
  BY <1>1, <1>3, ClosedIs DEF Typed
<1>7. \A i \in 1 .. n : i \in 1 .. b.num
  BY <1>1, <1>2
<1>8. Indexed(s, Closed, c, n)
  <2>1. \A i \in 1 .. n : b.idx[i].ofs = c[i]
    <3>1. CASE New(w)
      <4>1. w # Closed
        BY <3>1, ClosedIs
      <4>2. w.msg = n + 1
        BY <1>1, <1>2, <3>1, <4>1 DEF OnMessage
      <4>3. \A i \in 1 .. n : i # n + 1
        BY <1>1
      <4> QED
        BY <1>1, <1>7, <4>2, <4>3 DEF Indexed
    <3>2. CASE ~ New(w)
      BY <1>1, <1>7, <3>2 DEF Indexed, New, Over
    <3> QED
      BY <3>1, <3>2
  <2>2. Len(b.idx) >= n
    BY <1>1, <1>2, BaseFacts
  <2> QED
    BY ONLY <1>3, <2>1, <2>2, ClosedIs DEF Indexed
<1>9. Numbered(s, c, n)
  BY <1>1, <1>3, <1>7 DEF Numbered
<1>10. Shape(s, Closed, c, n, q, k)
  BY ONLY <1>4, <1>5, <1>6, <1>8, <1>9 DEF Shape
<1> QED
  BY <1>1, <1>3, <1>10

---------------------------------------------------------------------------
(***************************************************************************)
(* The inductive invariant: a base in shape and at most one handle open on *)
(* it, and the steps that keep it.                                         *)
(***************************************************************************)

(* At most handle g is open; it is w.                                      *)
Alone(hs, g, w) ==
  /\ w \in HandleType /\ (w # Closed => g \in Handles)
  /\ hs = [h \in Handles |-> IF h = g THEN w ELSE Closed]

Sound(b, hs, n) ==
  \E g, w, c, q, k :
    b \in BaseType /\ Alone(hs, g, w) /\ Shape(b, w, c, n, q, k)

IInv == \E n : Sound(base, handle, n)

(* What the program keeps to for that: see SquishBase's constants.  A      *)
(* limit leaves two messages that may be dropped, so that one is there to  *)
(* link the skipped ones to.                                               *)
Careful ==
  /\ Polite /\ DiskFull = {}
  /\ \A l \in Limits : l[1] = 0 \/ l[1] >= l[2] + 2

(* What is known of every handle when one alone may be open.               *)
LEMMA AloneIs ==
  ASSUME NEW hs, NEW g, NEW w, Alone(hs, g, w)
  PROVE  /\ hs \in [Handles -> HandleType]
         /\ \A h \in Handles : hs[h] = IF h = g THEN w ELSE Closed
         /\ (\A h \in Handles : hs[h].mode = "closed") => w.mode = "closed"
         /\ \A h \in Handles : hs[h].mode # "closed" => h = g /\ hs[h] = w
BY ClosedType, ClosedIs DEF Alone

(* Opening, using or closing the one handle leaves one.                    *)
LEMMA AloneBecomes ==
  ASSUME NEW hs, NEW g, NEW w, Alone(hs, g, w), NEW h \in Handles,
         h = g \/ w = Closed, NEW x \in HandleType
  PROVE  Alone([hs EXCEPT ![h] = x], h, x)
<1>1. hs = [i \in Handles |-> IF i = g THEN w ELSE Closed]
  BY DEF Alone
<1>2. [hs EXCEPT ![h] = x] = [i \in Handles |-> IF i = h THEN x ELSE Closed]
  BY <1>1
<1> QED
  BY <1>2 DEF Alone

(* No handle is open for writing.                                          *)
LEMMA NoneOpen ==
  ASSUME NEW b, NEW g, NEW w, NEW c, NEW n, NEW q, NEW k, Shape(b, w, c, n, q, k),
         Alone(handle, g, w), Writers = {}
  PROVE  w = Closed
<1>1. \A h \in Handles : handle[h].mode = "closed"
  BY DEF Writers
<1>2. w.mode = "closed"
  BY <1>1, AloneIs
<1> QED
  BY <1>2 DEF Shape

---------------------------------------------------------------------------
(* The ids of the messages, and what a call may do to them.                *)
Listed(b, n) == [i \in 1 .. n |-> b.idx[i].uid]

Announces(b, n, s, r) ==
  /\ b.num = n /\ r = n - Going(b) /\ Going(b) \in Nat
  /\ \A i \in 1 .. r :
       s.idx[i].uid = IF i <= b.skip \/ Going(b) = 0 THEN b.idx[i].uid
                      ELSE b.idx[i + Going(b)].uid
  /\ s.uidNext = b.uidNext + 1 /\ s.max = b.max /\ s.skip = b.skip

Stores(b, n, s, r) ==
  /\ r = n + 1 /\ \A i \in 1 .. n : s.idx[i].uid = b.idx[i].uid
  /\ s.uidNext = b.uidNext /\ s.max = b.max /\ s.skip = b.skip

Kills(b, n, s, r) ==
  /\ r = n - 1
  /\ \E m \in 1 .. n :
       \A i \in 1 .. r : s.idx[i].uid = b.idx[IF i < m THEN i ELSE i + 1].uid
  /\ s.uidNext = b.uidNext /\ s.max = b.max /\ s.skip = b.skip

Keeps(b, n, s, r) ==
  /\ r = n /\ \A i \in 1 .. n : s.idx[i].uid = b.idx[i].uid
  /\ s.uidNext = b.uidNext

Moves(b, n, s, r) ==
  \/ Announces(b, n, s, r) \/ Stores(b, n, s, r) \/ Kills(b, n, s, r)
  \/ Keeps(b, n, s, r)

(* What every step is shown to do.                                         *)
GoesTo(n) ==
  \E r : /\ Sound(base', handle', r) /\ Moves(base, n, base', r)
         /\ base'.hwm <= base.hwm \/ \E m \in 0 .. base.num : SetHighWater(m)

(* How a step is shown to do what every step does.                         *)
LEMMA Arrives ==
  ASSUME NEW b, b = base, NEW n, NEW s, s = base', NEW hs, hs = handle',
         NEW g, NEW w, NEW c, NEW r, NEW q, NEW k,
         s \in BaseType, Alone(hs, g, w), Shape(s, w, c, r, q, k),
         Moves(b, n, s, r), s.hwm <= b.hwm
  PROVE  GoesTo(n)
<1>1. Sound(s, hs, r)
  BY DEF Sound
<1> QED
  BY <1>1 DEF GoesTo

(* The step of MsgCloseMsg.                                                *)
LEMMA CloseMsgStep ==
  ASSUME Careful, NEW g, NEW w, NEW c, NEW n, NEW q, NEW k, base \in BaseType,
         Alone(handle, g, w), Shape(base, w, c, n, q, k),
         NEW h \in Handles, CloseMsg(h)
  PROVE  GoesTo(n)
<1>1. PICK b \in BaseType : b = base
  OBVIOUS
<1>2. PICK s : s = base'
  OBVIOUS
<1>3. PICK hs : hs = handle'
  OBVIOUS
<1>4. h = g /\ handle[h] = w /\ w.mode # "closed" /\ w \in HandleType
  <2>1. handle[h].mode # "closed"
    BY Zenon DEF CloseMsg
  <2> QED
    BY <2>1, AloneIs DEF Alone
<1>5. w # Closed /\ OnMessage(b, w, c) /\ w.mode \in {"rw", "create"}
      /\ Indexed(b, w, c, n) /\ n \in Nat
  BY <1>1, <1>4, ClosedIs DEF Shape, TwoChains, IsChain
<1>6. ~ Over(w)
  <2>1. SUFFICES ASSUME Over(w) PROVE FALSE
    OBVIOUS
  <2>2. /\ w.mode = "create" /\ w.foRead # NULL_FRAME /\ ~ w.written
        /\ w.msg <= Len(b.idx) /\ b.idx[w.msg].uid = w.uid
    <3>1. w.msg \in 1 .. b.num /\ Len(b.idx) >= b.num /\ b.num \in Int
          /\ Len(b.idx) \in Nat
      BY <1>1, <1>5, BaseFacts DEF OnMessage, Indexed
    <3>2. w.msg <= Len(b.idx)
      BY <3>1
    <3> QED
      BY <1>5, <2>1, <3>2 DEF Over, Pend, OnMessage
  <2> QED
    BY <1>1, <1>4, <2>2 DEF CloseMsg, Careful
<1>7. Creating(h) /\ ~ w.written /\ w.msg = b.num <=> New(w)
  <2>1. CASE Pend(w)
    BY <1>4, <1>5, <1>6, <2>1 DEF Creating, OnMessage, New, Over, Pend
  <2>2. CASE ~ Pend(w)
    BY <1>4, <1>5, <2>2 DEF Creating, OnMessage, New
  <2> QED
    BY <2>1, <2>2
<1>8. s = Undone(b, w)
  BY <1>1, <1>2, <1>4, <1>7, Zenon DEF CloseMsg, Undone
<1>9. hs = [handle EXCEPT ![h] = Closed]
  BY <1>3 DEF CloseMsg
<1>10. Alone(hs, h, Closed)
  BY <1>4, <1>9, AloneBecomes, ClosedType
<1>11. Shape(b, w, c, n, q, k)
  BY <1>1
<1>12. /\ s \in BaseType /\ Shape(s, Closed, c, n, q, k)
       /\ n \in Nat /\ s.num = n /\ s.hwm = b.hwm /\ s.uidNext = b.uidNext
       /\ s.max = b.max /\ s.skip = b.skip /\ s.body = b.body /\ s.idx = b.idx
  BY <1>4, <1>6, <1>8, <1>11, CloseShape
<1>13. Moves(b, n, s, n) /\ s.hwm <= b.hwm
  BY <1>12, BaseFacts DEF Moves, Keeps
<1> QED
  BY ONLY <1>1, <1>2, <1>3, <1>10, <1>12, <1>13, Arrives

(* A program that renumbers no message under an open handle has none open  *)
(* when it does.                                                           *)
LEMMA RenumberingIsAlone ==
  ASSUME Careful, NEW b, NEW g, NEW w, NEW c, NEW n, NEW q, NEW k,
         Shape(b, w, c, n, q, k), Alone(handle, g, w), MayRenumber
  PROVE  w = Closed
<1>1. Writers = {}
  BY Zenon DEF Careful, MayRenumber
<1> QED
  BY <1>1, NoneOpen

(* The step of MsgKillMsg.                                                 *)
LEMMA KillMsgStep ==
  ASSUME Careful, NEW g, NEW w, NEW c, NEW n, NEW q, NEW k, base \in BaseType,
         Alone(handle, g, w), Shape(base, w, c, n, q, k),
         NEW m \in 1 .. base.num, KillMsg(m)
  PROVE  GoesTo(n)
<1>1. PICK b \in BaseType : b = base
  OBVIOUS
<1>2. PICK s : s = base'
  OBVIOUS
<1>3. PICK hs : hs = handle'
  OBVIOUS
<1>4. w = Closed
  <2>1. MayRenumber
    BY Zenon DEF KillMsg
  <2> QED
    BY <2>1, RenumberingIsAlone
<1>5. PICK f : f = GetFrameOfs(b, m)
  OBVIOUS
<1>6. PICK hdr : hdr = b.frame[f]
  OBVIOUS
<1>7. PICK b1 : b1 = Bypass(b, hdr)
  OBVIOUS
<1>8. PICK b3 : b3 = FixMemoryPointers(RemoveIndexEntry(b1, m), m, hdr)
  OBVIOUS
<1>9. PICK b4 : b4 = InsertFreeChain(b3, f, hdr)
  OBVIOUS
<1>10. Shape(b, Closed, c, n, q, k) /\ m \in 1 .. b.num
  BY <1>1, <1>4
<1>11. PICK e : e = Cut(c, m - 1, 1)
  OBVIOUS
<1>12. PICK z : z = Joined(q, k, Single(c[m]))
  OBVIOUS
<1>13. /\ b1.ok /\ b4.ok /\ b4 \in BaseType
       /\ m \in 1 .. n /\ f = c[m]
       /\ Shape(b4, Closed, e, n - 1, z, k + 1)
       /\ b4.uidNext = b.uidNext /\ b4.max = b.max /\ b4.skip = b.skip
       /\ b4.body = b.body /\ b4.hwm <= b.hwm
  BY <1>5, <1>6, <1>7, <1>8, <1>9, <1>10, <1>11, <1>12, KillShape
<1>14. s = [b4 EXCEPT !.ok = TRUE]
  BY <1>1, <1>2, <1>5, <1>6, <1>7, <1>8, <1>9, <1>13, Zenon DEF KillMsg, Becomes
<1>15. s = b4
  BY <1>13, <1>14 DEF BaseType
<1>16. hs = handle /\ Alone(hs, g, w)
  BY <1>3 DEF KillMsg
<1>17. Numbered(b, c, n) /\ Numbered(b4, e, n - 1) /\ n \in Nat
  BY <1>10, <1>13 DEF Shape, TwoChains, IsChain
<1>18. Kills(b, n, s, n - 1)
  <2>1. ASSUME NEW i \in 1 .. n - 1
        PROVE  b4.idx[i].uid = b.idx[IF i < m THEN i ELSE i + 1].uid
    <3>1. i \in Int /\ m \in Int /\ e[i] = c[IF i < m THEN i ELSE i + 1]
          /\ (IF i < m THEN i ELSE i + 1) \in 1 .. n
      BY <1>11, <1>13, <1>17 DEF Cut
    <3> QED
      BY <1>13, <1>17, <3>1 DEF Numbered
  <2> QED
    BY <1>13, <1>15, <2>1 DEF Kills
<1>19. Moves(b, n, s, n - 1) /\ s.hwm <= b.hwm
  BY <1>13, <1>15, <1>18 DEF Moves
<1> QED
  BY <1>1, <1>2, <1>3, <1>4, <1>13, <1>15, <1>16, <1>19, Arrives

(* Looking a message up for a read or an open, which moves the cursor.     *)
LEMMA VisitStep ==
  ASSUME NEW w, NEW c, NEW n, NEW q, NEW k, base \in BaseType,
         Shape(base, w, c, n, q, k), NEW m, Visit(m), NEW s, s = base'
  PROVE  /\ s \in BaseType /\ Shape(s, w, c, n, q, k)
         /\ m \in 1 .. n /\ GetFrameOfs(base, m) = c[m]
         /\ Moves(base, n, s, n) /\ s.hwm <= base.hwm
<1>1. PICK b \in BaseType : b = base
  OBVIOUS
<1>2. PICK f : f = GetFrameOfs(b, m)
  OBVIOUS
<1>3. m \in 1 .. b.num /\ Readable(b, f)
  BY <1>1, <1>2, Zenon DEF Visit
<1>4. s = Visited(b, m, f)
  BY <1>1, <1>2, Zenon DEF Visit, Visited
<1>5. Shape(b, w, c, n, q, k)
  BY <1>1
<1>6. /\ s \in BaseType /\ Shape(s, w, c, n, q, k) /\ m \in 1 .. n /\ f = c[m]
      /\ s.idx = b.idx /\ s.num = b.num /\ s.hwm = b.hwm /\ s.body = b.body
      /\ s.uidNext = b.uidNext /\ s.max = b.max /\ s.skip = b.skip
  BY <1>2, <1>3, <1>4, <1>5, VisitShape
<1>7. Moves(b, n, s, n) /\ s.hwm <= b.hwm
  BY <1>6, BaseFacts DEF Moves, Keeps
<1> QED
  BY <1>1, <1>2, <1>6, <1>7

(* The step of an open for reading.                                        *)
LEMMA OpenReadStep ==
  ASSUME NEW g, NEW w, NEW c, NEW n, NEW q, NEW k, base \in BaseType,
         Alone(handle, g, w), Shape(base, w, c, n, q, k), NEW m, OpenRead(m)
  PROVE  GoesTo(n)
<1>1. PICK b : b = base
  OBVIOUS
<1>2. PICK s : s = base'
  OBVIOUS
<1>3. PICK hs : hs = handle'
  OBVIOUS
<1>4. Visit(m) /\ hs = handle
  BY <1>3 DEF OpenRead
<1>5. /\ s \in BaseType /\ Shape(s, w, c, n, q, k)
      /\ Moves(b, n, s, n) /\ s.hwm <= b.hwm
  BY <1>1, <1>2, <1>4, VisitStep
<1> QED
  BY <1>1, <1>2, <1>3, <1>4, <1>5, Arrives

(* The step of an open for updating.                                       *)
LEMMA OpenUpdateStep ==
  ASSUME Careful, NEW g, NEW w, NEW c, NEW n, NEW q, NEW k, base \in BaseType,
         Alone(handle, g, w), Shape(base, w, c, n, q, k),
         NEW h \in Handles, NEW m, OpenUpdate(h, m)
  PROVE  GoesTo(n)
<1>1. PICK b \in BaseType : b = base
  OBVIOUS
<1>2. PICK s : s = base'
  OBVIOUS
<1>3. PICK hs : hs = handle'
  OBVIOUS
<1>4. Visit(m) /\ MayRenumber
  BY Zenon DEF OpenUpdate
<1>5. w = Closed
  BY <1>4, RenumberingIsAlone
<1>6. /\ s \in BaseType /\ Shape(s, Closed, c, n, q, k)
      /\ m \in 1 .. n /\ GetFrameOfs(base, m) = c[m]
      /\ Moves(b, n, s, n) /\ s.hwm <= b.hwm
  BY <1>1, <1>2, <1>4, <1>5, VisitStep
<1>7. PICK f : f = c[m]
  OBVIOUS
<1>8. PICK rd : rd = b.frame[f]
  OBVIOUS
<1>9. PICK x : x = UpdateHandle(m, f, rd)
  OBVIOUS
<1>10. rd \in Hdr
  <2>1. IsChain(c, n)
    BY <1>6 DEF Shape, TwoChains
  <2>2. f \in Frames
    BY <1>6, <1>7, <2>1, ChainFacts
  <2> QED
    BY <1>8, <2>2, BaseFacts DEF HdrMap
<1>11. x \in HandleType /\ x # Closed /\ Shape(s, x, c, n, q, k)
  BY <1>6, <1>7, <1>9, <1>10, UpdateShape
<1>12. hs = [handle EXCEPT ![h] = x]
  BY <1>1, <1>3, <1>6, <1>7, <1>8, <1>9, Zenon DEF OpenUpdate, UpdateHandle
<1>13. Alone(hs, h, x)
  BY <1>5, <1>11, <1>12, AloneBecomes
<1> QED
  BY <1>1, <1>2, <1>3, <1>6, <1>11, <1>13, Arrives

(* The step of a create over a message there is.                           *)
LEMMA OpenCreateOverStep ==
  ASSUME Careful, NEW g, NEW w, NEW c, NEW n, NEW q, NEW k, base \in BaseType,
         Alone(handle, g, w), Shape(base, w, c, n, q, k),
         NEW h \in Handles, NEW m, OpenCreateOver(h, m)
  PROVE  GoesTo(n)
<1>1. PICK b \in BaseType : b = base
  OBVIOUS
<1>2. PICK s : s = base'
  OBVIOUS
<1>3. PICK hs : hs = handle'
  OBVIOUS
<1>4. MayRenumber /\ m \in 1 .. b.num
  BY <1>1, Zenon DEF OpenCreateOver
<1>5. w = Closed
  BY <1>4, RenumberingIsAlone
<1>6. PICK f : f = b.idx[m].ofs
  OBVIOUS
<1>7. PICK rd : rd = UpdateHeader(b, f)
  OBVIOUS
<1>8. PICK u : u = b.idx[m].uid
  OBVIOUS
<1>9. PICK x : x = OverHandle(m, f, rd, u)
  OBVIOUS
<1>10. s = Updating(b, m, f, rd)
  BY <1>1, <1>2, <1>6, <1>7, Zenon DEF OpenCreateOver, Updating,
     UpdateHeader
<1>11. hs = [handle EXCEPT ![h] = x]
  BY <1>1, <1>3, <1>6, <1>7, <1>8, <1>9, Zenon DEF OpenCreateOver, OverHandle,
     UpdateHeader
<1>12. Shape(b, Closed, c, n, q, k)
  BY <1>1, <1>5
<1>13. /\ s \in BaseType /\ x \in HandleType /\ x # Closed
       /\ Shape(s, x, c, n, q, k)
       /\ n \in Nat /\ b.num = n /\ s.num = b.num /\ s.hwm = b.hwm
       /\ s.uidNext = b.uidNext
       /\ s.max = b.max /\ s.skip = b.skip /\ s.body = b.body
       /\ \A i \in 1 .. n : s.idx[i].uid = b.idx[i].uid
  BY <1>4, <1>6, <1>7, <1>8, <1>9, <1>10, <1>12, OverShape
<1>14. Alone(hs, h, x)
  BY <1>5, <1>11, <1>13, AloneBecomes
<1>15. Moves(b, n, s, n) /\ s.hwm <= b.hwm
  BY <1>13, BaseFacts DEF Moves, Keeps
<1> QED
  BY <1>1, <1>2, <1>3, <1>13, <1>14, <1>15, Arrives

(* The step of the calls that reset the cursor.                            *)
LEMMA ResetStep ==
  ASSUME NEW g, NEW w, NEW c, NEW n, NEW q, NEW k, base \in BaseType,
         Alone(handle, g, w), Shape(base, w, c, n, q, k),
         base' = ResetCursor(base), UNCHANGED handle
  PROVE  GoesTo(n)
<1>1. PICK b \in BaseType : b = base
  OBVIOUS
<1>2. PICK s : s = base'
  OBVIOUS
<1>3. PICK hs : hs = handle'
  OBVIOUS
<1>4. Shape(b, w, c, n, q, k) /\ s = ResetCursor(b) /\ Alone(hs, g, w)
  BY <1>1, <1>2, <1>3
<1>5. /\ s \in BaseType /\ Shape(s, w, c, n, q, k)
      /\ s.idx = b.idx /\ s.num = b.num /\ s.hwm = b.hwm /\ s.body = b.body
      /\ s.uidNext = b.uidNext /\ s.max = b.max /\ s.skip = b.skip
  BY <1>4, ResetShape
<1>6. Moves(b, n, s, n) /\ s.hwm <= b.hwm
  BY <1>5, BaseFacts DEF Moves, Keeps
<1> QED
  BY <1>1, <1>2, <1>3, <1>4, <1>5, <1>6, Arrives

(* The step of MsgSetMaxMsg.                                               *)
LEMMA SetMaxMsgStep ==
  ASSUME Careful, NEW g, NEW w, NEW c, NEW n, NEW q, NEW k, base \in BaseType,
         Alone(handle, g, w), Shape(base, w, c, n, q, k),
         NEW l \in Limits, SetMaxMsg(l[1], l[2])
  PROVE  GoesTo(n)
<1>1. PICK b \in BaseType : b = base
  OBVIOUS
<1>2. PICK s : s = base'
  OBVIOUS
<1>3. PICK hs : hs = handle'
  OBVIOUS
<1>4. l[1] \in Nat /\ l[2] \in Nat
  BY SizesAssumption
<1>5. PICK max \in Nat : max = l[1]
  BY <1>4
<1>6. PICK skip \in Nat : skip = l[2]
  BY <1>4
<1>7. max = 0 \/ max >= skip + 2
  BY <1>5, <1>6 DEF Careful
<1>8. Shape(b, w, c, n, q, k) /\ s = Limited(b, max, skip)
      /\ Alone(hs, g, w)
  BY <1>1, <1>2, <1>3, <1>5, <1>6 DEF SetMaxMsg, Limited
<1>9. /\ s \in BaseType /\ Shape(s, w, c, n, q, k)
      /\ s.idx = b.idx /\ s.num = b.num /\ s.hwm = b.hwm /\ s.body = b.body
      /\ s.uidNext = b.uidNext /\ s.max = max /\ s.skip = skip
  BY <1>7, <1>8, LimitShape
<1>10. Moves(b, n, s, n) /\ s.hwm <= b.hwm
  BY <1>9, BaseFacts DEF Moves, Keeps
<1> QED
  BY <1>1, <1>2, <1>3, <1>8, <1>9, <1>10, Arrives

(* The step of MsgSetHighWater.                                            *)
LEMMA SetHighWaterStep ==
  ASSUME NEW g, NEW w, NEW c, NEW n, NEW q, NEW k, base \in BaseType,
         Alone(handle, g, w), Shape(base, w, c, n, q, k),
         NEW m \in 0 .. base.num, SetHighWater(m)
  PROVE  GoesTo(n)
<1>1. PICK b \in BaseType : b = base
  OBVIOUS
<1>2. PICK s : s = base'
  OBVIOUS
<1>3. PICK hs : hs = handle'
  OBVIOUS
<1>4. PICK hwm : hwm = IF m = 0 THEN 0 ELSE b.idx[m].uid
  OBVIOUS
<1>5. m <= Len(b.idx) /\ s = [b EXCEPT !.hwm = hwm] /\ Alone(hs, g, w)
  BY <1>1, <1>2, <1>3, <1>4 DEF SetHighWater
<1>6. hwm \in Nat
  <2>1. CASE m = 0
    BY <1>4, <2>1
  <2>2. CASE m # 0
    <3>1. b.idx \in Seq(SQIDX) /\ b.num \in Int
      BY BaseFacts
    <3>2. m \in 1 .. Len(b.idx)
      BY <1>1, <1>5, <2>2, <3>1
    <3>3. b.idx[m] \in SQIDX
      BY <3>1, <3>2
    <3> QED
      BY <1>4, <2>2, <3>3, SizesAssumption DEF SQIDX, Uids, NoUid
  <2> QED
    BY <2>1, <2>2
<1>7. Shape(b, w, c, n, q, k)
  BY <1>1
<1>8. /\ s \in BaseType /\ Shape(s, w, c, n, q, k)
      /\ s.idx = b.idx /\ s.num = b.num /\ s.body = b.body
      /\ s.uidNext = b.uidNext /\ s.max = b.max /\ s.skip = b.skip
  BY <1>5, <1>6, <1>7, MarkShape
<1>9. Moves(b, n, s, n) /\ Sound(s, hs, n)
  BY <1>5, <1>8 DEF Moves, Keeps, Sound
<1> QED
  BY <1>1, <1>2, <1>3, <1>9 DEF GoesTo

(* Room is made for the new message if the limit asks for it.              *)
LEMMA RoomIsMade ==
  ASSUME NEW b \in BaseType, NEW c, NEW n, NEW q, NEW k,
         Shape(b, Closed, c, n, q, k), NEW r, r = ReduceMaxMsgs(b),
         NEW d, d = Going(b)
  PROVE  /\ d \in Nat /\ n \in Nat /\ b.skip \in Nat /\ r \in BaseType
         /\ d = 0 \/ b.skip + d < n
         /\ \E e, z, j :
              /\ Shape(r, Closed, e, n - d, z, j)
              /\ \A i \in 1 .. n - d : e[i] = c[IF i <= b.skip \/ d = 0 THEN i ELSE i + d]
         /\ r.uidNext = b.uidNext /\ r.max = b.max /\ r.skip = b.skip
         /\ r.body = b.body /\ r.hwm <= b.hwm
<1>1. n \in Nat /\ b.skip \in Nat /\ b.hwm \in Nat
  BY BaseFacts DEF Shape, TwoChains, IsChain
<1>2. CASE ~ OverLimit(b)
  <2>1. r = b /\ d = 0
    BY <1>2 DEF ReduceMaxMsgs, Going
  <2>2. n - d = n
    BY <1>1, <2>1
  <2>3. Shape(r, Closed, c, n - d, q, k)
    BY <2>1, <2>2
  <2>4. \A i \in 1 .. n - d : c[i] = c[IF i <= b.skip \/ d = 0 THEN i ELSE i + d]
    BY <2>1
  <2> QED
    BY <1>1, <2>1, <2>3, <2>4
<1>3. CASE OverLimit(b)
  <2>1. PICK e : e = Cut(c, b.skip, d)
    OBVIOUS
  <2>2. PICK z : z = Joined(q, k, Part(c, b.skip, d))
    OBVIOUS
  <2>3. d = Surplus(b)
    BY <1>3 DEF Going
  <2>4. /\ d \in Nat /\ d >= 1 /\ b.skip \in Nat /\ n \in Nat /\ b.skip + d < n
        /\ r \in BaseType
        /\ Shape(r, Closed, e, n - d, z, k + d)
        /\ r.uidNext = b.uidNext /\ r.max = b.max /\ r.skip = b.skip
        /\ r.body = b.body /\ r.hwm <= b.hwm
    BY <1>3, <2>1, <2>2, <2>3, ReduceShape
  <2>5. \A i \in 1 .. n - d : e[i] = c[IF i <= b.skip \/ d = 0 THEN i ELSE i + d]
    <3>1. \A i \in 1 .. n - d : i \in Int
      BY <2>4
    <3> QED
      BY <2>1, <2>4, <3>1 DEF Cut
  <2> QED
    BY <2>4, <2>5
<1> QED
  BY <1>2, <1>3

(* The step of a create at the end, which makes room below the limit.      *)
LEMMA OpenCreateNewStep ==
  ASSUME Careful, NEW g, NEW w, NEW c, NEW n, NEW q, NEW k, base \in BaseType,
         Alone(handle, g, w), Shape(base, w, c, n, q, k),
         NEW h \in Handles, OpenCreateNew(h)
  PROVE  GoesTo(n)
<1>1. PICK b \in BaseType : b = base
  OBVIOUS
<1>2. PICK s : s = base'
  OBVIOUS
<1>3. PICK hs : hs = handle'
  OBVIOUS
<1>4. MayRenumber /\ b.uidNext <= MaxUid
  BY <1>1, Zenon DEF OpenCreateNew
<1>5. w = Closed
  BY <1>4, RenumberingIsAlone
<1>6. Shape(b, Closed, c, n, q, k)
  BY <1>1, <1>5
<1>7. PICK r : r = ReduceMaxMsgs(b)
  OBVIOUS
<1>8. PICK d : d = Going(b)
  OBVIOUS
<1>9. /\ d \in Nat /\ n \in Nat /\ b.skip \in Nat /\ r \in BaseType
      /\ d = 0 \/ b.skip + d < n
      /\ \E e, z, j :
           /\ Shape(r, Closed, e, n - d, z, j)
           /\ \A i \in 1 .. n - d : e[i] = c[IF i <= b.skip \/ d = 0 THEN i ELSE i + d]
      /\ r.uidNext = b.uidNext /\ r.max = b.max /\ r.skip = b.skip
      /\ r.body = b.body /\ r.hwm <= b.hwm
  BY <1>6, <1>7, <1>8, RoomIsMade
<1>10. PICK l \in Nat : l = n - d
  BY <1>9
<1>11. PICK e, z, j :
           /\ Shape(r, Closed, e, l, z, j)
           /\ \A i \in 1 .. l : e[i] = c[IF i <= b.skip \/ d = 0 THEN i ELSE i + d]
  BY <1>9, <1>10
<1>12. PICK u : u = r.uidNext
  OBVIOUS
<1>13. PICK x : x = NewHandle(r.num + 1, u)
  OBVIOUS
<1>14. PICK t : t = Announced(r, u)
  OBVIOUS
<1>15. /\ t \in BaseType /\ x \in HandleType /\ x # Closed
       /\ Shape(t, x, e, l, z, j)
       /\ r.num = l /\ l \in Nat /\ t.num = l + 1 /\ t.hwm = r.hwm
       /\ t.uidNext = u + 1
       /\ t.max = r.max /\ t.skip = r.skip /\ t.body = r.body
       /\ \A i \in 1 .. l : t.idx[i].uid = r.idx[i].uid
       /\ t.idx[l + 1].uid = u
  BY <1>4, <1>9, <1>11, <1>12, <1>13, <1>14, AnnounceShape
<1>16. r.ok
  BY <1>11 DEF Shape
<1>17. s = t
  BY <1>1, <1>2, <1>7, <1>12, <1>14, <1>16, Zenon DEF OpenCreateNew, Announced
<1>18. hs = [handle EXCEPT ![h] = x]
  BY <1>1, <1>3, <1>7, <1>12, <1>13, <1>16, Zenon DEF OpenCreateNew, NewHandle
<1>19. Alone(hs, h, x)
  BY <1>5, <1>15, <1>18, AloneBecomes
<1>20. Announces(b, n, s, l)
  <2>1. Numbered(b, c, n) /\ Numbered(r, e, l)
    BY <1>6, <1>11 DEF Shape
  <2>2. ASSUME NEW i \in 1 .. l
        PROVE  s.idx[i].uid = IF i <= b.skip \/ d = 0 THEN b.idx[i].uid
                              ELSE b.idx[i + d].uid
    <3>1. s.idx[i].uid = b.body[e[i]]
      BY <1>9, <1>15, <1>17, <2>1 DEF Numbered
    <3>2. i \in 1 .. n /\ i + d \in 1 .. n
      BY <1>9, <1>10
    <3> QED
      BY <1>11, <2>1, <3>1, <3>2 DEF Numbered
  <2>3. s.uidNext = b.uidNext + 1 /\ s.max = b.max /\ s.skip = b.skip
    BY <1>9, <1>12, <1>15, <1>17
  <2>4. b.num = n
    BY <1>6, ClosedIs DEF Shape, Indexed
  <2> QED
    BY ONLY <1>8, <1>9, <1>10, <2>2, <2>3, <2>4 DEF Announces
<1>21. Moves(b, n, s, l) /\ s.hwm <= b.hwm
  BY <1>9, <1>15, <1>17, <1>20 DEF Moves
<1> QED
  BY <1>1, <1>2, <1>3, <1>15, <1>17, <1>19, <1>21, Arrives

(* The id that a write of handle w into base b stores with message m.      *)
IdToStore(b, w, m, u) ==
  \/ w.uid # 0 /\ u = w.uid
  \/ w.uid = 0 /\ ~ (m > Len(b.idx)) /\ u = b.idx[m].uid

(* What StoreMessage does to a message that the index shows.               *)
LEMMA StoreMessageIs ==
  ASSUME NEW b, NEW h \in Handles, NEW f, NEW w \in HandleType, handle[h] = w,
         DOMAIN handle = Handles, StoreMessage(b, h, f),
         NEW m, m = w.msg, m <= Len(b.idx), NEW u, IdToStore(b, w, m, u)
  PROVE  /\ base' = StoredAs(b, m, f, u)
         /\ handle' = [handle EXCEPT ![h] = Wrote(w, f, u)]
<1> DEFINE v == IF handle[h].uid # 0 \/ handle[h].msg > Len(b.idx) THEN handle[h].uid
                ELSE b.idx[handle[h].msg].uid
           d == [b EXCEPT !.body[f] = v]
<1>1. /\ Becomes(IF handle[h].msg <= Len(b.idx)
                 THEN [d EXCEPT !.idx[handle[h].msg].ofs = f] ELSE d)
      /\ handle' = [handle EXCEPT ![h].foWrite = f, ![h].uid = v,
                                  ![h].written = TRUE]
  BY DEF StoreMessage
<1>2. v = u
  <2>1. CASE w.uid # 0
    BY <2>1 DEF IdToStore
  <2>2. CASE w.uid = 0
    BY <2>2 DEF IdToStore
  <2> QED
    BY <2>1, <2>2
<1> HIDE DEF v
<1>3. Becomes([[b EXCEPT !.body[f] = u] EXCEPT !.idx[m].ofs = f])
  BY <1>1, <1>2
<1>4. base' = StoredAs(b, m, f, u)
  BY <1>3 DEF Becomes, StoredAs
<1>5. handle' = [handle EXCEPT ![h].foWrite = f, ![h].uid = u, ![h].written = TRUE]
  BY <1>1, <1>2
<1>6. handle' = [handle EXCEPT ![h] = [[[handle[h] EXCEPT !.foWrite = f]
                                          EXCEPT !.uid = u] EXCEPT !.written = TRUE]]
  BY <1>5
<1> QED
  BY <1>4, <1>6 DEF Wrote

(* The step of a write into the frame the message has.                     *)
LEMMA RewriteStep ==
  ASSUME NEW g, NEW w, NEW c, NEW n, NEW q, NEW k, base \in BaseType,
         Alone(handle, g, w), Shape(base, w, c, n, q, k),
         NEW h \in Handles, NEW len, Rewrite(h, len)
  PROVE  GoesTo(n)
<1>1. PICK b \in BaseType : b = base
  OBVIOUS
<1>2. PICK s : s = base'
  OBVIOUS
<1>3. PICK hs : hs = handle'
  OBVIOUS
<1>4. handle[h].mode # "closed"
  BY Zenon DEF Rewrite, Creating
<1>5. h = g /\ handle[h] = w /\ w.mode # "closed" /\ w \in HandleType
  BY <1>4, AloneIs DEF Alone
<1>6. Shape(b, w, c, n, q, k) /\ w # Closed /\ w.mode \in {"rw", "create"}
  BY <1>1, <1>5, ClosedIs DEF Shape
<1>7. PICK f : /\ StoreMessage(base, h, f)
               /\ w.mode = "create" => f = w.foWrite
               /\ w.mode = "rw" => f = w.foRead
               /\ ~ Pend(w)
  <2>1. CASE w.mode = "create"
    BY <1>5, <2>1 DEF Rewrite, Creating, Pend
  <2>2. CASE w.mode = "rw"
    BY <1>5, <2>2 DEF Rewrite, Creating, Pend
  <2> QED
    BY <1>6, <2>1, <2>2
<1>8. PICK m : m = w.msg
  OBVIOUS
<1>9. PICK u : u = b.idx[m].uid
  OBVIOUS
<1>10. PICK t : t = StoredAs(b, m, c[m], u)
  OBVIOUS
<1>11. PICK x : x = Wrote(w, c[m], u)
  OBVIOUS
<1>12. /\ m \in 1 .. n /\ m <= Len(b.idx) /\ u # 0 /\ t = b
       /\ w.mode = "create" => w.foWrite = c[m] /\ w.uid = u
       /\ w.mode = "rw" => w.foRead = c[m] /\ w.uid \in {0, u}
       /\ x \in HandleType /\ x # Closed /\ Shape(b, x, c, n, q, k)
  BY <1>5, <1>6, <1>7, <1>8, <1>9, <1>10, <1>11, RewriteShape
<1>13. f = c[m]
  BY <1>6, <1>7, <1>12
<1>14. s = t /\ hs = [handle EXCEPT ![h] = x]
  <2>1. StoreMessage(b, h, f) /\ DOMAIN handle = Handles
    BY <1>1, <1>7 DEF Alone
  <2>2. ~ (m > Len(b.idx))
    BY <1>12, BaseFacts
  <2>3. IdToStore(b, w, m, u)
    BY <1>6, <1>9, <1>12, <2>2 DEF IdToStore
  <2>4. s = StoredAs(b, m, f, u) /\ hs = [handle EXCEPT ![h] = Wrote(w, f, u)]
    <3>1. /\ h \in Handles /\ w \in HandleType /\ handle[h] = w /\ m = w.msg
          /\ m <= Len(b.idx)
      BY ONLY <1>5, <1>8, <1>12, h \in Handles
    <3>2. StoreMessage(b, h, f) /\ DOMAIN handle = Handles
      BY ONLY <1>1, <2>1
    <3> QED
      BY ONLY <1>2, <1>3, <2>3, <3>1, <3>2, StoreMessageIs
  <2> QED
    BY <1>10, <1>11, <1>13, <2>4
<1>15. Alone(hs, h, x)
  BY <1>5, <1>12, <1>14, AloneBecomes
<1>16. Moves(b, n, s, n) /\ s.hwm <= b.hwm
  BY <1>12, <1>14, BaseFacts DEF Moves, Keeps
<1> QED
  BY <1>1, <1>2, <1>3, <1>12, <1>14, <1>15, <1>16, Arrives

(* The step of a write that needs a frame.                                 *)
LEMMA WriteNewStep ==
  ASSUME Careful, NEW g, NEW w, NEW c, NEW n, NEW q, NEW k, base \in BaseType,
         Alone(handle, g, w), Shape(base, w, c, n, q, k),
         NEW h \in Handles, NEW len \in Sizes, NEW full \in BOOLEAN,
         NEW cut \in BOOLEAN, WriteNew(h, len, full, cut)
  PROVE  GoesTo(n)
<1>1. PICK b \in BaseType : b = base
  OBVIOUS
<1>2. PICK s : s = base'
  OBVIOUS
<1>3. PICK hs : hs = handle'
  OBVIOUS
<1>4. Creating(h) /\ handle[h].foWrite = NULL_FRAME
  BY Zenon DEF WriteNew
<1>5. h = g /\ handle[h] = w /\ w.mode # "closed" /\ w \in HandleType
  <2>1. handle[h].mode # "closed"
    BY <1>4 DEF Creating
  <2> QED
    BY <2>1, AloneIs DEF Alone
<1>6. Shape(b, w, c, n, q, k) /\ w # Closed /\ w.mode \in {"rw", "create"}
      /\ OnMessage(b, w, c) /\ Indexed(b, w, c, n) /\ n \in Nat
  BY <1>1, <1>5, ClosedIs DEF Shape, TwoChains, IsChain
<1>7. Pend(w)
  BY <1>4, <1>5, <1>6 DEF Creating, Pend
<1>8. PICK got : got = GetWriteFrame(b, w, len, full)
  OBVIOUS
<1>9. ~ full /\ ~ cut
  <2>1. (full => "frame" \in DiskFull) /\ (cut => "body" \in DiskFull)
    BY Zenon DEF WriteNew
  <2> QED
    BY <2>1 DEF Careful
<1>10. b.end > MaxFrames => got.got # NULL_FRAME
  <2>1. b.end > MaxFrames => full \/ got.got # NULL_FRAME
    BY <1>1, <1>5, <1>8, Zenon DEF WriteNew
  <2> QED
    BY <1>9, <2>1
<1>11. WrittenAs(b, w, got, b.num)
  BY <1>5, <1>6, <1>7, <1>8, <1>9, <1>10, WriteShape
<1>12. PICK m : m = w.msg
  OBVIOUS
<1>13. PICK u : u = w.uid
  OBVIOUS
<1>14. PICK f, e, z, j :
         LET t == StoredAs(got.b, m, f, u)
         IN /\ f \in Frames
            /\ got.got = f /\ m <= Len(got.b.idx)
            /\ t \in BaseType /\ Shape(t, Wrote(w, f, u), e, b.num, z, j)
            /\ t.num = b.num /\ t.hwm = b.hwm /\ t.uidNext = b.uidNext
            /\ t.max = b.max /\ t.skip = b.skip
            /\ \A i \in 1 .. b.num : t.idx[i].uid = b.idx[i].uid
  BY ONLY <1>11, <1>12, <1>13 DEF WrittenAs
<1>15. PICK t : t = StoredAs(got.b, m, f, u)
  OBVIOUS
<1>16. PICK x : x = Wrote(w, f, u)
  OBVIOUS
<1>17. /\ f \in Frames /\ got.got = f /\ m <= Len(got.b.idx)
       /\ t \in BaseType /\ Shape(t, x, e, b.num, z, j)
       /\ t.num = b.num /\ t.hwm = b.hwm /\ t.uidNext = b.uidNext
       /\ t.max = b.max /\ t.skip = b.skip
       /\ \A i \in 1 .. b.num : t.idx[i].uid = b.idx[i].uid
  BY <1>14, <1>15, <1>16
<1>18. got.got # NULL_FRAME
  BY <1>17, NullIsNoFrame
<1>19. StoreMessage(got.b, h, f)
  BY <1>1, <1>5, <1>8, <1>9, <1>17, <1>18, Zenon DEF WriteNew
<1>20. u # 0
  <2>1. w.msg \in 1 .. b.num /\ u = b.idx[w.msg].uid
    BY <1>6, <1>7, <1>13 DEF OnMessage
  <2>2. 1 <= u
    BY <1>6, <2>1 DEF Shape, Numbered
  <2> QED
    BY <2>2
<1>21. s = t /\ hs = [handle EXCEPT ![h] = x]
  <2>1. DOMAIN handle = Handles
    BY DEF Alone
  <2>2. PICK a : a = got.b
    OBVIOUS
  <2>3. StoreMessage(a, h, f) /\ m <= Len(a.idx) /\ t = StoredAs(a, m, f, u)
    BY <1>15, <1>17, <1>19, <2>2
  <2>4. IdToStore(a, w, m, u)
    BY <1>13, <1>20 DEF IdToStore
  <2>5. s = StoredAs(a, m, f, u) /\ hs = [handle EXCEPT ![h] = Wrote(w, f, u)]
    BY <1>2, <1>3, <1>5, <1>12, <2>1, <2>3, <2>4, StoreMessageIs
  <2> QED
    BY <1>16, <2>3, <2>5
<1>22. x \in HandleType /\ x # Closed
  <2>1. u \in Uids
    BY <1>5, <1>13 DEF HandleType
  <2> QED
    BY <1>5, <1>6, <1>7, <1>16, <1>17, <2>1, WroteIs DEF Pend
<1>23. Alone(hs, h, x)
  BY <1>5, <1>21, <1>22, AloneBecomes
<1>24. Moves(b, n, s, b.num) /\ s.hwm <= b.hwm
  <2>1. s.hwm <= b.hwm
    BY <1>17, <1>21, BaseFacts
  <2>2. CASE New(w)
    <3>1. b.num = n + 1
      BY <1>6, <2>2 DEF Indexed
    <3>2. \A i \in 1 .. n : i \in 1 .. b.num
      BY <1>6, <3>1
    <3> QED
      BY <1>17, <1>21, <2>1, <3>1, <3>2 DEF Moves, Stores
  <2>3. CASE ~ New(w)
    <3>1. b.num = n
      BY <1>6, <2>3 DEF Indexed
    <3> QED
      BY <1>17, <1>21, <2>1, <3>1 DEF Moves, Keeps
  <2> QED
    BY <2>2, <2>3
<1> QED
  BY <1>1, <1>2, <1>3, <1>17, <1>21, <1>23, <1>24, Arrives

(* Every call, from a sound state, ends in a sound state and does one of   *)
(* the four things to the list of messages.                                *)
LEMMA NextGoesTo ==
  ASSUME Careful, NEW n, Sound(base, handle, n), Next
  PROVE  GoesTo(n)
<1>1. PICK g, w, c, q, k :
        base \in BaseType /\ Alone(handle, g, w) /\ Shape(base, w, c, n, q, k)
  BY DEF Sound
<1>2. CASE \E h \in Handles : OpenCreateNew(h)
  BY <1>1, <1>2, OpenCreateNewStep
<1>3. CASE \E h \in Handles : CloseMsg(h)
  BY <1>1, <1>3, CloseMsgStep
<1>4. CASE \E h \in Handles, m \in 1 .. base.num : OpenCreateOver(h, m)
  BY <1>1, <1>4, OpenCreateOverStep
<1>5. CASE \E h \in Handles, m \in 1 .. base.num : OpenUpdate(h, m)
  BY <1>1, <1>5, OpenUpdateStep
<1>6. CASE \E h \in Handles, len \in Sizes : Rewrite(h, len)
  BY <1>1, <1>6, RewriteStep
<1>7. CASE \E h \in Handles, len \in Sizes, full, cut \in BOOLEAN :
             WriteNew(h, len, full, cut)
  BY <1>1, <1>7, WriteNewStep
<1>8. CASE \E m \in 1 .. base.num : KillMsg(m)
  BY <1>1, <1>8, KillMsgStep
<1>9. CASE \E m \in 1 .. base.num : OpenRead(m)
  BY <1>1, <1>9, OpenReadStep
<1>10. CASE \E m \in 0 .. base.num : SetHighWater(m)
  BY <1>1, <1>10, SetHighWaterStep
<1>11. CASE \E l \in Limits : SetMaxMsg(l[1], l[2])
  BY <1>1, <1>11, SetMaxMsgStep
<1>12. CASE OpenMsgZero
  BY <1>1, <1>12, ResetStep DEF OpenMsgZero
<1>13. CASE Reopen
  BY <1>1, <1>13, ResetStep DEF Reopen
<1> QED
  BY <1>2, <1>3, <1>4, <1>5, <1>6, <1>7, <1>8, <1>9, <1>10, <1>11, <1>12, <1>13,
     Zenon DEF Next

(* So does a step that leaves the base and the handles alone.              *)
LEMMA StutterGoesTo ==
  ASSUME NEW n, Sound(base, handle, n), UNCHANGED vars
  PROVE  GoesTo(n)
<1>1. PICK b : b = base /\ b = base'
  BY DEF vars
<1>2. PICK hs : hs = handle /\ hs = handle'
  BY DEF vars
<1>3. Sound(b, hs, n)
  BY <1>1, <1>2
<1>4. b.hwm <= b.hwm
  BY <1>3, BaseFacts DEF Sound
<1>5. Moves(b, n, b, n)
  BY DEF Moves, Keeps
<1> QED
  BY <1>1, <1>2, <1>3, <1>4, <1>5 DEF GoesTo

(* A base that has just been created is sound, and empty.                  *)
LEMMA InitIsSound == ASSUME Init PROVE Sound(base, handle, 0)
<1> DEFINE c == [i \in Int |-> NULL_FRAME]
<1>1. NoHdr \in Hdr /\ NULL_FRAME \in Ofs
  BY DEF NoHdr, Hdr, Ofs
<1>2. 0 \in Uids /\ 1 \in 1 .. MaxUid + 1 /\ 1 \in 1 .. MaxFrames + 1
  BY SizesAssumption DEF Uids, NoUid
<1>3. PICK b : b = base
  OBVIOUS
<1>4. b = [frame |-> [f \in Frames |-> NoHdr],
           body |-> [f \in Frames |-> 0],
           idx |-> <<>>, num |-> 0, uidNext |-> 1,
           first |-> NULL_FRAME, last |-> NULL_FRAME,
           free |-> NULL_FRAME, lastFree |-> NULL_FRAME, end |-> 1,
           max |-> 0, skip |-> 0, hwm |-> 0,
           cur |-> 0, foCur |-> NULL_FRAME, foPrev |-> NULL_FRAME,
           foNext |-> NULL_FRAME, ok |-> TRUE]
  BY <1>3 DEF Init
<1>5. b \in BaseType
  BY ONLY <1>1, <1>2, <1>4 DEF BaseType
<1>6. IsChain(c, 0)
  BY <1>1 DEF IsChain
<1>7. \A i \in Int : c[i] = NULL_FRAME
  OBVIOUS
<1> HIDE DEF c
<1>8. \A f \in Frames : ~ (f < 1)
  BY SizesAssumption DEF Frames
<1>9. 1 .. 0 = {}
  OBVIOUS
<1>10. TwoChains(b, c, 0, c, 0)
  BY ONLY <1>4, <1>6, <1>7, <1>8, <1>9 DEF TwoChains, Linked, In
<1>11. Typed(b, Closed, c, 0) /\ Numbered(b, c, 0)
  BY ONLY <1>4, <1>9 DEF Typed, Numbered
<1>12. Indexed(b, Closed, c, 0)
  BY <1>4, ClosedIs DEF Indexed
<1>13. OnCursor(b, c, 0) /\ b.ok /\ Roomy(b)
  BY <1>4, <1>7 DEF OnCursor, Roomy
<1>14. Shape(b, Closed, c, 0, c, 0)
  BY ONLY <1>10, <1>11, <1>12, <1>13 DEF Shape
<1>15. PICK g : g \notin Handles
  BY NoSetContainsEverything
<1>16. Alone(handle, g, Closed)
  BY ClosedType, <1>15 DEF Init, Alone
<1> QED
  BY <1>3, <1>5, <1>14, <1>16 DEF Sound

(* The base is sound at all times, however the calls of a careful program  *)
(* are mixed: the invariant that the theorems below rest on.               *)
THEOREM Inductive == ASSUME Careful PROVE Spec => []IInv
<1>1. Init => IInv
  BY InitIsSound DEF IInv
<1>2. IInv /\ [Next]_vars => IInv'
  <2> SUFFICES ASSUME IInv, [Next]_vars PROVE IInv'
    OBVIOUS
  <2>1. PICK n : Sound(base, handle, n)
    BY DEF IInv
  <2>2. GoesTo(n)
    BY <2>1, NextGoesTo, StutterGoesTo
  <2> QED
    BY <2>2 DEF GoesTo, IInv
<1> QED
  BY <1>1, <1>2, PTL DEF Spec

---------------------------------------------------------------------------
(***************************************************************************)
(* The invariants of SquishBase, from the inductive one.                   *)
(***************************************************************************)

(* The state functions of SquishBase's invariants, in a state that is      *)
(* sound: the chain and the number of its messages.                        *)
Seen(w, c, n, q, k) ==
  /\ Shape(base, w, c, n, q, k) /\ base \in BaseType /\ w \in HandleType
  /\ Stored = n /\ \A i \in Int : Msg(i) = c[i]
  /\ \A i : PendingOn(i) <=> Pend(w) /\ w.msg = i
  /\ \A h \in Writers : handle[h] = w /\ w # Closed /\ (Pending(h) <=> Pend(w))

(* In a sound state they are what the chain says.                          *)
LEMMA SeenIs ==
  ASSUME NEW g, NEW w, NEW c, NEW n, NEW q, NEW k, base \in BaseType,
         Alone(handle, g, w), Shape(base, w, c, n, q, k)
  PROVE  Seen(w, c, n, q, k)
<1>1. /\ IsChain(c, n) /\ n \in Nat /\ Indexed(base, w, c, n) /\ w \in HandleType
      /\ w # Closed => w.mode \in {"rw", "create"} /\ OnMessage(base, w, c)
  BY DEF Shape, TwoChains, IsChain, Alone
<1>2. \A h \in Handles : Pending(h) <=> h = g /\ Pend(w)
  <2> SUFFICES ASSUME NEW h \in Handles PROVE Pending(h) <=> h = g /\ Pend(w)
    OBVIOUS
  <2>1. CASE h = g
    <3>1. handle[h] = w
      BY <2>1, AloneIs
    <3>2. w.mode # "failed"
      BY <1>1, ClosedIs
    <3> QED
      BY <2>1, <3>1, <3>2 DEF Pending, Creating, Pend
  <2>2. CASE h # g
    <3>1. handle[h].mode = "closed"
      BY <2>2, AloneIs
    <3> QED
      BY <2>2, <3>1 DEF Pending, Creating
  <2> QED
    BY <2>1, <2>2
<1>3. Pend(w) => w # Closed /\ g \in Handles /\ handle[g] = w
  BY ClosedIs, AloneIs DEF Alone
<1>4. \A i : PendingOn(i) <=> Pend(w) /\ w.msg = i
  BY <1>2, <1>3 DEF PendingOn
<1>5. \A i : PendingOn(i) => Carrier(i) = w.foRead
  <2> SUFFICES ASSUME NEW i, PendingOn(i) PROVE Carrier(i) = w.foRead
    OBVIOUS
  <2>1. PICK h \in Handles : h = CHOOSE p \in Handles : Pending(p) /\ handle[p].msg = i
    BY DEF PendingOn
  <2>2. Pending(h)
    BY <2>1 DEF PendingOn
  <2>3. handle[h] = w
    BY <1>2, <1>3, <2>2
  <2> QED
    BY <2>1, <2>3 DEF Carrier
<1>6. \A i : ~ PendingOn(i) => Carrier(i) = base.idx[i].ofs
  BY DEF Carrier
<1>7. base.num = (IF New(w) THEN n + 1 ELSE n)
      /\ \A i \in 1 .. base.num :
           base.idx[i].ofs = IF Pend(w) /\ w.msg = i THEN NULL_FRAME ELSE c[i]
  BY <1>1 DEF Indexed
<1>8. New(w) => w.msg = n + 1 /\ w.foRead = NULL_FRAME
  <2>1. New(w) => w # Closed
    BY ClosedIs
  <2> QED
    BY <1>1, <1>7, <2>1 DEF OnMessage, New
<1>9. Pend(w) /\ ~ New(w) => Over(w) /\ w.foRead = c[w.msg] /\ w.foRead # NULL_FRAME
  BY <1>1, <1>3 DEF OnMessage, New, Over
<1>10. Stored = n
  <2>1. CASE New(w)
    <3>1. base.num = n + 1 /\ base.num > 0 /\ Pend(w) /\ w.msg = base.num
      BY <1>1, <1>7, <1>8, <2>1 DEF New
    <3>2. PendingOn(base.num) /\ Carrier(base.num) = NULL_FRAME
      BY <1>4, <1>5, <1>8, <2>1, <3>1
    <3> QED
      BY <1>1, <3>1, <3>2 DEF Stored
  <2>2. CASE ~ New(w)
    <3>1. base.num = n
      BY <1>7, <2>2
    <3>2. ~ (PendingOn(base.num) /\ Carrier(base.num) = NULL_FRAME)
      BY <1>4, <1>5, <1>9, <2>2
    <3> QED
      BY <3>1, <3>2 DEF Stored
  <2> QED
    BY <2>1, <2>2
<1>11. \A i \in Int : Msg(i) = c[i]
  <2> SUFFICES ASSUME NEW i \in Int PROVE Msg(i) = c[i]
    OBVIOUS
  <2>1. CASE i \in 1 .. n
    <3>1. i \in 1 .. base.num /\ i # n + 1
      BY <1>1, <1>7, <2>1
    <3>2. CASE PendingOn(i)
      BY <1>4, <1>5, <1>8, <1>9, <1>10, <2>1, <3>1, <3>2 DEF Msg
    <3>3. CASE ~ PendingOn(i)
      BY <1>4, <1>6, <1>7, <1>10, <2>1, <3>1, <3>3 DEF Msg
    <3> QED
      BY <3>2, <3>3
  <2>2. CASE i \notin 1 .. n
    BY <1>1, <1>10, <2>2, ChainFacts DEF Msg
  <2> QED
    BY <2>1, <2>2
<1>12. ASSUME NEW h \in Writers
       PROVE  handle[h] = w /\ w # Closed /\ (Pending(h) <=> Pend(w))
  <2>1. h \in Handles /\ handle[h].mode # "closed"
    BY DEF Writers
  <2>2. h = g /\ handle[h] = w
    BY <2>1, AloneIs
  <2> QED
    BY <1>2, <2>1, <2>2, ClosedIs
<1> QED
  BY <1>1, <1>4, <1>10, <1>11, <1>12 DEF Seen

(* The same, of the inductive invariant.                                   *)
LEMMA SoundIsSeen ==
  ASSUME IInv PROVE  \E w, c, n, q, k : Seen(w, c, n, q, k)
BY SeenIs DEF IInv, Sound

(* A sound state has its type.                                             *)
LEMMA SoundIsTyped == ASSUME IInv PROVE TypeOK
<1>1. PICK n, g, w, c, q, k :
        base \in BaseType /\ Alone(handle, g, w) /\ Shape(base, w, c, n, q, k)
  BY DEF IInv, Sound
<1> QED
  BY <1>1, AloneIs DEF TypeOK

(* In a sound state the index and the message chain agree.                 *)
LEMMA SoundChain == ASSUME IInv PROVE ChainMatchesIndex
<1>1. PICK w, c, n, q, k : Seen(w, c, n, q, k)
  BY SoundIsSeen
<1>2. /\ Shape(base, w, c, n, q, k) /\ Stored = n /\ \A i \in Int : Msg(i) = c[i]
      /\ \A i : PendingOn(i) <=> Pend(w) /\ w.msg = i
  BY <1>1 DEF Seen
<1>3. /\ n \in Nat /\ Linked(base.frame, c, n) /\ Typed(base, w, c, n)
      /\ base.first = c[1] /\ base.last = c[n] /\ Len(base.idx) >= base.num
  BY <1>2 DEF Shape, TwoChains, IsChain, Indexed
<1>4. \A i \in 1 .. n : Readable(base, c[i])
  BY <1>2, ChainIsReadable
<1>5. \A i \in 1 .. n : i \in Int /\ i - 1 \in Int /\ i + 1 \in Int
  BY <1>3
<1>6. PendingOn(w.msg) => Over(w) \/ w.msg \notin 1 .. n
  <2>1. SUFFICES ASSUME New(w) PROVE w.msg \notin 1 .. n
    BY <1>2 DEF New, Over
  <2>2. w # Closed
    BY <2>1, ClosedIs
  <2>3. w.msg = n + 1
    BY <1>2, <2>1, <2>2 DEF Shape, OnMessage, Indexed
  <2> QED
    BY <1>3, <2>3
<1>7. ASSUME NEW i \in 1 .. n
      PROVE  base.frame[c[i]].type = IF PendingOn(i) THEN "update" ELSE "normal"
  BY <1>2, <1>3, <1>6 DEF Typed, Over
<1>8. base.first = Msg(1) /\ base.last = Msg(n)
  BY <1>2, <1>3
<1>9. ASSUME NEW i \in 1 .. n
      PROVE  /\ Readable(base, Msg(i))
             /\ base.frame[Msg(i)].type = IF PendingOn(i) THEN "update" ELSE "normal"
             /\ base.frame[Msg(i)].prev = Msg(i - 1)
             /\ base.frame[Msg(i)].next = Msg(i + 1)
  <2>1. Msg(i) = c[i] /\ Msg(i - 1) = c[i - 1] /\ Msg(i + 1) = c[i + 1]
    BY <1>2, <1>5
  <2> QED
    BY <1>3, <1>4, <1>7, <2>1 DEF Linked
<1> QED
  BY <1>2, <1>3, <1>8, <1>9 DEF ChainMatchesIndex

(* The free frames are those of the free chain.                            *)
LEMMA SoundFrames ==
  ASSUME NEW w, NEW c, NEW n, NEW q, NEW k, Shape(base, w, c, n, q, k)
  PROVE  /\ \A f : f \in FreeFrames <=> In(f, q, k)
         /\ Cardinality(FreeFrames) = k
<1>1. /\ IsChain(c, n) /\ IsChain(q, k) /\ Typed(base, w, c, n)
      /\ \A f \in Frames : f < base.end <=> In(f, c, n) \/ In(f, q, k)
      /\ \A j \in 1 .. k : base.frame[q[j]].type = "free" /\ q[j] \in Frames
  BY ChainFacts DEF Shape, TwoChains
<1>2. \A i \in 1 .. n : base.frame[c[i]].type # "free"
  BY <1>1 DEF Typed
<1>3. \A f : f \in FreeFrames <=> In(f, q, k)
  BY <1>1, <1>2 DEF FreeFrames, In
<1> QED
  BY <1>1, <1>3, ChainCardinality

(* In a sound state the free chain is one that the search for a frame does *)
(* not refuse.                                                             *)
LEMMA SoundFree == ASSUME IInv PROVE FreeChainSound
<1>1. PICK w, c, n, q, k : Seen(w, c, n, q, k)
  BY SoundIsSeen
<1>2. Shape(base, w, c, n, q, k)
  BY <1>1 DEF Seen
<1>3. /\ IsChain(q, k) /\ Linked(base.frame, q, k) /\ k \in Nat
      /\ base.free = q[1] /\ base.lastFree = q[k]
  BY <1>2 DEF Shape, TwoChains, IsChain
<1>4. (\A f : f \in FreeFrames <=> In(f, q, k)) /\ Cardinality(FreeFrames) = k
  BY <1>2, SoundFrames
<1>5. k <= MaxFrames
  BY <1>3, ChainLengthBound
<1>6. PICK v : v = FreeWalk(base)
  OBVIOUS
<1>7. \A i \in 0 .. MaxFrames : v[i] = q[i + 1]
  BY <1>3, <1>6, FreeWalkIs
<1>8. \A i \in 0 .. k : v[i] = q[i + 1]
  BY <1>3, <1>5, <1>7, SizesAssumption
<1>9. {v[j] : j \in 0 .. k - 1} = FreeFrames
  <2>1. ASSUME NEW j \in 0 .. k - 1 PROVE v[j] \in FreeFrames
    <3>1. v[j] = q[j + 1] /\ j + 1 \in 1 .. k
      BY <1>3, <1>8
    <3> QED
      BY <1>4, <3>1 DEF In
  <2>2. ASSUME NEW f \in FreeFrames PROVE \E j \in 0 .. k - 1 : v[j] = f
    <3>1. PICK i \in 1 .. k : q[i] = f
      BY <1>4 DEF In
    <3>2. i - 1 \in 0 .. k - 1 /\ v[i - 1] = q[i]
      BY <1>3, <1>8, <3>1
    <3> QED
      BY <3>1, <3>2
  <2> QED
    BY <2>1, <2>2
<1>10. v[k] = NULL_FRAME
  BY <1>3, <1>8, ChainFacts
<1>11. base.lastFree = IF k = 0 THEN NULL_FRAME ELSE v[k - 1]
  <2>1. CASE k = 0
    BY <1>3, <2>1, ChainFacts
  <2>2. CASE k # 0
    <3>1. k - 1 \in 0 .. k /\ k - 1 + 1 = k
      BY <1>3, <2>2
    <3> QED
      BY <1>3, <1>8, <2>2, <3>1
  <2> QED
    BY <2>1, <2>2
<1>12. ASSUME NEW j \in 0 .. k - 1
       PROVE  base.frame[v[j]].prev = IF j = 0 THEN NULL_FRAME ELSE v[j - 1]
  <2>1. j + 1 \in 1 .. k /\ v[j] = q[j + 1] /\ j + 1 - 1 = j
    BY <1>3, <1>8
  <2>2. base.frame[v[j]].prev = q[j]
    BY <1>3, <2>1 DEF Linked
  <2>3. CASE j = 0
    BY <1>3, <2>2, <2>3, ChainFacts
  <2>4. CASE j # 0
    <3>1. j - 1 \in 0 .. k /\ j - 1 + 1 = j
      BY <1>3, <2>4
    <3> QED
      BY <1>8, <2>2, <2>4, <3>1
  <2> QED
    BY <2>3, <2>4
<1> QED
  BY <1>4, <1>6, <1>9, <1>10, <1>11, <1>12 DEF FreeChainSound

(* In a sound state every frame is in one of the two chains.               *)
LEMMA SoundNoFrameLost == ASSUME IInv PROVE NoFrameLost
<1>1. PICK w, c, n, q, k : Seen(w, c, n, q, k)
  BY SoundIsSeen
<1>2. /\ Shape(base, w, c, n, q, k) /\ Stored = n /\ \A i \in Int : Msg(i) = c[i]
      /\ base \in BaseType
  BY <1>1 DEF Seen
<1>3. /\ \A f \in Frames : f < base.end <=> In(f, c, n) \/ In(f, q, k)
      /\ \A i \in 1 .. n, j \in 1 .. k : c[i] # q[j]
      /\ IsChain(c, n) /\ IsChain(q, k) /\ n \in Nat
  BY <1>2 DEF Shape, TwoChains, IsChain
<1>4. \A f : f \in FreeFrames <=> In(f, q, k)
  BY <1>2, SoundFrames
<1>5. \A f : f \in MsgFrames <=> In(f, c, n)
  <2>1. \A i \in 1 .. n : i \in Int
    BY <1>3
  <2> QED
    BY <1>2, <2>1 DEF MsgFrames, In
<1>6. \A f : f \in 1 .. base.end - 1 <=> f \in Frames /\ f < base.end
  BY <1>2, BaseFacts, SizesAssumption DEF Frames
<1>7. \A f : In(f, c, n) \/ In(f, q, k) => f \in Frames
  BY <1>3, ChainFacts DEF In
<1> QED
  BY <1>3, <1>4, <1>5, <1>6, <1>7 DEF NoFrameLost, In

(* In a sound state the cursor is where the index would have it.           *)
LEMMA SoundCursor == ASSUME IInv PROVE CursorMatchesIndex
<1>1. PICK w, c, n, q, k : Seen(w, c, n, q, k)
  BY SoundIsSeen
<1>2. /\ OnCursor(base, c, n) /\ Stored = n /\ \A i \in Int : Msg(i) = c[i]
      /\ base.cur \in Nat
  BY <1>1, BaseFacts DEF Seen, Shape
<1>3. base.cur \in Int /\ base.cur - 1 \in Int /\ base.cur + 1 \in Int
  BY <1>2
<1> QED
  BY <1>2, <1>3 DEF CursorMatchesIndex, OnCursor

(* In a sound state ids grow and each frame carries its own.               *)
LEMMA SoundUids == ASSUME IInv PROVE UidsAgree
<1>1. PICK w, c, n, q, k : Seen(w, c, n, q, k)
  BY SoundIsSeen
<1>2. /\ Numbered(base, c, n) /\ Indexed(base, w, c, n) /\ n \in Nat
      /\ w # Closed => OnMessage(base, w, c)
  BY <1>1 DEF Seen, Shape, TwoChains, IsChain
<1>3. ASSUME NEW i \in 1 .. base.num, base.idx[i].ofs # NULL_FRAME
      PROVE  base.body[base.idx[i].ofs] = base.idx[i].uid
  <2>1. base.idx[i].ofs = c[i] /\ ~ (Pend(w) /\ w.msg = i)
    BY <1>2, <1>3 DEF Indexed
  <2>2. i \in 1 .. n
    <3>1. CASE New(w)
      <4>1. w # Closed /\ Pend(w)
        BY <3>1, ClosedIs DEF New
      <4>2. w.msg = n + 1 /\ base.num = n + 1
        BY <1>2, <3>1, <4>1 DEF OnMessage, Indexed
      <4> QED
        BY <1>2, <2>1, <4>1, <4>2
    <3>2. CASE ~ New(w)
      BY <1>2, <3>2 DEF Indexed
    <3> QED
      BY <3>1, <3>2
  <2> QED
    BY <1>2, <2>1, <2>2 DEF Numbered
<1> QED
  BY <1>2, <1>3 DEF UidsAgree, Numbered

(* The base as a message area.                                             *)
(***************************************************************************)

(* Where element i of a list is found before d elements behind the k'th     *)
(* are taken out.                                                          *)
Past(i, k, d) == IF i <= k THEN i ELSE i + d

Shortened(l, t, k, d) == \A i \in 1 .. Len(t) : t[i] = l[Past(i, k, d)]

(* List a is the m elements of l from the i'th one on.                     *)
Slice(a, l, i, m) ==
  a \in Seq(Nat) /\ Len(a) = m /\ \A x \in 1 .. m : a[x] = l[i + x - 1]

(* A part of a list.                                                       *)
LEMMA SliceIs ==
  ASSUME NEW n \in Nat, NEW l \in Seq(Nat), Len(l) = n,
         NEW i \in Nat \ {0}, NEW j \in Nat, j <= n, i <= j + 1, NEW a,
         a = SubSeq(l, i, j), NEW m, m = j + 1 - i
  PROVE  Slice(a, l, i, m)
<1>1. \A x \in 1 .. n : l[x] \in Nat
  OBVIOUS
<1>2. \A x \in i .. j : l[x] \in Nat
  BY <1>1
<1>3. /\ SubSeq(l, i, j) \in Seq(Nat)
      /\ Len(SubSeq(l, i, j)) = IF i <= j THEN j - i + 1 ELSE 0
      /\ \A x \in 1 .. j - i + 1 : SubSeq(l, i, j)[x] = l[i + x - 1]
  BY ONLY <1>2, l \in Seq(Nat), i \in Nat \ {0}, j \in Nat, SubSeqProperties
<1>4. j - i + 1 = j + 1 - i
  OBVIOUS
<1>5. (IF i <= j THEN j - i + 1 ELSE 0) = j + 1 - i
  OBVIOUS
<1>6. /\ a \in Seq(Nat) /\ Len(a) = m
      /\ \A x \in 1 .. m : a[x] = l[i + x - 1]
  BY <1>3, <1>4, <1>5
<1> QED
  BY ONLY <1>6 DEF Slice

(* A list without the d elements behind the k'th.                          *)
LEMMA WithoutIs ==
  ASSUME NEW n \in Nat, NEW l \in Seq(Nat), Len(l) = n, NEW d \in Nat,
         NEW k \in Nat, k + d <= n, NEW r, r = n - d, NEW t \in Seq(Nat),
         Len(t) = r, Shortened(l, t, k, d)
  PROVE  t = Area!Without(l, k, d)
<1>1. \A i \in 1 .. r : t[i] = l[Past(i, k, d)]
  BY DEF Shortened
<1>2. PICK a : a = SubSeq(l, 1, k)
  OBVIOUS
<1>3. PICK e : e = SubSeq(l, k + d + 1, n)
  OBVIOUS
<1>4. a \in Seq(Nat) /\ Len(a) = k /\ \A i \in 1 .. k : a[i] = l[i]
  <2>1. /\ a \in Seq(Nat) /\ Len(a) = k + 1 - 1
        /\ \A i \in 1 .. k + 1 - 1 : a[i] = l[1 + i - 1]
    <3>1. k <= n /\ 1 \in Nat \ {0} /\ 1 <= k + 1
      OBVIOUS
    <3> QED
      BY <1>2, <3>1, SliceIs DEF Slice
  <2>2. k + 1 - 1 = k /\ \A i \in 1 .. k : 1 + i - 1 = i
    OBVIOUS
  <2> QED
    BY <2>1, <2>2
<1>5. /\ e \in Seq(Nat) /\ Len(e) = n - d - k
      /\ \A i \in 1 .. n - d - k : e[i] = l[k + d + i]
  <2>1. PICK j \in Nat \ {0} : j = k + d + 1
    OBVIOUS
  <2>2. /\ e \in Seq(Nat) /\ Len(e) = n + 1 - j
        /\ \A i \in 1 .. n + 1 - j : e[i] = l[j + i - 1]
    <3>1. n <= n /\ j <= n + 1
      BY <2>1
    <3>2. e = SubSeq(l, j, n)
      BY <1>3, <2>1
    <3>3. Slice(e, l, j, n + 1 - j)
      BY ONLY l \in Seq(Nat), Len(l) = n, n \in Nat, j \in Nat \ {0}, <3>1, <3>2,
              SliceIs
    <3> QED
      BY ONLY <3>3 DEF Slice
  <2>3. n + 1 - j = n - d - k /\ \A i \in Int : j + i - 1 = k + d + i
    BY <2>1
  <2>4. Len(e) = n - d - k
    BY <2>2, <2>3
  <2>5. ASSUME NEW i \in 1 .. n - d - k PROVE e[i] = l[k + d + i]
    <3>1. i \in 1 .. n + 1 - j /\ i \in Int
      BY <2>3
    <3>2. e[i] = l[j + i - 1]
      BY <2>2, <3>1
    <3> QED
      BY <2>3, <3>1, <3>2
  <2> QED
    BY <2>2, <2>4, <2>5
<1>6. /\ a \o e \in Seq(Nat) /\ Len(a \o e) = Len(a) + Len(e)
      /\ \A i \in 1 .. Len(a) + Len(e) :
           (a \o e)[i] = IF i <= Len(a) THEN a[i] ELSE e[i - Len(a)]
  BY ONLY <1>4, <1>5, ConcatProperties
<1>7. Len(a) + Len(e) = r /\ Len(a) = k
  BY <1>4, <1>5
<1>8. ASSUME NEW i \in 1 .. r PROVE (a \o e)[i] = t[i]
  <2>1. (a \o e)[i] = IF i <= k THEN a[i] ELSE e[i - k]
    BY <1>6, <1>7
  <2>2. CASE i <= k
    <3>1. i \in 1 .. k /\ Past(i, k, d) = i
      BY ONLY <2>2, i \in 1 .. r, k \in Nat, r = n - d, n \in Nat, d \in Nat DEF Past
    <3>2. t[i] = l[i]
      BY ONLY <1>1, <3>1, i \in 1 .. r
    <3>3. a[i] = l[i]
      BY ONLY <1>4, <3>1
    <3> QED
      BY ONLY <2>1, <2>2, <3>2, <3>3
  <2>3. CASE ~ (i <= k)
    <3>1. i - k \in 1 .. n - d - k /\ k + d + (i - k) = i + d
      BY <2>3
    <3>2. e[i - k] = l[i + d]
      BY <1>5, <3>1
    <3> QED
      BY <1>1, <2>1, <2>3, <3>2 DEF Past
  <2> QED
    BY <2>2, <2>3
<1>9. a \o e = t
  BY <1>6, <1>7, <1>8, SeqEqual
<1> QED
  BY <1>2, <1>3, <1>9 DEF Area!Without

(* The frames that a reader meets from the first one on are those of the   *)
(* message chain.                                                          *)
LEMMA MsgWalkIs ==
  ASSUME NEW b, NEW q, NEW k, IsChain(q, k), Linked(b.frame, q, k),
         b.first = q[1]
  PROVE  \A i \in 0 .. MaxFrames : MsgWalk(b)[i] = q[i + 1]
<1> DEFINE Eq(w) == w = [i \in 0 .. MaxFrames |->
                           IF i = 0 THEN b.first
                           ELSE IF w[i - 1] = NULL_FRAME THEN NULL_FRAME
                           ELSE b.frame[w[i - 1]].next]
           g == [i \in 0 .. MaxFrames |-> q[i + 1]]
<1>1. Eq(g)
  <2>1. \A i \in 0 .. MaxFrames :
          g[i] = IF i = 0 THEN b.first
                 ELSE IF g[i - 1] = NULL_FRAME THEN NULL_FRAME
                 ELSE b.frame[g[i - 1]].next
    <3>1. ASSUME NEW i \in 1 .. MaxFrames
          PROVE  q[i + 1] = IF q[i] = NULL_FRAME THEN NULL_FRAME
                            ELSE b.frame[q[i]].next
      BY StepInChain, SizesAssumption
    <3>2. ASSUME NEW i \in 1 .. MaxFrames
          PROVE  g[i] = q[i + 1] /\ g[i - 1] = q[i]
      BY SizesAssumption
    <3> HIDE DEF g
    <3>3. g[0] = b.first
      BY SizesAssumption DEF g
    <3> QED
      BY <3>1, <3>2, <3>3, SizesAssumption
  <2> QED
    BY <2>1
<1>2. MsgWalk(b) = CHOOSE w : Eq(w)
  BY DEF MsgWalk
<1>3. Eq(MsgWalk(b))
  <2> HIDE DEF Eq
  <2> QED
    BY <1>1, <1>2
<1>4. \A i \in 0 .. MaxFrames :
        MsgWalk(b)[i] =
          IF i = 0 THEN b.first
          ELSE IF MsgWalk(b)[i - 1] = NULL_FRAME THEN NULL_FRAME
          ELSE b.frame[MsgWalk(b)[i - 1]].next
  BY <1>3
<1> QED
  BY <1>4, WalkIs

(* The ids a reader of the chain sees are those of the index.              *)
LEMMA ReaderSees ==
  ASSUME NEW b \in BaseType, NEW w, NEW c, NEW n, NEW q, NEW k,
         Shape(b, w, c, n, q, k)
  PROVE  [i \in 1 .. ChainLength(b) |-> b.body[MsgWalk(b)[i - 1]]] = Listed(b, n)
<1>1. /\ IsChain(c, n) /\ Linked(b.frame, c, n) /\ n \in Nat /\ b.first = c[1]
      /\ Numbered(b, c, n)
  BY DEF Shape, TwoChains, IsChain
<1>2. n <= MaxFrames
  BY <1>1, ChainLengthBound
<1>3. PICK v : v = MsgWalk(b)
  OBVIOUS
<1>4. \A i \in 0 .. MaxFrames : v[i] = c[i + 1]
  BY <1>1, <1>3, MsgWalkIs
<1>5. {i \in 0 .. MaxFrames - 1 : v[i] # NULL_FRAME} = 0 .. n - 1
  <2>1. ASSUME NEW i \in 0 .. MaxFrames - 1 PROVE v[i] # NULL_FRAME <=> i \in 0 .. n - 1
    <3>1. v[i] = c[i + 1] /\ i + 1 \in Int
      BY <1>4, SizesAssumption
    <3>2. i + 1 \in 1 .. n <=> i \in 0 .. n - 1
      BY <1>1
    <3> QED
      BY <1>1, <3>1, <3>2 DEF IsChain
  <2>2. \A i \in 0 .. n - 1 : i \in 0 .. MaxFrames - 1
    BY <1>1, <1>2, SizesAssumption
  <2> QED
    BY <2>1, <2>2
<1>6. Cardinality(0 .. n - 1) = n
  BY <1>1, FS_Interval
<1>7. ChainLength(b) = n
  BY <1>3, <1>5, <1>6 DEF ChainLength
<1>8. \A i \in 1 .. n : b.body[v[i - 1]] = b.idx[i].uid
  <2> SUFFICES ASSUME NEW i \in 1 .. n PROVE b.body[v[i - 1]] = b.idx[i].uid
    OBVIOUS
  <2>1. i - 1 \in 0 .. MaxFrames /\ i - 1 + 1 = i
    BY <1>1, <1>2, SizesAssumption
  <2> QED
    BY <1>1, <1>4, <2>1 DEF Numbered
<1> QED
  BY <1>3, <1>7, <1>8 DEF Listed

(* The ids of a sound base, as a list.                                     *)
LEMMA ListedIs ==
  ASSUME NEW b, NEW hs, NEW n, Sound(b, hs, n), NEW l, l = Listed(b, n)
  PROVE  /\ n \in Nat /\ l \in Seq(Nat) /\ Len(l) = n
         /\ \A i \in 1 .. n : l[i] = b.idx[i].uid /\ 1 <= l[i] /\ l[i] < b.uidNext
         /\ \A i, j \in 1 .. n : i < j => l[i] < l[j]
         /\ b \in BaseType /\ Roomy(b) /\ b.max \in Nat /\ b.skip \in Nat
         /\ b.uidNext \in Nat
<1>1. PICK g, w, c, q, k :
        b \in BaseType /\ Alone(hs, g, w) /\ Shape(b, w, c, n, q, k)
  BY DEF Sound
<1>2. n \in Nat /\ Indexed(b, w, c, n) /\ Numbered(b, c, n) /\ Roomy(b)
  BY <1>1 DEF Shape, TwoChains, IsChain
<1>3. b.idx \in Seq(SQIDX) /\ Len(b.idx) \in Nat /\ b.num \in Int /\ b.max \in Nat
      /\ b.skip \in Nat /\ b.uidNext \in Nat
  BY <1>1, BaseFacts, SizesAssumption
<1>4. \A i \in 1 .. n : i \in 1 .. b.num /\ i \in 1 .. Len(b.idx)
  BY <1>2, <1>3 DEF Indexed
<1>5. \A i \in 1 .. n : b.idx[i].uid \in Nat
  <2>1. \A i \in 1 .. Len(b.idx) : b.idx[i] \in SQIDX
    BY <1>3
  <2> QED
    BY <1>4, <2>1, SizesAssumption DEF SQIDX, Uids, NoUid
<1>6. l \in [1 .. n -> Nat] /\ \A i \in 1 .. n : l[i] = b.idx[i].uid
  BY <1>5 DEF Listed
<1>7. l \in Seq(Nat) /\ Len(l) = n
  BY <1>2, <1>6
<1>8. \A i \in 1 .. n : 1 <= l[i] /\ l[i] < b.uidNext
  BY <1>2, <1>4, <1>6 DEF Numbered
<1>9. \A i, j \in 1 .. n : i < j => l[i] < l[j]
  BY <1>2, <1>4, <1>6 DEF Numbered
<1> QED
  BY <1>1, <1>2, <1>3, <1>6, <1>7, <1>8, <1>9

(* The ids a reader of the base sees are those the index lists.            *)
LEMMA StoredAreListed ==
  ASSUME NEW b, b = base, NEW hs, NEW n, Sound(b, hs, n)
  PROVE  StoredIds = Listed(b, n)
<1>1. PICK g, w, c, q, k :
        b \in BaseType /\ Alone(hs, g, w) /\ Shape(b, w, c, n, q, k)
  BY DEF Sound
<1>2. [i \in 1 .. ChainLength(b) |-> b.body[MsgWalk(b)[i - 1]]] = Listed(b, n)
  BY ONLY <1>1, ReaderSees
<1> QED
  BY <1>2 DEF StoredIds

(* The same, after the step.                                               *)
LEMMA StoredAreListedNext ==
  ASSUME NEW b, b = base', NEW hs, NEW n, Sound(b, hs, n)
  PROVE  StoredIds' = Listed(b, n)
<1>1. PICK g, w, c, q, k :
        b \in BaseType /\ Alone(hs, g, w) /\ Shape(b, w, c, n, q, k)
  BY DEF Sound
<1>2. [i \in 1 .. ChainLength(b) |-> b.body[MsgWalk(b)[i - 1]]] = Listed(b, n)
  BY ONLY <1>1, ReaderSees
<1> QED
  BY <1>2 DEF StoredIds

(* How many messages go when one is announced among n, and what then is    *)
(* left of the list l.                                                     *)
ExcessOf(n, max, skip) ==
  IF max = 0 \/ n < max \/ n <= skip THEN 0
  ELSE IF skip < max THEN n - max + 1 ELSE n - skip

(* l is the list of the n ids of b. *)
Lists(b, n, l) == \A i \in 1 .. n : l[i] = b.idx[i].uid

KilledAt(b, s, r, m) ==
  \A i \in 1 .. r : s.idx[i].uid = b.idx[IF i < m THEN i ELSE i + 1].uid

After(l, skip, d) == IF d = 0 THEN l ELSE Area!Without(l, skip, d)

(* What each kind of step does to the list of ids.                         *)
LEMMA ListAnnounced ==
  ASSUME NEW b, NEW n \in Nat, b.max \in Nat, b.skip \in Nat, Roomy(b),
         NEW l \in Seq(Nat), Len(l) = n, Lists(b, n, l),
         NEW s, NEW r \in Nat, Announces(b, n, s, r),
         NEW t \in Seq(Nat), Len(t) = r, Lists(s, r, t)
  PROVE  t = After(l, b.skip, ExcessOf(n, b.max, b.skip))
<1>1. PICK d \in Nat : d = Going(b) /\ r = n - d /\ b.num = n
  BY DEF Announces
<1>2. ExcessOf(n, b.max, b.skip) = d
  <2>1. CASE OverLimit(b)
    <3>1. d = n - b.max + 1 /\ b.max # 0 /\ n >= b.max /\ n > b.skip
      BY <1>1, <2>1 DEF Going, Surplus, OverLimit
    <3>2. b.skip < b.max
      BY <3>1 DEF Roomy
    <3> QED
      BY <3>1, <3>2 DEF ExcessOf
  <2>2. CASE ~ OverLimit(b)
    <3>1. d = 0 /\ (b.max = 0 \/ n < b.max \/ n <= b.skip)
      BY <1>1, <2>2 DEF Going, OverLimit
    <3> QED
      BY <3>1 DEF ExcessOf
  <2> QED
    BY <2>1, <2>2
<1>3. d = 0 \/ b.skip + d <= n
  <2>1. CASE OverLimit(b)
    <3>1. d = n - b.max + 1 /\ b.max # 0
      BY <1>1, <2>1 DEF Going, Surplus, OverLimit
    <3> QED
      BY <3>1 DEF Roomy
  <2>2. CASE ~ OverLimit(b)
    BY <1>1, <2>2 DEF Going
  <2> QED
    BY <2>1, <2>2
<1>4. ASSUME NEW i \in 1 .. r
      PROVE  s.idx[i].uid = IF i <= b.skip \/ d = 0 THEN b.idx[i].uid
                            ELSE b.idx[i + d].uid
  BY ONLY <1>1, Announces(b, n, s, r) DEF Announces
<1>5. \A i \in 1 .. r : i \in 1 .. n /\ i + d \in 1 .. n
  BY <1>1
<1>6. ASSUME NEW i \in 1 .. r
      PROVE  /\ i <= b.skip \/ d = 0 => t[i] = l[i]
             /\ ~ (i <= b.skip \/ d = 0) => t[i] = l[i + d]
  BY <1>4, <1>5 DEF Lists
<1>7. CASE d = 0
  <2>1. Len(t) = Len(l) /\ \A i \in 1 .. Len(t) : t[i] = l[i]
    BY <1>1, <1>6, <1>7
  <2>2. t = l
    BY ONLY l \in Seq(Nat), t \in Seq(Nat), <2>1, SeqEqual
  <2> QED
    BY <1>2, <1>7, <2>2 DEF After
<1>8. CASE d # 0
  <2>1. PICK k \in Nat : k = b.skip /\ k + d <= n
    BY <1>3, <1>8
  <2>2. \A i \in 1 .. r : t[i] = l[Past(i, k, d)]
    BY <1>6, <1>8, <2>1 DEF Past
  <2>4. Shortened(l, t, k, d)
    BY <2>2 DEF Shortened
  <2>3. t = Area!Without(l, k, d)
    BY ONLY n \in Nat, l \in Seq(Nat), Len(l) = n, r \in Nat, t \in Seq(Nat),
            Len(t) = r, <1>1, <2>1, <2>4, WithoutIs
  <2> QED
    BY <1>2, <1>8, <2>1, <2>3 DEF After
<1> QED
  BY <1>7, <1>8

(* A list with one more element at its end.                                *)
LEMMA ListStored ==
  ASSUME NEW n \in Nat, NEW l \in Seq(Nat), Len(l) = n,
         NEW t \in Seq(Nat), Len(t) = n + 1, \A i \in 1 .. n : t[i] = l[i]
  PROVE  t = Append(l, t[n + 1])
<1>1. PICK u : u = t[n + 1]
  OBVIOUS
<1>2. u \in Nat
  BY <1>1
<1>3. PICK a : a = Append(l, u)
  OBVIOUS
<1>4. /\ a \in Seq(Nat) /\ Len(a) = n + 1
      /\ \A i \in 1 .. n : a[i] = l[i]
      /\ a[n + 1] = u
  BY <1>2, <1>3, AppendProperties
<1>5. \A i \in 1 .. n + 1 : i \in 1 .. n \/ i = n + 1
  OBVIOUS
<1>6. \A i \in 1 .. Len(t) : t[i] = a[i]
  BY <1>1, <1>4, <1>5
<1>7. t = a
  BY <1>4, <1>6, SeqEqual
<1> QED
  BY <1>1, <1>3, <1>7

(* The list without message m.                                             *)
LEMMA ListKilled ==
  ASSUME NEW b, NEW n \in Nat,
         NEW l \in Seq(Nat), Len(l) = n, Lists(b, n, l),
         NEW s, NEW r \in Nat, r = n - 1, NEW m \in 1 .. n,
         KilledAt(b, s, r, m),
         NEW t \in Seq(Nat), Len(t) = r, Lists(s, r, t)
  PROVE  t = Area!Without(l, m - 1, 1)
<1>1. PICK k \in Nat : k = m - 1 /\ k + 1 <= n
  OBVIOUS
<1>2. ASSUME NEW i \in 1 .. r PROVE t[i] = l[Past(i, k, 1)]
  <2>1. (i < m <=> i <= k) /\ i \in 1 .. n /\ i + 1 \in 1 .. n
    BY <1>1
  <2>2. CASE i <= k
    BY <2>1, <2>2 DEF KilledAt, Past, Lists
  <2>3. CASE ~ (i <= k)
    BY <2>1, <2>3 DEF KilledAt, Past, Lists
  <2> QED
    BY <2>2, <2>3
<1>3. t = Area!Without(l, k, 1)
  <2>1. 1 \in Nat
    OBVIOUS
  <2>2. Shortened(l, t, k, 1)
    BY <1>2 DEF Shortened
  <2> QED
    BY ONLY n \in Nat, l \in Seq(Nat), Len(l) = n, r \in Nat, t \in Seq(Nat),
            Len(t) = r, r = n - 1, <1>1, <2>1, <2>2, WithoutIs
<1> QED
  BY <1>1, <1>3

(* What every call does to the list of messages is a step of a message     *)
(* area or none.                                                           *)
LEMMA MovesAreaWise ==
  ASSUME NEW n, Sound(base, handle, n), NEW r, Sound(base', handle', r),
         Moves(base, n, base', r)
  PROVE  [Area!Next]_Area!vars
<1>1. PICK b : b = base
  OBVIOUS
<1>2. PICK s : s = base'
  OBVIOUS
<1>3. PICK hs : hs = handle
  OBVIOUS
<1>4. PICK hz : hz = handle'
  OBVIOUS
<1>5. PICK l : l = Listed(b, n)
  OBVIOUS
<1>6. PICK t : t = Listed(s, r)
  OBVIOUS
<1>7. Sound(b, hs, n) /\ Sound(s, hz, r) /\ Moves(b, n, s, r)
  BY <1>1, <1>2, <1>3, <1>4
<1>8. /\ n \in Nat /\ l \in Seq(Nat) /\ Len(l) = n
      /\ Roomy(b) /\ b.max \in Nat /\ b.skip \in Nat /\ b.uidNext \in Nat
  BY <1>5, <1>7, ListedIs
<1>9. /\ r \in Nat /\ t \in Seq(Nat) /\ Len(t) = r
      /\ s.max \in Nat /\ s.skip \in Nat
  BY <1>6, <1>7, ListedIs
<1>81. Lists(b, n, l)
  BY <1>5, <1>7, ListedIs DEF Lists
<1>91. Lists(s, r, t)
  BY <1>6, <1>7, ListedIs DEF Lists
<1>10. /\ \A i \in 1 .. r : 1 <= t[i] /\ t[i] < s.uidNext
       /\ \A i, j \in 1 .. r : i < j => t[i] < t[j]
  BY <1>6, <1>7, ListedIs
<1>11. StoredIds = l
  BY <1>1, <1>5, <1>7, StoredAreListed
<1>12. StoredIds' = t
  BY <1>2, <1>6, <1>7, StoredAreListedNext
<1>13. CASE Announces(b, n, s, r)
  <2>1. t = After(l, b.skip, ExcessOf(n, b.max, b.skip))
    BY ONLY <1>8, <1>81, <1>9, <1>91, <1>13, ListAnnounced
  <2>2. Area!Excess = ExcessOf(n, b.max, b.skip)
    <3>1. Area!Excess = ExcessOf(Len(StoredIds), base.max, base.skip)
      BY DEF Area!Excess, ExcessOf
    <3> QED
      BY <1>1, <1>8, <1>11, <3>1
  <2>3. s.uidNext = b.uidNext + 1 /\ s.max = b.max /\ s.skip = b.skip
    BY <1>13 DEF Announces
  <2>4. Area!Announce
    <3>1. StoredIds' = After(StoredIds, base.skip, Area!Excess)
      BY <1>1, <1>11, <1>12, <2>1, <2>2
    <3>2. base'.uidNext = base.uidNext + 1 /\ base'.max = base.max
          /\ base'.skip = base.skip
      BY <1>1, <1>2, <2>3
    <3> QED
      BY <3>1, <3>2 DEF Area!Announce, After
  <2> QED
    BY <2>4 DEF Area!Next
<1>14. CASE Stores(b, n, s, r)
  <2>1. /\ r = n + 1 /\ \A i \in 1 .. n : s.idx[i].uid = b.idx[i].uid
        /\ s.uidNext = b.uidNext /\ s.max = b.max /\ s.skip = b.skip
    BY <1>14 DEF Stores
  <2>2. n + 1 \in 1 .. r /\ \A i \in 1 .. n : i \in 1 .. r /\ i < n + 1
    BY <1>8, <2>1
  <2>3. PICK u \in Nat : u = t[n + 1] /\ 1 <= u /\ u < b.uidNext
    <3>1. t[n + 1] \in Nat
      BY <1>9, <2>2
    <3> QED
      BY <1>10, <2>1, <2>2, <3>1
  <2>4. \A i \in 1 .. n : t[i] = l[i]
    BY <1>8, <1>81, <1>9, <1>91, <2>1, <2>2 DEF Lists
  <2>5. \A i \in 1 .. n : l[i] < u
    BY <1>10, <2>2, <2>3, <2>4
  <2>6. t = Append(l, u)
    <3>1. Len(t) = n + 1
      BY <1>9, <2>1
    <3>2. t = Append(l, t[n + 1])
      BY <1>8, <1>9, <2>4, <3>1, ListStored
    <3> QED
      BY <2>3, <3>2
  <2>7. u \in 1 .. base.uidNext - 1
    BY <1>1, <1>8, <2>3
  <2>8. Area!Store(u)
    <3>1. \A i \in 1 .. Len(StoredIds) : StoredIds[i] < u
      BY <1>8, <1>11, <2>5
    <3>2. StoredIds' = Append(StoredIds, u)
      BY <1>11, <1>12, <2>6
    <3>3. base'.uidNext = base.uidNext /\ base'.max = base.max
          /\ base'.skip = base.skip
      BY <1>1, <1>2, <2>1
    <3> QED
      BY <3>1, <3>2, <3>3 DEF Area!Store
  <2> QED
    BY <2>7, <2>8 DEF Area!Next
<1>15. CASE Kills(b, n, s, r)
  <2>1. /\ r = n - 1
        /\ s.uidNext = b.uidNext /\ s.max = b.max /\ s.skip = b.skip
    BY <1>15 DEF Kills
  <2>2. PICK m \in 1 .. n : KilledAt(b, s, r, m)
    BY <1>15 DEF Kills, KilledAt
  <2>3. t = Area!Without(l, m - 1, 1)
    BY ONLY <1>8, <1>81, <1>9, <1>91, <2>1, <2>2, ListKilled
  <2>4. Area!Kill(m)
    <3>1. StoredIds' = Area!Without(StoredIds, m - 1, 1)
      BY <1>11, <1>12, <2>3
    <3>2. base'.uidNext = base.uidNext /\ base'.max = base.max
          /\ base'.skip = base.skip
      BY <1>1, <1>2, <2>1
    <3> QED
      BY <3>1, <3>2 DEF Area!Kill
  <2>5. m \in 1 .. Len(StoredIds)
    BY <1>8, <1>11
  <2> QED
    BY <2>4, <2>5 DEF Area!Next
<1>16. CASE Keeps(b, n, s, r)
  <2>1. r = n /\ (\A i \in 1 .. n : s.idx[i].uid = b.idx[i].uid)
        /\ s.uidNext = b.uidNext
    BY <1>16 DEF Keeps
  <2>2. Len(t) = Len(l) /\ \A i \in 1 .. Len(t) : t[i] = l[i]
    BY <1>8, <1>81, <1>9, <1>91, <2>1 DEF Lists
  <2>3. t = l
    BY <1>8, <1>9, <2>2, SeqEqual
  <2>4. Area!SetLimit
    <3>1. StoredIds' = StoredIds
      BY <1>11, <1>12, <2>3
    <3>2. base'.uidNext = base.uidNext /\ base'.max \in Nat /\ base'.skip \in Nat
      BY <1>1, <1>2, <1>9, <2>1
    <3> QED
      BY <3>1, <3>2 DEF Area!SetLimit
  <2> QED
    BY <2>4 DEF Area!Next
<1> QED
  BY <1>7, <1>13, <1>14, <1>15, <1>16 DEF Moves

(* A base that has just been created is a message area without messages.   *)
LEMMA InitIsEmpty == ASSUME Init PROVE Area!Init
<1>1. PICK b : b = base
  OBVIOUS
<1>2. PICK hs : hs = handle
  OBVIOUS
<1>3. PICK l : l = Listed(b, 0)
  OBVIOUS
<1>4. Sound(b, hs, 0)
  BY <1>1, <1>2, InitIsSound
<1>5. l \in Seq(Nat) /\ Len(l) = 0
  BY <1>3, <1>4, ListedIs
<1>6. StoredIds = l
  BY <1>1, <1>3, <1>4, StoredAreListed
<1>7. l = << >>
  BY <1>5, EmptySeq
<1>8. base.uidNext = 1 /\ base.max = 0 /\ base.skip = 0
  BY DEF Init
<1> QED
  BY <1>6, <1>7, <1>8 DEF Area!Init

(* A Squish base is a message area: seen through the message chain its     *)
(* calls store, kill and drop messages and do nothing else to the list,    *)
(* whatever frames they reuse and in whatever order they mend links,       *)
(* index, cursor and header (sq_write.c 67-398, sq_kill.c 63-92, sq_msg.c  *)
(* 327-432).                                                               *)
THEOREM ImplementsArea == ASSUME Careful PROVE Spec => AreaSpec
<1>1. Init => Area!Init
  BY InitIsEmpty
<1>2. IInv /\ [Next]_vars => [Area!Next]_Area!vars
  <2> SUFFICES ASSUME IInv, [Next]_vars PROVE [Area!Next]_Area!vars
    OBVIOUS
  <2>1. PICK n : Sound(base, handle, n)
    BY DEF IInv
  <2>2. GoesTo(n)
    BY <2>1, NextGoesTo, StutterGoesTo
  <2> QED
    BY <2>1, <2>2, MovesAreaWise DEF GoesTo
<1>3. Spec => []IInv
  BY Inductive
<1> QED
  BY <1>1, <1>2, <1>3, PTL DEF Spec, AreaSpec, Area!Spec

(* No kill and no dropped message makes the mark cover a message it did    *)
(* not cover (sq_help.c 329-333, sq_msg.c 409-429).                        *)
THEOREM MarkIsKept == ASSUME Careful PROVE Spec => MarkNeverSkipsAhead
<1>1. ASSUME IInv, [Next]_vars
      PROVE  [\/ \A i \in 1 .. base'.num :
                   base'.idx[i].uid <= base'.hwm => base'.idx[i].uid <= base.hwm
              \/ \E m \in 0 .. base.num : SetHighWater(m)]_vars
  <2>1. PICK n : Sound(base, handle, n)
    BY <1>1 DEF IInv
  <2>2. GoesTo(n)
    BY <1>1, <2>1, NextGoesTo, StutterGoesTo
  <2>3. CASE \E m \in 0 .. base.num : SetHighWater(m)
    BY <2>3
  <2>4. CASE base'.hwm <= base.hwm
    <3>1. PICK b : b = base
      OBVIOUS
    <3>2. PICK s : s = base'
      OBVIOUS
    <3>3. b \in BaseType /\ s \in BaseType
      BY <2>1, <2>2, <3>1, <3>2 DEF GoesTo, Sound
    <3>4. PICK r, g, w, c, q, k : Alone(handle', g, w) /\ Shape(s, w, c, r, q, k)
      BY <2>2, <3>2 DEF GoesTo, Sound
    <3>5. Len(s.idx) \in Nat /\ s.num <= Len(s.idx) /\ s.num \in Int
      BY <3>3, <3>4, BaseFacts DEF Shape, Indexed
    <3>6. ASSUME NEW i \in 1 .. s.num, s.idx[i].uid <= s.hwm
          PROVE  s.idx[i].uid <= b.hwm
      <4>1. i \in 1 .. Len(s.idx) /\ s.idx \in Seq(SQIDX)
        BY <3>3, <3>5, BaseFacts
      <4>2. s.idx[i] \in SQIDX
        BY <4>1
      <4>3. s.idx[i].uid \in Nat
        BY <4>2, SizesAssumption DEF SQIDX, Uids, NoUid
      <4>4. s.hwm <= b.hwm /\ s.hwm \in Nat /\ b.hwm \in Nat
        BY <2>4, <3>1, <3>2, <3>3, BaseFacts
      <4> QED
        BY <3>6, <4>3, <4>4
    <3> QED
      BY <3>1, <3>2, <3>6
  <2> QED
    BY <2>2, <2>3, <2>4 DEF GoesTo
<1>2. Spec => []IInv
  BY Inductive
<1> QED
  BY <1>1, <1>2, PTL DEF Spec, MarkNeverSkipsAhead

(* Every field of the base and of the handles keeps to its type.           *)
THEOREM BaseIsTyped == ASSUME Careful PROVE Spec => []TypeOK
<1>1. IInv => TypeOK
  BY SoundIsTyped
<1>2. Spec => []IInv
  BY Inductive
<1> QED
  BY <1>1, <1>2, PTL

(* The index and the message chain visit the same frames in the same       *)
(* order, with every link in place, between any two calls.                 *)
THEOREM ChainAlwaysMatchesIndex == ASSUME Careful PROVE Spec => []ChainMatchesIndex
<1>1. IInv => ChainMatchesIndex
  BY SoundChain
<1>2. Spec => []IInv
  BY Inductive
<1> QED
  BY <1>1, <1>2, PTL

(* The free chain runs through every free frame, forwards and backwards:   *)
(* the search for a frame never refuses it as damaged (sq_write.c 84-98).  *)
THEOREM FreeChainAlwaysSound == ASSUME Careful PROVE Spec => []FreeChainSound
<1>1. IInv => FreeChainSound
  BY SoundFree
<1>2. Spec => []IInv
  BY Inductive
<1> QED
  BY <1>1, <1>2, PTL

(* No frame is ever lost and none is ever in both chains.                  *)
THEOREM NoFrameEverLost == ASSUME Careful PROVE Spec => []NoFrameLost
<1>1. IInv => NoFrameLost
  BY SoundNoFrameLost
<1>2. Spec => []IInv
  BY Inductive
<1> QED
  BY <1>1, <1>2, PTL

(* The cursor's shortcut finds the frame the index would have given.       *)
THEOREM CursorAlwaysMatchesIndex == ASSUME Careful PROVE Spec => []CursorMatchesIndex
<1>1. IInv => CursorMatchesIndex
  BY SoundCursor
<1>2. Spec => []IInv
  BY Inductive
<1> QED
  BY <1>1, <1>2, PTL

(* Ids grow along the index, stay below the next one, and are those in the *)
(* frames: what UidToMsgn's search and the rebuilding of an index need.    *)
THEOREM UidsAlwaysAgree == ASSUME Careful PROVE Spec => []UidsAgree
<1>1. IInv => UidsAgree
  BY SoundUids
<1>2. Spec => []IInv
  BY Inductive
<1> QED
  BY <1>1, <1>2, PTL

=============================================================================
