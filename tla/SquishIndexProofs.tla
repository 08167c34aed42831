-------------------------- MODULE SquishIndexProofs --------------------------
(* Proofs about SquishIndex: for the process that has the area open, the   *)
(* segments of its buffer, the range it writes back and the file are       *)
(* together one list of records, the messages with nothing behind them     *)
(* that names a frame, and every call is a step of such a list.            *)
EXTENDS SquishIndex, Recursion, SequenceTheorems

---------------------------------------------------------------------------
(**************************************************************************)
(* Lists of lists.  FlattenSeq is recursive; a chain, the sequence of its  *)
(* intermediate results, says the same without recursion.                  *)
(**************************************************************************)
(* Member i of g is what the first i of the sequences s are together.      *)
Chained(g, s, S) ==
  /\ g \in [0 .. Len(s) -> Seq(S)] /\ g[0] = <<>>
  /\ \A i \in 1 .. Len(s) : g[i] = g[i - 1] \o s[i]

(* Every list of sequences has a chain.                                    *)
LEMMA ChainExists ==
  ASSUME NEW S, NEW s \in Seq(Seq(S))
  PROVE  \E g : Chained(g, s, S)
<1>1. PICK n \in Nat : n = Len(s)
  OBVIOUS
<1>2. PICK st : st = [i \in 1 .. n |-> [p \in Seq(S) |-> p \o s[i]]]
  OBVIOUS
<1>3. \A i \in 1 .. n : s[i] \in Seq(S)
  BY <1>1
<1>4. st \in StepsIn(n, Seq(S))
  BY <1>2, <1>3 DEF StepsIn
<1>5. <<>> \in Seq(S)
  OBVIOUS
<1>6. PICK g : g \in [0 .. n -> Seq(S)] /\ Runs(g, n, <<>>, st)
  BY <1>4, <1>5, RecursiveFunction
<1>7. \A i \in 1 .. n : i - 1 \in 0 .. n
  BY <1>1
<1>8. \A i \in 1 .. n : g[i] = g[i - 1] \o s[i]
  BY <1>2, <1>6, <1>7 DEF Runs
<1> QED
  BY <1>1, <1>6, <1>8 DEF Chained, Runs

(* The recursive function that FlattenSeq takes the last value of.         *)
Flattening(s, f) ==
  [i \in 1 .. Len(s) |-> IF i = 1 THEN s[i] ELSE f[i - 1] \o s[i]]

(* FlattenSeq takes the last value of such a function.                     *)
LEMMA FlattenIsRecursive ==
  ASSUME NEW s, Len(s) # 0, NEW g, g = Flattening(s, g)
  PROVE  \E f : f = Flattening(s, f) /\ FlattenSeq(s) = f[Len(s)]
<1> DEFINE f == CHOOSE e : e = Flattening(s, e)
<1>1. f = Flattening(s, f)
  BY Zenon
<1>2. FlattenSeq(s) = f[Len(s)]
  BY Zenon DEF FlattenSeq, Flattening
<1> QED
  BY <1>1, <1>2

(* FlattenSeq is the last member.                                          *)
LEMMA FlattenIs ==
  ASSUME NEW S, NEW s \in Seq(Seq(S)), NEW g, Chained(g, s, S)
  PROVE  FlattenSeq(s) = g[Len(s)] /\ FlattenSeq(s) \in Seq(S)
<1>1. PICK n \in Nat : n = Len(s)
  OBVIOUS
<1>2. /\ g \in [0 .. n -> Seq(S)] /\ g[0] = <<>>
      /\ \A i \in 1 .. n : g[i] = g[i - 1] \o s[i]
  BY <1>1 DEF Chained
<1>3. \A i \in 1 .. n : s[i] \in Seq(S)
  BY <1>1
<1>4. 1 \in 1 .. n => g[1] = s[1]
  <2> SUFFICES ASSUME 1 \in 1 .. n PROVE g[1] = s[1]
    OBVIOUS
  <2>1. g[1] = <<>> \o s[1]
    <3>1. PICK j \in 1 .. n : j = 1
      OBVIOUS
    <3>2. j - 1 = 0
      BY <3>1
    <3>3. g[j] = g[j - 1] \o s[j]
      BY ONLY <1>2
    <3> QED
      BY ONLY <1>2, <3>1, <3>2, <3>3
  <2>2. s[1] \in Seq(S)
    BY <1>3
  <2>3. <<>> \o s[1] = s[1]
    BY ONLY <2>2, ConcatEmptySeq
  <2> QED
    BY ONLY <2>1, <2>3
<1>5. CASE n = 0
  <2>1. s = <<>> /\ FlattenSeq(s) = s
    BY <1>1, <1>5, EmptySeq DEF FlattenSeq
  <2>2. <<>> \in Seq(S) /\ g[Len(s)] = <<>>
    BY <1>1, <1>2, <1>5, EmptySeq
  <2> QED
    BY ONLY <2>1, <2>2
<1>6. CASE n # 0
  <2> DEFINE e == [i \in 1 .. n |-> g[i]]
  <2>1. e = Flattening(s, e)
    <3>1. ASSUME NEW i \in 1 .. n
          PROVE  e[i] = IF i = 1 THEN s[i] ELSE e[i - 1] \o s[i]
      <4>1. CASE i = 1
        BY <1>4, <4>1
      <4>2. CASE i # 1
        <5>1. i - 1 \in 1 .. n
          BY <4>2
        <5> QED
          BY <1>2, <4>2, <5>1
      <4> QED
        BY <4>1, <4>2
    <3> HIDE DEF e
    <3>2. e = [i \in 1 .. n |-> IF i = 1 THEN s[i] ELSE e[i - 1] \o s[i]]
      <4>1. e \in [1 .. n -> Seq(S)]
        BY <1>2 DEF e
      <4> QED
        BY <3>1, <4>1
    <3> QED
      BY <1>1, <3>2 DEF Flattening
  <2> HIDE DEF e
  <2>2. PICK f : f = Flattening(s, f) /\ FlattenSeq(s) = f[Len(s)]
    BY <1>1, <1>6, <2>1, FlattenIsRecursive
  <2>3. \A i \in 1 .. n : f[i] = IF i = 1 THEN s[i] ELSE f[i - 1] \o s[i]
    BY <1>1, <2>2 DEF Flattening
  <2> DEFINE T == {i \in 0 .. n : i # 0 => f[i] = g[i]}
  <2>4. 0 \in T
    OBVIOUS
  <2>5. ASSUME NEW i \in 0 .. n - 1, i \in T PROVE i + 1 \in T
    <3>1. i + 1 \in 1 .. n /\ i + 1 \in 0 .. n /\ i + 1 # 0
      OBVIOUS
    <3>2. CASE i = 0
      <4>1. i + 1 = 1 /\ f[1] = s[1]
        BY <2>3, <3>1, <3>2
      <4> QED
        BY <1>4, <3>1, <4>1
    <3>3. CASE i # 0
      <4>1. i + 1 # 1 /\ (i + 1) - 1 = i /\ f[i] = g[i]
        BY <2>5, <3>3
      <4>2. f[i + 1] = f[(i + 1) - 1] \o s[i + 1]
        BY ONLY <2>3, <3>1, <4>1
      <4>3. g[i + 1] = g[(i + 1) - 1] \o s[i + 1]
        BY ONLY <1>2, <3>1
      <4>4. f[i + 1] = g[i + 1]
        BY ONLY <4>1, <4>2, <4>3
      <4> QED
        BY ONLY <3>1, <4>4 DEF T
    <3> QED
      BY <3>2, <3>3
  <2> HIDE DEF T
  <2>6. \A i \in 0 .. n : i \in T
    BY <2>4, <2>5, InductionUpTo
  <2>7. f[n] = g[n]
    BY <1>6, <2>6 DEF T
  <2> QED
    BY <1>1, <1>2, <2>2, <2>7
<1> QED
  BY <1>5, <1>6

(* What precedes a sequence of the list is the member before it.           *)
LEMMA PrefixIs ==
  ASSUME NEW S, NEW s \in Seq(Seq(S)), NEW g, Chained(g, s, S),
         NEW i \in 1 .. Len(s)
  PROVE  FlattenSeq(SubSeq(s, 1, i - 1)) = g[i - 1]
<1>1. PICK n \in Nat : n = Len(s)
  OBVIOUS
<1>2. PICK k \in Nat : k = i - 1
  OBVIOUS
<1>3. /\ g \in [0 .. n -> Seq(S)] /\ g[0] = <<>>
      /\ \A j \in 1 .. n : g[j] = g[j - 1] \o s[j]
  BY <1>1 DEF Chained
<1>4. PICK t : t = SubSeq(s, 1, k)
  OBVIOUS
<1>5. k <= n
  BY <1>1, <1>2
<1>6. \A j \in 1 .. k : s[j] \in Seq(S)
  BY <1>1, <1>5
<1>7. /\ t \in Seq(Seq(S)) /\ Len(t) = k
      /\ \A j \in 1 .. k : t[j] = s[j]
  <2>1. 1 \in Int /\ k \in Int
    OBVIOUS
  <2>2. /\ SubSeq(s, 1, k) \in Seq(Seq(S))
        /\ Len(SubSeq(s, 1, k)) = IF 1 <= k THEN k - 1 + 1 ELSE 0
        /\ \A j \in 1 .. k - 1 + 1 : SubSeq(s, 1, k)[j] = s[1 + j - 1]
    BY ONLY <1>6, <2>1, SubSeqProperties
  <2>3. (IF 1 <= k THEN k - 1 + 1 ELSE 0) = k
    OBVIOUS
  <2>4. \A j \in 1 .. k : 1 + j - 1 = j /\ j \in 1 .. k - 1 + 1
    OBVIOUS
  <2> QED
    BY <1>4, <2>2, <2>3, <2>4
<1>8. PICK e : e = [j \in 0 .. k |-> g[j]]
  OBVIOUS
<1>9. Chained(e, t, S)
  <2>1. \A j \in 0 .. k : j \in 0 .. n
    BY <1>5
  <2>2. \A j \in 1 .. k : j - 1 \in 0 .. k /\ j \in 0 .. k /\ j \in 1 .. n
    BY <1>5
  <2>3. e \in [0 .. k -> Seq(S)] /\ e[0] = <<>>
    <3>1. \A j \in 0 .. k : g[j] \in Seq(S)
      BY <1>3, <2>1
    <3>2. e \in [0 .. k -> Seq(S)]
      BY ONLY <1>8, <3>1
    <3>3. 0 \in 0 .. k
      OBVIOUS
    <3>4. e[0] = <<>>
      BY ONLY <1>3, <1>8, <3>3
    <3> QED
      BY ONLY <3>2, <3>4
  <2>4. \A j \in 1 .. k : e[j] = e[j - 1] \o t[j]
    <3> SUFFICES ASSUME NEW j \in 1 .. k PROVE e[j] = e[j - 1] \o t[j]
      OBVIOUS
    <3>1. e[j] = g[j] /\ e[j - 1] = g[j - 1]
      BY <1>8, <2>2
    <3>2. g[j] = g[j - 1] \o s[j] /\ t[j] = s[j]
      BY <1>3, <1>7, <2>2
    <3> QED
      BY ONLY <3>1, <3>2
  <2> QED
    BY <1>7, <2>3, <2>4 DEF Chained
<1>10. FlattenSeq(t) = e[k]
  BY <1>7, <1>9, FlattenIs
<1> QED
  BY <1>2, <1>4, <1>8, <1>10

---------------------------------------------------------------------------
(**************************************************************************)
(* Removing, storing and appending in the second of two lists.             *)
(**************************************************************************)
(* List q is list a without its element n.                                 *)
Missing(q, a, n) ==
  /\ Len(q) = Len(a) - 1
  /\ \A i \in 1 .. Len(q) : q[i] = IF i < n THEN a[i] ELSE a[i + 1]

(* RemoveAt takes one element out and moves the later ones down.           *)
LEMMA RemoveAtIs ==
  ASSUME NEW S, NEW a \in Seq(S), NEW n \in 1 .. Len(a), NEW q, q = RemoveAt(a, n)
  PROVE  q \in Seq(S) /\ Missing(q, a, n)
<1>1. PICK m \in Nat : m = Len(a)
  OBVIOUS
<1>2. PICK b : b = SubSeq(a, 1, n - 1)
  OBVIOUS
<1>3. PICK c : c = SubSeq(a, n + 1, m)
  OBVIOUS
<1>4. \A i \in 1 .. m : a[i] \in S
  BY <1>1
<1>5. n \in Int /\ 1 <= n /\ n <= m /\ m \in Int
  BY <1>1
<1>6. /\ b \in Seq(S) /\ Len(b) = n - 1
      /\ \A i \in 1 .. n - 1 : b[i] = a[i]
  <2>1. \A i \in 1 .. n - 1 : a[i] \in S
    BY ONLY <1>4, <1>5
  <2>2. 1 \in Int /\ n - 1 \in Int
    BY <1>5
  <2>3. /\ SubSeq(a, 1, n - 1) \in Seq(S)
        /\ Len(SubSeq(a, 1, n - 1)) = IF 1 <= n - 1 THEN (n - 1) - 1 + 1 ELSE 0
        /\ \A i \in 1 .. (n - 1) - 1 + 1 : SubSeq(a, 1, n - 1)[i] = a[1 + i - 1]
    BY ONLY <2>1, <2>2, SubSeqProperties
  <2>4. (IF 1 <= n - 1 THEN (n - 1) - 1 + 1 ELSE 0) = n - 1
    BY ONLY <1>5
  <2>5. \A i \in 1 .. n - 1 : 1 + i - 1 = i /\ i \in 1 .. (n - 1) - 1 + 1
    BY ONLY <1>5
  <2> QED
    BY ONLY <1>2, <2>3, <2>4, <2>5
<1>7. /\ c \in Seq(S) /\ Len(c) = m - n
      /\ \A i \in 1 .. m - n : c[i] = a[n + i]
  <2>1. \A i \in n + 1 .. m : a[i] \in S
    BY ONLY <1>4, <1>5
  <2>2. n + 1 \in Int
    BY <1>5
  <2>3. /\ SubSeq(a, n + 1, m) \in Seq(S)
        /\ Len(SubSeq(a, n + 1, m)) = IF n + 1 <= m THEN m - (n + 1) + 1 ELSE 0
        /\ \A i \in 1 .. m - (n + 1) + 1 : SubSeq(a, n + 1, m)[i] = a[(n + 1) + i - 1]
    BY ONLY <1>5, <2>1, <2>2, SubSeqProperties
  <2>4. (IF n + 1 <= m THEN m - (n + 1) + 1 ELSE 0) = m - n
    BY ONLY <1>5
  <2>5. \A i \in 1 .. m - n : (n + 1) + i - 1 = n + i /\ i \in 1 .. m - (n + 1) + 1
    BY ONLY <1>5
  <2> QED
    BY ONLY <1>3, <2>3, <2>4, <2>5
<1>8. q = b \o c
  BY <1>1, <1>2, <1>3 DEF RemoveAt
<1>9. /\ b \o c \in Seq(S) /\ Len(b \o c) = Len(b) + Len(c)
      /\ \A i \in 1 .. Len(b) + Len(c) :
           (b \o c)[i] = IF i <= Len(b) THEN b[i] ELSE c[i - Len(b)]
  BY ONLY <1>6, <1>7, ConcatProperties
<1>10. q \in Seq(S) /\ Len(q) = m - 1
  BY ONLY <1>5, <1>6, <1>7, <1>8, <1>9
<1>11. ASSUME NEW i \in 1 .. m - 1
       PROVE  q[i] = IF i < n THEN a[i] ELSE a[i + 1]
  <2>1. i \in 1 .. Len(b) + Len(c)
    BY <1>5, <1>6, <1>7
  <2>2. q[i] = IF i <= n - 1 THEN b[i] ELSE c[i - (n - 1)]
    BY ONLY <1>6, <1>8, <1>9, <2>1
  <2>3. CASE i < n
    <3>1. i <= n - 1 /\ i \in 1 .. n - 1
      BY <1>5, <2>3
    <3> QED
      BY ONLY <1>6, <2>2, <2>3, <3>1
  <2>4. CASE ~ (i < n)
    <3>1. PICK j \in 1 .. m - n : j = i - (n - 1)
      BY <1>5, <2>4
    <3>2. ~ (i <= n - 1) /\ n + j = i + 1
      BY <1>5, <2>4, <3>1
    <3> QED
      BY ONLY <1>7, <2>2, <2>4, <3>1, <3>2
  <2> QED
    BY <2>3, <2>4
<1> QED
  BY ONLY <1>1, <1>10, <1>11 DEF Missing

(* A list is determined by that.                                           *)
LEMMA MissingIsUnique ==
  ASSUME NEW S, NEW a, NEW n, NEW p \in Seq(S), NEW q \in Seq(S),
         Missing(p, a, n), Missing(q, a, n)
  PROVE  p = q
<1>1. Len(p) = Len(q) /\ \A i \in 1 .. Len(p) : p[i] = q[i]
  BY DEF Missing
<1> QED
  BY ONLY <1>1, p \in Seq(S), q \in Seq(S), SeqEqual

(* Removing from two lists put together.                                   *)
LEMMA RemoveInFirst ==
  ASSUME NEW S, NEW a \in Seq(S), NEW b \in Seq(S), NEW n \in 1 .. Len(a)
  PROVE  RemoveAt(a \o b, n) = RemoveAt(a, n) \o b
<1>1. PICK c \in Seq(S) : c = a \o b
  BY ConcatProperties
<1>2. PICK d : d = RemoveAt(a, n)
  OBVIOUS
<1>3. PICK q : q = RemoveAt(c, n)
  OBVIOUS
<1>4. PICK k \in Nat : k = Len(a)
  OBVIOUS
<1>16. PICK m \in Nat : m = Len(b)
  OBVIOUS
<1>5. Len(c) = k + m /\ \A i \in 1 .. k + m : c[i] = IF i <= k THEN a[i] ELSE b[i - k]
  BY ONLY <1>1, <1>4, <1>16, a \in Seq(S), b \in Seq(S), ConcatProperties
<1>6. d \in Seq(S) /\ Missing(d, a, n)
  BY <1>2, RemoveAtIs
<1>7. n \in 1 .. Len(c) /\ n \in 1 .. k
  BY <1>4, <1>16, <1>5
<1>8. q \in Seq(S) /\ Missing(q, c, n)
  BY <1>3, <1>7, RemoveAtIs
<1>9. Len(d) = k - 1 /\ k - 1 \in Nat
  BY <1>4, <1>16, <1>6, <1>7 DEF Missing
<1>10. /\ d \o b \in Seq(S) /\ Len(d \o b) = k - 1 + m
       /\ \A i \in 1 .. k - 1 + m :
            (d \o b)[i] = IF i <= k - 1 THEN d[i] ELSE b[i - (k - 1)]
  <2>1. /\ d \o b \in Seq(S) /\ Len(d \o b) = Len(d) + Len(b)
        /\ \A i \in 1 .. Len(d) + Len(b) :
             (d \o b)[i] = IF i <= Len(d) THEN d[i] ELSE b[i - Len(d)]
    BY ONLY <1>6, b \in Seq(S), ConcatProperties
  <2>2. Len(d) = k - 1 /\ Len(b) = m
    BY ONLY <1>4, <1>16, <1>6, <1>9, b \in Seq(S)
  <2> QED
    BY ONLY <1>9, <2>1, <2>2
<1>11. PICK e \in Seq(S) : e = d \o b
  BY <1>10
<1>12. Len(e) = Len(c) - 1
  BY <1>5, <1>10, <1>11
<1>13. ASSUME NEW i \in 1 .. Len(e)
       PROVE  e[i] = IF i < n THEN c[i] ELSE c[i + 1]
  <2>1. i \in 1 .. k - 1 + m /\ i \in 1 .. k + m /\ i + 1 \in 1 .. k + m
    BY <1>9, <1>10, <1>11
  <2>2. CASE i <= k - 1
    <3>1. e[i] = d[i] /\ i \in 1 .. Len(d)
      BY <1>9, <1>10, <1>11, <2>1, <2>2
    <3>2. d[i] = IF i < n THEN a[i] ELSE a[i + 1]
      BY ONLY <1>6, <3>1 DEF Missing
    <3>3. i <= k /\ i + 1 <= k
      BY <2>2
    <3>4. c[i] = a[i] /\ c[i + 1] = a[i + 1]
      BY ONLY <1>5, <2>1, <3>3
    <3> QED
      BY ONLY <3>1, <3>2, <3>4
  <2>3. CASE ~ (i <= k - 1)
    <3>1. e[i] = b[i - (k - 1)]
      BY ONLY <1>10, <1>11, <2>1, <2>3
    <3>2. ~ (i < n) /\ ~ (i + 1 <= k) /\ i - (k - 1) = (i + 1) - k
      BY <1>7, <2>3
    <3>3. c[i + 1] = b[(i + 1) - k]
      BY ONLY <1>5, <2>1, <3>2
    <3> QED
      BY ONLY <3>1, <3>2, <3>3
  <2> QED
    BY <2>2, <2>3
<1>14. Missing(e, c, n)
  BY ONLY <1>12, <1>13 DEF Missing
<1>15. e = q
  BY ONLY <1>8, <1>11, <1>14, MissingIsUnique
<1> QED
  BY ONLY <1>1, <1>2, <1>3, <1>11, <1>15

(* Removing an element of the second of two lists removes it from both     *)
(* together.                                                               *)
LEMMA RemoveInSecond ==
  ASSUME NEW S, NEW a \in Seq(S), NEW b \in Seq(S), NEW n \in 1 .. Len(b)
  PROVE  RemoveAt(a \o b, Len(a) + n) = a \o RemoveAt(b, n)
<1>1. PICK c \in Seq(S) : c = a \o b
  BY ConcatProperties
<1>2. PICK d : d = RemoveAt(b, n)
  OBVIOUS
<1>4. PICK k \in Nat : k = Len(a)
  OBVIOUS
<1>16. PICK m \in Nat : m = Len(b)
  OBVIOUS
<1>3. PICK q : q = RemoveAt(c, k + n)
  OBVIOUS
<1>5. Len(c) = k + m /\ \A i \in 1 .. k + m : c[i] = IF i <= k THEN a[i] ELSE b[i - k]
  BY ONLY <1>1, <1>4, <1>16, a \in Seq(S), b \in Seq(S), ConcatProperties
<1>6. d \in Seq(S) /\ Missing(d, b, n)
  BY <1>2, RemoveAtIs
<1>7. k + n \in 1 .. Len(c) /\ n \in 1 .. m
  BY <1>4, <1>16, <1>5
<1>8. q \in Seq(S) /\ Missing(q, c, k + n)
  BY <1>3, <1>7, RemoveAtIs
<1>9. Len(d) = m - 1 /\ m - 1 \in Nat
  BY <1>4, <1>16, <1>6, <1>7 DEF Missing
<1>10. /\ a \o d \in Seq(S) /\ Len(a \o d) = k + (m - 1)
       /\ \A i \in 1 .. k + (m - 1) :
            (a \o d)[i] = IF i <= k THEN a[i] ELSE d[i - k]
  <2>1. /\ a \o d \in Seq(S) /\ Len(a \o d) = Len(a) + Len(d)
        /\ \A i \in 1 .. Len(a) + Len(d) :
             (a \o d)[i] = IF i <= Len(a) THEN a[i] ELSE d[i - Len(a)]
    BY ONLY <1>6, a \in Seq(S), ConcatProperties
  <2>2. Len(a) = k /\ Len(d) = m - 1
    BY ONLY <1>4, <1>16, <1>6, <1>9, a \in Seq(S)
  <2> QED
    BY ONLY <1>9, <2>1, <2>2
<1>11. PICK e \in Seq(S) : e = a \o d
  BY <1>10
<1>12. Len(e) = Len(c) - 1
  BY <1>5, <1>10, <1>11
<1>13. ASSUME NEW i \in 1 .. Len(e)
       PROVE  e[i] = IF i < k + n THEN c[i] ELSE c[i + 1]
  <2>1. i \in 1 .. k + (m - 1) /\ i \in 1 .. k + m /\ i + 1 \in 1 .. k + m
    BY <1>9, <1>10, <1>11
  <2>2. CASE i <= k
    <3>1. i < k + n
      BY <1>7, <2>2
    <3>2. e[i] = a[i] /\ c[i] = a[i]
      BY ONLY <1>5, <1>10, <1>11, <2>1, <2>2
    <3> QED
      BY ONLY <3>1, <3>2
  <2>3. CASE ~ (i <= k)
    <3>1. PICK j \in 1 .. m - 1 : j = i - k
      BY <1>9, <2>1, <2>3
    <3>2. j \in 1 .. Len(d) /\ ~ (i + 1 <= k) /\ (i + 1) - k = j + 1 /\ i + 1 \in Int
      BY <1>9, <2>3, <3>1
    <3>3. i < k + n <=> j < n
      BY <1>7, <3>1
    <3>4. d[j] = IF j < n THEN b[j] ELSE b[j + 1]
      BY ONLY <1>6, <3>2 DEF Missing
    <3>5. e[i] = d[j]
      BY ONLY <1>10, <1>11, <2>1, <2>3, <3>1
    <3>6. c[i] = b[j]
      BY ONLY <1>5, <2>1, <2>3, <3>1
    <3>7. c[i + 1] = b[j + 1]
      BY ONLY <1>5, <2>1, <3>2
    <3> QED
      BY ONLY <3>3, <3>4, <3>5, <3>6, <3>7
  <2> QED
    BY <2>2, <2>3
<1>14. Missing(e, c, k + n)
  BY ONLY <1>12, <1>13 DEF Missing
<1>15. e = q
  BY ONLY <1>8, <1>11, <1>14, MissingIsUnique
<1> QED
  BY ONLY <1>1, <1>2, <1>3, <1>4, <1>16, <1>11, <1>15

(* List a with r for its element n.                                        *)
Stored(a, n, r) == [a EXCEPT ![n] = r]

(* List e is that.                                                         *)
Altered(e, a, n, r) ==
  /\ Len(e) = Len(a)
  /\ \A i \in 1 .. Len(a) : e[i] = IF i = n THEN r ELSE a[i]

(* Storing changes the one element and the length not at all.              *)
LEMMA StoredIs ==
  ASSUME NEW S, NEW a \in Seq(S), NEW n \in 1 .. Len(a), NEW r \in S,
         NEW e, e = Stored(a, n, r)
  PROVE  e \in Seq(S) /\ Altered(e, a, n, r)
BY ExceptSeq DEF Stored, Altered

(* Storing into two lists put together.                                    *)
LEMMA StoreInFirst ==
  ASSUME NEW S, NEW a \in Seq(S), NEW b \in Seq(S), NEW n \in 1 .. Len(a),
         NEW r \in S
  PROVE  Stored(a \o b, n, r) = Stored(a, n, r) \o b
<1>1. PICK c \in Seq(S) : c = a \o b
  BY ConcatProperties
<1>2. PICK d : d = Stored(a, n, r)
  OBVIOUS
<1>3. PICK k \in Nat : k = Len(a)
  OBVIOUS
<1>16. PICK m \in Nat : m = Len(b)
  OBVIOUS
<1>4. Len(c) = k + m /\ \A i \in 1 .. k + m : c[i] = IF i <= k THEN a[i] ELSE b[i - k]
  BY ONLY <1>1, <1>3, <1>16, a \in Seq(S), b \in Seq(S), ConcatProperties
<1>5. n \in 1 .. k /\ n \in 1 .. k + m
  BY <1>3, <1>16
<1>6. d \in Seq(S) /\ Len(d) = k /\ \A i \in 1 .. k : d[i] = IF i = n THEN r ELSE a[i]
  <2>1. d \in Seq(S) /\ Altered(d, a, n, r)
    BY ONLY <1>2, <1>3, <1>16, <1>5, a \in Seq(S), r \in S, StoredIs
  <2> QED
    BY ONLY <2>1, <1>3 DEF Altered
<1>7. PICK e : e = Stored(c, n, r)
  OBVIOUS
<1>8. /\ e \in Seq(S) /\ Len(e) = k + m
      /\ \A i \in 1 .. k + m : e[i] = IF i = n THEN r ELSE c[i]
  <2>1. e \in Seq(S) /\ Altered(e, c, n, r)
    BY ONLY <1>4, <1>5, <1>7, c \in Seq(S), r \in S, StoredIs
  <2> QED
    BY ONLY <2>1, <1>4 DEF Altered
<1>9. PICK f : f = d \o b
  OBVIOUS
<1>10. /\ f \in Seq(S) /\ Len(f) = k + m
       /\ \A i \in 1 .. k + m : f[i] = IF i <= k THEN d[i] ELSE b[i - k]
  <2>1. /\ d \o b \in Seq(S) /\ Len(d \o b) = Len(d) + Len(b)
        /\ \A i \in 1 .. Len(d) + Len(b) :
             (d \o b)[i] = IF i <= Len(d) THEN d[i] ELSE b[i - Len(d)]
    BY ONLY <1>6, b \in Seq(S), ConcatProperties
  <2>2. Len(d) = k /\ Len(b) = m
    BY ONLY <1>3, <1>16, <1>6, <1>9, b \in Seq(S)
  <2> QED
    BY ONLY <1>9, <2>1, <2>2
<1>11. ASSUME NEW i \in 1 .. k + m PROVE e[i] = f[i]
  <2>1. CASE i <= k
    <3>1. i \in 1 .. k
      BY <2>1
    <3> QED
      BY ONLY <1>4, <1>6, <1>8, <1>10, <2>1, <3>1, i \in 1 .. k + m
  <2>2. CASE ~ (i <= k)
    <3>1. i # n
      BY <1>5, <2>2
    <3> QED
      BY ONLY <1>4, <1>8, <1>10, <2>2, <3>1, i \in 1 .. k + m
  <2> QED
    BY <2>1, <2>2
<1>12. e = f
  BY ONLY <1>8, <1>10, <1>11, SeqEqual
<1> QED
  BY ONLY <1>1, <1>2, <1>7, <1>9, <1>12

(* What it takes to store r as element n of the second of two lists.       *)
Storable(a, b, n, r, S) ==
  /\ a \in Seq(S) /\ b \in Seq(S) /\ n \in 1 .. Len(b) /\ r \in S

(* Storing an element of the second of two lists stores it in both         *)
(* together.                                                               *)
LEMMA StoreInSecond ==
  ASSUME NEW S, NEW a, NEW b, NEW n, NEW r, Storable(a, b, n, r, S)
  PROVE  Stored(a \o b, Len(a) + n, r) = a \o Stored(b, n, r)
<1>17. a \in Seq(S) /\ b \in Seq(S) /\ n \in 1 .. Len(b) /\ r \in S
  BY DEF Storable
<1>1. PICK c \in Seq(S) : c = a \o b
  BY <1>17, ConcatProperties
<1>2. PICK d : d = Stored(b, n, r)
  OBVIOUS
<1>3. PICK k \in Nat : k = Len(a)
  BY <1>17
<1>16. PICK m \in Nat : m = Len(b)
  BY <1>17
<1>4. Len(c) = k + m /\ \A i \in 1 .. k + m : c[i] = IF i <= k THEN a[i] ELSE b[i - k]
  BY ONLY <1>1, <1>3, <1>16, <1>17, ConcatProperties
<1>5. n \in 1 .. m /\ k + n \in 1 .. k + m
  BY <1>3, <1>16, <1>17
<1>6. d \in Seq(S) /\ Len(d) = m /\ \A i \in 1 .. m : d[i] = IF i = n THEN r ELSE b[i]
  <2>1. d \in Seq(S) /\ Altered(d, b, n, r)
    BY ONLY <1>2, <1>3, <1>16, <1>5, <1>17, StoredIs
  <2> QED
    BY ONLY <2>1, <1>16 DEF Altered
<1>7. PICK e : e = Stored(c, k + n, r)
  OBVIOUS
<1>8. /\ e \in Seq(S) /\ Len(e) = k + m
      /\ \A i \in 1 .. k + m : e[i] = IF i = k + n THEN r ELSE c[i]
  <2>1. e \in Seq(S) /\ Altered(e, c, k + n, r)
    BY ONLY <1>4, <1>5, <1>7, c \in Seq(S), <1>17, StoredIs
  <2> QED
    BY ONLY <2>1, <1>4 DEF Altered
<1>18. a \in Seq(S)
  BY ONLY <1>17
<1>19. d \in Seq(S)
  BY ONLY <1>6
<1>9. PICK f : f = a \o d
  OBVIOUS
<1>10. /\ f \in Seq(S) /\ Len(f) = k + m
       /\ \A i \in 1 .. k + m : f[i] = IF i <= k THEN a[i] ELSE d[i - k]
  <2>1. /\ a \o d \in Seq(S) /\ Len(a \o d) = Len(a) + Len(d)
        /\ \A i \in 1 .. Len(a) + Len(d) :
             (a \o d)[i] = IF i <= Len(a) THEN a[i] ELSE d[i - Len(a)]
    BY ONLY <1>18, <1>19, ConcatProperties
  <2>2. Len(a) = k /\ Len(d) = m
    BY ONLY <1>3, <1>16, <1>6, <1>9, a \in Seq(S)
  <2> QED
    BY ONLY <1>9, <2>1, <2>2
<1>11. ASSUME NEW i \in 1 .. k + m PROVE e[i] = f[i]
  <2>1. CASE i <= k
    <3>1. i # k + n
      BY <1>5, <2>1
    <3> QED
      BY ONLY <1>4, <1>8, <1>10, <2>1, <3>1, i \in 1 .. k + m
  <2>2. CASE ~ (i <= k)
    <3>1. PICK j \in 1 .. m : j = i - k
      BY <2>2
    <3>2. j = n <=> i = k + n
      BY <1>5, <3>1
    <3> QED
      BY ONLY <1>4, <1>6, <1>8, <1>10, <2>2, <3>1, <3>2, i \in 1 .. k + m
  <2> QED
    BY <2>1, <2>2
<1>12. e = f
  BY ONLY <1>8, <1>10, <1>11, SeqEqual
<1> QED
  BY ONLY <1>1, <1>2, <1>3, <1>16, <1>7, <1>9, <1>12

(* Appending to the second of two lists appends to both together.          *)
LEMMA AppendToSecond ==
  ASSUME NEW S, NEW a \in Seq(S), NEW b \in Seq(S), NEW r \in S
  PROVE  a \o Append(b, r) = Append(a \o b, r)
<1>1. Append(b, r) = b \o <<r>> /\ <<r>> \in Seq(S)
  BY AppendIsConcat
<1>2. a \o b \in Seq(S)
  BY ConcatProperties
<1>3. Append(a \o b, r) = (a \o b) \o <<r>>
  BY ONLY <1>2, r \in S, AppendIsConcat
<1>4. (a \o b) \o <<r>> = a \o (b \o <<r>>)
  BY ONLY <1>1, a \in Seq(S), b \in Seq(S), ConcatAssociative
<1> QED
  BY ONLY <1>1, <1>3, <1>4

---------------------------------------------------------------------------
(**************************************************************************)
(* Replacing one sequence of a list of sequences: the chain up to it       *)
(* stays, the one behind it is resumed.                                    *)
(**************************************************************************)
(* What is true of k sequences and what they are together.                 *)
Members(g, s, S, k) ==
  /\ g \in [0 .. k -> Seq(S)] /\ g[0] = <<>>
  /\ \A i \in 1 .. k : /\ g[i] = g[i - 1] \o s[i] /\ s[i] \in Seq(S)
                       /\ g[i - 1] \in Seq(S) /\ g[i] \in Seq(S)
                       /\ Len(g[i]) = Len(g[i - 1]) + Len(s[i])

(* The members of a chain are lists, as long as their parts together.      *)
LEMMA ChainedIs ==
  ASSUME NEW S, NEW s \in Seq(Seq(S)), NEW g, Chained(g, s, S), NEW k \in Nat,
         k = Len(s)
  PROVE  Members(g, s, S, k)
<1>1. /\ g \in [0 .. k -> Seq(S)] /\ g[0] = <<>>
      /\ \A i \in 1 .. k : g[i] = g[i - 1] \o s[i]
  BY DEF Chained
<1>2. ASSUME NEW i \in 1 .. k
      PROVE  /\ g[i] = g[i - 1] \o s[i] /\ s[i] \in Seq(S)
             /\ g[i - 1] \in Seq(S) /\ g[i] \in Seq(S)
             /\ Len(g[i]) = Len(g[i - 1]) + Len(s[i])
  <2>1. i - 1 \in 0 .. k /\ i \in 0 .. k
    OBVIOUS
  <2>2. s[i] \in Seq(S)
    OBVIOUS
  <2>3. PICK a \in Seq(S) : a = g[i - 1]
    BY ONLY <1>1, <2>1
  <2>4. PICK b \in Seq(S) : b = s[i]
    BY ONLY <2>2
  <2>5. Len(a \o b) = Len(a) + Len(b)
    BY ONLY a \in Seq(S), b \in Seq(S), ConcatProperties
  <2>6. g[i] = a \o b /\ g[i] \in Seq(S)
    BY ONLY <1>1, <2>1, <2>3, <2>4, i \in 1 .. k
  <2> QED
    BY ONLY <2>3, <2>4, <2>5, <2>6
<1> QED
  BY ONLY <1>1, <1>2 DEF Members

(* The members grow.                                                       *)
LEMMA ChainGrows ==
  ASSUME NEW S, NEW s \in Seq(Seq(S)), NEW g, Chained(g, s, S),
         NEW i \in 0 .. Len(s), NEW j \in i .. Len(s)
  PROVE  Len(g[i]) <= Len(g[j])
<1>1. PICK k \in Nat : k = Len(s)
  OBVIOUS
<1>2. /\ g \in [0 .. k -> Seq(S)]
      /\ \A m \in 1 .. k : /\ Len(g[m]) = Len(g[m - 1]) + Len(s[m])
                           /\ s[m] \in Seq(S)
  <2>1. Members(g, s, S, k)
    BY <1>1, ChainedIs
  <2> QED
    BY ONLY <2>1 DEF Members
<1>3. PICK N \in Nat : N = k - i
  <2>1. i \in 0 .. k
    BY <1>1
  <2>2. k - i \in Nat
    BY <2>1
  <2> QED
    BY <2>2
<1> DEFINE T == {d \in 0 .. N : Len(g[i]) <= Len(g[i + d])}
<1>4. \A d \in 0 .. N : i + d \in 0 .. k /\ Len(g[i + d]) \in Nat
  BY <1>1, <1>2, <1>3
<1>5. 0 \in T
  <2>1. i + 0 = i /\ 0 \in 0 .. N
    OBVIOUS
  <2>2. Len(g[i]) <= Len(g[i])
    BY <1>4, <2>1
  <2> QED
    BY <2>1, <2>2
<1>6. ASSUME NEW d \in 0 .. N - 1, d \in T PROVE d + 1 \in T
  <2>1. d + 1 \in 0 .. N /\ d \in 0 .. N
    BY <1>3
  <2>2. PICK m \in 1 .. k : m = i + (d + 1) /\ m - 1 = i + d
    BY <1>1, <1>3
  <2>3. Len(g[m]) = Len(g[m - 1]) + Len(s[m]) /\ Len(s[m]) \in Nat
    <3>1. Len(g[m]) = Len(g[m - 1]) + Len(s[m]) /\ s[m] \in Seq(S)
      BY ONLY <1>2, m \in 1 .. k
    <3> QED
      BY <3>1
  <2>4. Len(g[i]) <= Len(g[i + d])
    BY <1>6
  <2>5. /\ Len(g[i + d]) \in Nat /\ Len(g[i + (d + 1)]) \in Nat /\ Len(g[i]) \in Nat
    <3>1. i = i + 0 /\ 0 \in 0 .. N
      OBVIOUS
    <3> QED
      BY ONLY <1>4, <2>1, <3>1
  <2>6. Len(g[i]) <= Len(g[i + (d + 1)])
    <3>1. Len(g[i + (d + 1)]) = Len(g[i + d]) + Len(s[m])
      BY ONLY <2>2, <2>3
    <3>2. PICK a \in Nat : a = Len(g[i])
      BY ONLY <2>5
    <3>3. PICK b \in Nat : b = Len(g[i + d])
      BY ONLY <2>5
    <3>4. PICK c \in Nat : c = Len(s[m])
      BY ONLY <2>3
    <3>5. a <= b
      BY ONLY <2>4, <3>2, <3>3
    <3>6. Len(g[i + (d + 1)]) = b + c
      BY ONLY <3>1, <3>3, <3>4
    <3>7. a <= b + c
      BY <3>5
    <3> QED
      BY ONLY <3>2, <3>6, <3>7
  <2> QED
    BY <2>1, <2>6
<1> HIDE DEF T
<1>7. \A d \in 0 .. N : d \in T
  BY ONLY <1>5, <1>6, N \in Nat, InductionUpTo
<1>8. j - i \in 0 .. N /\ i + (j - i) = j
  BY <1>1, <1>3
<1>9. \A d \in 0 .. N : Len(g[i]) <= Len(g[i + d])
  BY ONLY <1>7 DEF T
<1> QED
  BY ONLY <1>8, <1>9

(* Where element n is.                                                     *)
LEMMA ElementIsSomewhere ==
  ASSUME NEW S, NEW s \in Seq(Seq(S)), NEW g, Chained(g, s, S),
         NEW n \in Nat \ {0}, n <= Len(g[Len(s)])
  PROVE  \E i \in 1 .. Len(s) : /\ Len(g[i - 1]) < n
                                /\ n <= Len(g[i - 1]) + Len(s[i])
<1>1. PICK k \in Nat : k = Len(s)
  OBVIOUS
<1>2. /\ g \in [0 .. k -> Seq(S)] /\ g[0] = <<>>
      /\ \A m \in 1 .. k : /\ Len(g[m]) = Len(g[m - 1]) + Len(s[m])
                           /\ g[m - 1] \in Seq(S)
  <2>1. Members(g, s, S, k)
    BY <1>1, ChainedIs
  <2> QED
    BY ONLY <2>1 DEF Members
<1> DEFINE T == {i \in 0 .. k : n <= Len(g[i])}
<1>3. k \in T
  BY <1>1
<1>4. T \in SUBSET Nat /\ T # {}
  BY <1>3
<1> HIDE DEF T
<1>5. PICK i \in T : \A j \in T : i <= j
  BY ONLY <1>4, LeastNumber
<1>6. i \in 0 .. k /\ n <= Len(g[i])
  BY DEF T
<1>7. i # 0
  <2>1. Len(g[0]) = 0
    BY <1>2
  <2> QED
    BY <1>6, <2>1
<1>8. i \in 1 .. k /\ i - 1 \in 0 .. k /\ ~ (i <= i - 1)
  BY <1>6, <1>7
<1>9. ~ (i - 1 \in T)
  BY ONLY <1>5, <1>8
<1>10. ~ (n <= Len(g[i - 1]))
  BY ONLY <1>8, <1>9 DEF T
<1>11. Len(g[i - 1]) \in Nat /\ Len(g[i]) = Len(g[i - 1]) + Len(s[i])
  <2>1. g[i - 1] \in Seq(S) /\ Len(g[i]) = Len(g[i - 1]) + Len(s[i])
    BY ONLY <1>2, <1>8
  <2> QED
    BY <2>1
<1>12. Len(g[i - 1]) < n
  BY <1>10, <1>11
<1> QED
  BY ONLY <1>1, <1>6, <1>8, <1>11, <1>12

(* Where that is it is within the whole.                                   *)
LEMMA SomewhereIsElement ==
  ASSUME NEW S, NEW s \in Seq(Seq(S)), NEW g, Chained(g, s, S),
         NEW n \in Int, NEW i \in 1 .. Len(s),
         Len(g[i - 1]) < n, n <= Len(g[i - 1]) + Len(s[i])
  PROVE  n \in 1 .. Len(g[Len(s)])
<1>1. PICK k \in Nat : k = Len(s)
  OBVIOUS
<1>2. /\ g \in [0 .. k -> Seq(S)] /\ g[i - 1] \in Seq(S)
      /\ Len(g[i]) = Len(g[i - 1]) + Len(s[i])
  <2>1. Members(g, s, S, k)
    BY <1>1, ChainedIs
  <2> QED
    BY ONLY <1>1, <2>1, i \in 1 .. Len(s) DEF Members
<1>3. i \in 0 .. Len(s) /\ Len(s) \in i .. Len(s)
  BY <1>1
<1>4. Len(g[i]) <= Len(g[Len(s)])
  BY <1>3, ChainGrows
<1>5. Len(g[i - 1]) \in Nat /\ Len(g[Len(s)]) \in Nat /\ Len(g[i]) \in Nat
  <2>1. k \in 0 .. k /\ i \in 0 .. k
    BY <1>1
  <2>2. g[k] \in Seq(S) /\ g[i] \in Seq(S)
    BY <1>2, <2>1
  <2>3. Len(g[k]) \in Nat /\ Len(g[i]) \in Nat
    BY <2>2
  <2>4. Len(g[i - 1]) \in Nat
    BY <1>2
  <2> QED
    BY ONLY <1>1, <2>3, <2>4
<1>6. n <= Len(g[i]) /\ Len(g[i - 1]) < n
  BY ONLY <1>2, Len(g[i - 1]) < n, n <= Len(g[i - 1]) + Len(s[i])
<1> QED
  BY ONLY <1>4, <1>5, <1>6, n \in Int

(* The sequences s together are v.                                         *)
Together(s, v, S) == \E g : Chained(g, s, S) /\ g[Len(s)] = v

(* List t is s with u for its i'th element.                                *)
Swapped(t, s, i, u) ==
  /\ Len(t) = Len(s) /\ t[i] = u
  /\ \A j \in 1 .. Len(s) : j # i => t[j] = s[j]

(* Storing swaps one element and leaves the others.                        *)
LEMMA SwappedIs ==
  ASSUME NEW S, NEW s \in Seq(S), NEW i \in 1 .. Len(s), NEW u \in S,
         NEW t, t = Stored(s, i, u)
  PROVE  t \in Seq(S) /\ Swapped(t, s, i, u)
<1>1. t \in Seq(S) /\ Altered(t, s, i, u)
  BY StoredIs
<1> QED
  BY ONLY <1>1, i \in 1 .. Len(s) DEF Swapped, Altered

(* One sequence of the list is replaced by u: q gives the members from it  *)
(* on, each what its predecessor and its sequence make.                    *)
Resumed(q, g, s, i, u) ==
  /\ q[i] = g[i - 1] \o u
  /\ \A j \in i + 1 .. Len(s) : q[j] = q[j - 1] \o s[j]

(* The last of the resumed members is what the changed list is together.   *)
LEMMA ChainChanged ==
  ASSUME NEW S, NEW s \in Seq(Seq(S)), NEW g, Chained(g, s, S),
         NEW i \in 1 .. Len(s), NEW u \in Seq(S),
         NEW t \in Seq(Seq(S)), Swapped(t, s, i, u),
         NEW q \in [i .. Len(s) -> Seq(S)], Resumed(q, g, s, i, u),
         NEW v, v = q[Len(s)]
  PROVE  Together(t, v, S)
<1>1. PICK k \in Nat : k = Len(s)
  OBVIOUS
<1>2. /\ g \in [0 .. k -> Seq(S)] /\ g[0] = <<>>
      /\ \A j \in 1 .. k : g[j] = g[j - 1] \o s[j]
  BY <1>1 DEF Chained
<1>3. PICK w : w = [j \in 0 .. k |-> IF j < i THEN g[j] ELSE q[j]]
  OBVIOUS
<1>4. \A j \in 0 .. k : ~ (j < i) => j \in i .. k
  BY <1>1
<1>5. w \in [0 .. k -> Seq(S)]
  <2>1. \A j \in 0 .. k : (IF j < i THEN g[j] ELSE q[j]) \in Seq(S)
    BY ONLY <1>1, <1>2, <1>4, q \in [i .. Len(s) -> Seq(S)]
  <2> QED
    BY ONLY <1>3, <2>1
<1>6. \A j \in 0 .. i - 1 : w[j] = g[j]
  <2>1. \A j \in 0 .. i - 1 : j \in 0 .. k /\ j < i
    BY <1>1
  <2> QED
    BY ONLY <1>3, <2>1
<1>7. \A j \in i .. k : w[j] = q[j]
  <2>1. \A j \in i .. k : j \in 0 .. k /\ ~ (j < i)
    BY <1>1
  <2> QED
    BY ONLY <1>3, <2>1
<1>8. /\ \A j \in 1 .. k : j # i => t[j] = s[j]
      /\ t[i] = u /\ Len(t) = k
  BY ONLY <1>1, Swapped(t, s, i, u) DEF Swapped
<1>9. w[0] = <<>>
  <2>1. 0 \in 0 .. i - 1
    OBVIOUS
  <2> QED
    BY ONLY <1>2, <1>6, <2>1
<1>10. ASSUME NEW j \in 1 .. k PROVE w[j] = w[j - 1] \o t[j]
  <2>1. CASE j < i
    <3>1. j \in 0 .. i - 1 /\ j - 1 \in 0 .. i - 1 /\ j # i
      BY <2>1
    <3>2. w[j] = g[j] /\ w[j - 1] = g[j - 1]
      BY ONLY <1>6, <3>1
    <3> QED
      BY ONLY <1>2, <1>8, <3>1, <3>2, j \in 1 .. k
  <2>2. CASE j = i
    <3>1. i - 1 \in 0 .. i - 1 /\ i \in i .. k
      BY <1>1
    <3>2. w[i - 1] = g[i - 1] /\ w[i] = q[i]
      BY ONLY <1>6, <1>7, <3>1
    <3>3. q[i] = g[i - 1] \o u
      BY ONLY Resumed(q, g, s, i, u) DEF Resumed
    <3> QED
      BY ONLY <1>8, <2>2, <3>2, <3>3
  <2>3. CASE j > i
    <3>1. /\ j \in i + 1 .. Len(s) /\ j # i
          /\ j \in i .. k /\ j - 1 \in i .. k
      BY <1>1, <2>3
    <3>2. q[j] = q[j - 1] \o s[j]
      BY ONLY <3>1, Resumed(q, g, s, i, u) DEF Resumed
    <3>3. w[j] = q[j] /\ w[j - 1] = q[j - 1]
      BY ONLY <1>7, <3>1
    <3>4. t[j] = s[j]
      BY ONLY <1>8, <3>1, j \in 1 .. k
    <3> QED
      BY ONLY <3>2, <3>3, <3>4
  <2>4. j < i \/ j = i \/ j > i
    BY <1>1
  <2> QED
    BY ONLY <2>1, <2>2, <2>3, <2>4
<1>11. Chained(w, t, S)
  BY ONLY <1>5, <1>8, <1>9, <1>10 DEF Chained
<1>12. w[Len(s)] = q[Len(s)]
  <2>1. k \in i .. k
    BY <1>1
  <2> QED
    BY ONLY <1>1, <1>7, <2>1
<1>13. w[Len(t)] = v
  BY ONLY <1>1, <1>8, <1>12, v = q[Len(s)]
<1> QED
  BY ONLY <1>11, <1>13 DEF Together

(* A record is stored.                                                     *)
LEMMA ChainPut ==
  ASSUME NEW S, NEW s \in Seq(Seq(S)), NEW g, Chained(g, s, S),
         NEW i \in 1 .. Len(s), NEW p \in 1 .. Len(s[i]), NEW r \in S,
         NEW n, n = Len(g[i - 1]) + p, NEW v, v = Stored(g[Len(s)], n, r), NEW t,
         t = Stored(s, i, Stored(s[i], p, r))
  PROVE  \E u \in Seq(S) :
           /\ Len(u) = Len(s[i])
           /\ t \in Seq(Seq(S)) /\ Swapped(t, s, i, u)
           /\ Together(t, v, S)
<1>1. PICK k \in Nat : k = Len(s)
  BY ONLY s \in Seq(Seq(S))
<1>2. Members(g, s, S, k)
  BY <1>1, ChainedIs
<1>3. PICK a \in Seq(S) : a = g[i - 1]
  BY ONLY <1>1, <1>2, i \in 1 .. Len(s) DEF Members
<1>4. PICK b \in Seq(S) : b = s[i]
  BY ONLY <1>1, <1>2, i \in 1 .. Len(s) DEF Members
<1>5. p \in 1 .. Len(b) /\ n = Len(a) + p
  BY ONLY <1>3, <1>4, p \in 1 .. Len(s[i]), n = Len(g[i - 1]) + p
<1>6. PICK u : u = Stored(b, p, r)
  OBVIOUS
<1>7. u \in Seq(S) /\ Len(u) = Len(b)
  <2>1. u \in Seq(S) /\ Altered(u, b, p, r)
    BY ONLY <1>5, <1>6, b \in Seq(S), r \in S, StoredIs
  <2> QED
    BY ONLY <2>1 DEF Altered
<1>8. t = Stored(s, i, u)
  BY ONLY <1>4, <1>6, t = Stored(s, i, Stored(s[i], p, r))
<1>9. PICK q : q = [j \in i .. k |-> Stored(g[j], n, r)]
  OBVIOUS
<1>10. ASSUME NEW j \in i .. k
       PROVE  /\ j \in 1 .. k /\ g[j] \in Seq(S)
              /\ n \in 1 .. Len(g[j])
  <2>1. j \in 1 .. k /\ i \in 0 .. Len(s) /\ j \in i .. Len(s)
    BY <1>1
  <2>2. Len(g[i]) <= Len(g[j])
    BY <2>1, ChainGrows
  <2>3. g[j] \in Seq(S)
    BY ONLY <1>2, <2>1 DEF Members
  <2>4. Len(g[i]) = Len(a) + Len(b)
    BY ONLY <1>1, <1>2, <1>3, <1>4, i \in 1 .. Len(s) DEF Members
  <2>5. Len(a) \in Nat /\ Len(b) \in Nat
    OBVIOUS
  <2>6. PICK c \in Nat : c = Len(g[j])
    BY ONLY <2>3
  <2>7. n \in 1 .. c
    BY ONLY <1>5, <2>2, <2>4, <2>5, <2>6
  <2> QED
    BY ONLY <2>1, <2>3, <2>6, <2>7
<1>11. q \in [i .. Len(s) -> Seq(S)]
  <2>1. \A j \in i .. k : Stored(g[j], n, r) \in Seq(S)
    BY <1>10, StoredIs
  <2> QED
    BY ONLY <1>1, <1>9, <2>1
<1>12. q[i] = g[i - 1] \o u
  <2>1. i \in i .. k
    BY <1>1
  <2>2. g[i] = a \o b
    BY ONLY <1>1, <1>2, <1>3, <1>4, i \in 1 .. Len(s) DEF Members
  <2>4. Storable(a, b, p, r, S)
    BY ONLY <1>5, a \in Seq(S), b \in Seq(S), r \in S DEF Storable
  <2>3. Stored(a \o b, Len(a) + p, r) = a \o Stored(b, p, r)
    BY ONLY <2>4, StoreInSecond
  <2> QED
    BY ONLY <1>3, <1>5, <1>6, <1>9, <2>1, <2>2, <2>3
<1>13. ASSUME NEW j \in i + 1 .. Len(s) PROVE q[j] = q[j - 1] \o s[j]
  <2>1. j \in i .. k /\ j - 1 \in i .. k
    BY <1>1
  <2>2. PICK c \in Seq(S) : c = g[j - 1] /\ n \in 1 .. Len(c)
    BY ONLY <1>10, <2>1
  <2>3. j \in 1 .. k
    BY ONLY <1>10, <2>1
  <2>4. PICK d \in Seq(S) : d = s[j]
    BY ONLY <1>2, <2>3 DEF Members
  <2>5. g[j] = c \o d
    BY ONLY <1>2, <2>2, <2>3, <2>4 DEF Members
  <2>6. Stored(c \o d, n, r) = Stored(c, n, r) \o d
    BY ONLY <2>2, c \in Seq(S), d \in Seq(S), r \in S, StoreInFirst
  <2>7. q[j] = Stored(c \o d, n, r)
    BY ONLY <1>9, <2>1, <2>5
  <2>8. q[j - 1] = Stored(c, n, r)
    BY ONLY <1>9, <2>1, <2>2
  <2> QED
    BY ONLY <2>4, <2>6, <2>7, <2>8
<1>14. v = q[Len(s)]
  <2>1. k \in i .. k
    BY <1>1
  <2> QED
    BY ONLY <1>1, <1>9, <2>1, v = Stored(g[Len(s)], n, r)
<1>15. /\ t \in Seq(Seq(S)) /\ Swapped(t, s, i, u)
       /\ Together(t, v, S)
  <2>1. t \in Seq(Seq(S)) /\ Swapped(t, s, i, u)
    BY ONLY <1>7, <1>8, i \in 1 .. Len(s), s \in Seq(Seq(S)), SwappedIs
  <2>2. Resumed(q, g, s, i, u)
    BY ONLY <1>12, <1>13 DEF Resumed
  <2>3. Together(t, v, S)
    BY ONLY <1>14, <2>1, <2>2, <1>7, <1>11, i \in 1 .. Len(s),
            s \in Seq(Seq(S)), Chained(g, s, S), ChainChanged
  <2> QED
    BY ONLY <2>1, <2>3
<1> QED
  BY ONLY <1>4, <1>7, <1>14, <1>15

(* A record is taken out.                                                  *)
LEMMA ChainCut ==
  ASSUME NEW S, NEW s \in Seq(Seq(S)), NEW g, Chained(g, s, S),
         NEW i \in 1 .. Len(s), NEW p \in 1 .. Len(s[i]),
         NEW n, n = Len(g[i - 1]) + p, NEW u, u = RemoveAt(s[i], p),
         NEW v, v = RemoveAt(g[Len(s)], n), NEW t, t = Stored(s, i, u)
  PROVE  /\ u \in Seq(S) /\ Len(u) = Len(s[i]) - 1
         /\ t \in Seq(Seq(S)) /\ Swapped(t, s, i, u)
         /\ Together(t, v, S)
<1>1. PICK k \in Nat : k = Len(s)
  BY ONLY s \in Seq(Seq(S))
<1>2. Members(g, s, S, k)
  BY <1>1, ChainedIs
<1>3. PICK a \in Seq(S) : a = g[i - 1]
  BY ONLY <1>1, <1>2, i \in 1 .. Len(s) DEF Members
<1>4. PICK b \in Seq(S) : b = s[i]
  BY ONLY <1>1, <1>2, i \in 1 .. Len(s) DEF Members
<1>5. p \in 1 .. Len(b) /\ n = Len(a) + p
  BY ONLY <1>3, <1>4, p \in 1 .. Len(s[i]), n = Len(g[i - 1]) + p
<1>6. u = RemoveAt(b, p)
  BY ONLY <1>4, u = RemoveAt(s[i], p)
<1>7. u \in Seq(S) /\ Len(u) = Len(b) - 1
  <2>1. u \in Seq(S) /\ Missing(u, b, p)
    BY ONLY <1>5, <1>6, b \in Seq(S), RemoveAtIs
  <2> QED
    BY ONLY <2>1 DEF Missing
<1>9. PICK q : q = [j \in i .. k |-> RemoveAt(g[j], n)]
  OBVIOUS
<1>10. ASSUME NEW j \in i .. k
       PROVE  /\ j \in 1 .. k /\ g[j] \in Seq(S)
              /\ n \in 1 .. Len(g[j])
  <2>1. j \in 1 .. k /\ i \in 0 .. Len(s) /\ j \in i .. Len(s)
    BY <1>1
  <2>2. Len(g[i]) <= Len(g[j])
    BY <2>1, ChainGrows
  <2>3. g[j] \in Seq(S)
    BY ONLY <1>2, <2>1 DEF Members
  <2>4. Len(g[i]) = Len(a) + Len(b)
    BY ONLY <1>1, <1>2, <1>3, <1>4, i \in 1 .. Len(s) DEF Members
  <2>5. Len(a) \in Nat /\ Len(b) \in Nat
    OBVIOUS
  <2>6. PICK c \in Nat : c = Len(g[j])
    BY ONLY <2>3
  <2>7. n \in 1 .. c
    BY ONLY <1>5, <2>2, <2>4, <2>5, <2>6
  <2> QED
    BY ONLY <2>1, <2>3, <2>6, <2>7
<1>11. q \in [i .. Len(s) -> Seq(S)]
  <2>1. \A j \in i .. k : RemoveAt(g[j], n) \in Seq(S)
    BY <1>10, RemoveAtIs
  <2> QED
    BY ONLY <1>1, <1>9, <2>1
<1>12. q[i] = g[i - 1] \o u
  <2>1. i \in i .. k
    BY <1>1
  <2>2. g[i] = a \o b
    BY ONLY <1>1, <1>2, <1>3, <1>4, i \in 1 .. Len(s) DEF Members
  <2>3. RemoveAt(a \o b, Len(a) + p) = a \o RemoveAt(b, p)
    BY ONLY <1>5, a \in Seq(S), b \in Seq(S), RemoveInSecond
  <2> QED
    BY ONLY <1>3, <1>5, <1>6, <1>9, <2>1, <2>2, <2>3
<1>13. ASSUME NEW j \in i + 1 .. Len(s) PROVE q[j] = q[j - 1] \o s[j]
  <2>1. j \in i .. k /\ j - 1 \in i .. k
    BY <1>1
  <2>2. PICK c \in Seq(S) : c = g[j - 1] /\ n \in 1 .. Len(c)
    BY ONLY <1>10, <2>1
  <2>3. j \in 1 .. k
    BY ONLY <1>10, <2>1
  <2>4. PICK d \in Seq(S) : d = s[j]
    BY ONLY <1>2, <2>3 DEF Members
  <2>5. g[j] = c \o d
    BY ONLY <1>2, <2>2, <2>3, <2>4 DEF Members
  <2>6. RemoveAt(c \o d, n) = RemoveAt(c, n) \o d
    BY ONLY <2>2, c \in Seq(S), d \in Seq(S), RemoveInFirst
  <2>7. q[j] = RemoveAt(c \o d, n)
    BY ONLY <1>9, <2>1, <2>5
  <2>8. q[j - 1] = RemoveAt(c, n)
    BY ONLY <1>9, <2>1, <2>2
  <2> QED
    BY ONLY <2>4, <2>6, <2>7, <2>8
<1>14. v = q[Len(s)]
  <2>1. k \in i .. k
    BY <1>1
  <2> QED
    BY ONLY <1>1, <1>9, <2>1, v = RemoveAt(g[Len(s)], n)
<1>15. /\ t \in Seq(Seq(S)) /\ Swapped(t, s, i, u)
       /\ Together(t, v, S)
  <2>1. t \in Seq(Seq(S)) /\ Swapped(t, s, i, u)
    BY ONLY <1>7, i \in 1 .. Len(s), t = Stored(s, i, u), s \in Seq(Seq(S)),
            SwappedIs
  <2>2. Resumed(q, g, s, i, u)
    BY ONLY <1>12, <1>13 DEF Resumed
  <2>3. Together(t, v, S)
    BY ONLY <1>14, <2>1, <2>2, <1>7, <1>11, i \in 1 .. Len(s),
            s \in Seq(Seq(S)), Chained(g, s, S), ChainChanged
  <2> QED
    BY ONLY <2>1, <2>3
<1> QED
  BY ONLY <1>4, <1>7, <1>14, <1>15

(* What it takes to append r to the last of the k sequences s, or after it. *)
Open(g, s, k, r, S) ==
  /\ s \in Seq(Seq(S)) /\ Chained(g, s, S)
  /\ k \in Nat /\ k = Len(s) /\ r \in S

(* A record goes to the end of the last sequence.                          *)
LEMMA ChainAppend ==
  ASSUME NEW S, NEW s, NEW g, NEW k, k # 0, NEW r, Open(g, s, k, r, S),
         NEW u, u = Append(s[k], r), NEW v, v = Append(g[k], r), NEW t, t = Stored(s, k, u)
  PROVE  /\ u \in Seq(S) /\ Len(u) = Len(s[k]) + 1
         /\ t \in Seq(Seq(S)) /\ Swapped(t, s, k, u)
         /\ Together(t, v, S)
<1>0. /\ s \in Seq(Seq(S)) /\ Chained(g, s, S)
      /\ k \in Nat /\ k = Len(s) /\ r \in S
  BY DEF Open
<1> USE <1>0
<1>1. k \in 1 .. k /\ k \in Nat
  BY <1>0
<1>2. Members(g, s, S, k)
  BY <1>1, ChainedIs
<1>3. PICK a \in Seq(S) : a = g[k - 1]
  BY ONLY <1>1, <1>2 DEF Members
<1>4. PICK b \in Seq(S) : b = s[k]
  BY ONLY <1>1, <1>2 DEF Members
<1>5. u = Append(b, r)
  BY ONLY <1>4, u = Append(s[k], r)
<1>6. u \in Seq(S) /\ Len(u) = Len(b) + 1
  BY ONLY <1>5, b \in Seq(S), r \in S, AppendProperties
<1>7. g[k] = a \o b /\ g[k] \in Seq(S)
  BY ONLY <1>1, <1>2, <1>3, <1>4 DEF Members
<1>8. PICK c \in Seq(S) : c = g[k]
  BY ONLY <1>7
<1>9. Append(c, r) \in Seq(S)
  BY AppendProperties
<1>10. PICK q : q = [j \in k .. k |-> Append(c, r)]
  OBVIOUS
<1>11. q \in [k .. Len(s) -> Seq(S)]
  BY ONLY <1>9, <1>10, k = Len(s)
<1>12. q[k] = Append(c, r)
  BY <1>10
<1>13. a \o Append(b, r) = Append(a \o b, r)
  BY ONLY a \in Seq(S), b \in Seq(S), r \in S, AppendToSecond
<1>14. q[k] = g[k - 1] \o u
  BY ONLY <1>3, <1>5, <1>7, <1>8, <1>12, <1>13
<1>15. \A j \in k + 1 .. Len(s) : q[j] = q[j - 1] \o s[j]
  OBVIOUS
<1>16. k \in 1 .. Len(s)
  OBVIOUS
<1>17. /\ t \in Seq(Seq(S)) /\ Swapped(t, s, k, u)
       /\ Together(t, v, S)
  <2>1. t \in Seq(Seq(S)) /\ Swapped(t, s, k, u)
    BY ONLY <1>6, <1>16, t = Stored(s, k, u), s \in Seq(Seq(S)), SwappedIs
  <2>2. Resumed(q, g, s, k, u)
    BY ONLY <1>14, <1>15 DEF Resumed
  <2>3. Together(t, v, S)
    BY ONLY <2>1, <2>2, <1>6, <1>8, <1>11, <1>12, <1>16, k = Len(s),
            v = Append(g[k], r),
            s \in Seq(Seq(S)), Chained(g, s, S), ChainChanged
  <2> QED
    BY ONLY <2>1, <2>3
<1> QED
  BY ONLY <1>4, <1>6, <1>8, <1>12, <1>17, k = Len(s)

(* A record starts another sequence.                                       *)
LEMMA ChainExtended ==
  ASSUME NEW S, NEW s, NEW g, NEW k, NEW r, Open(g, s, k, r, S),
         NEW t, t = Append(s, <<r>>),
         NEW v, v = Append(g[k], r)
  PROVE  /\ t \in Seq(Seq(S)) /\ Len(t) = k + 1 /\ t[k + 1] = <<r>>
         /\ \A j \in 1 .. k : t[j] = s[j]
         /\ Together(t, v, S)
<1>0. /\ s \in Seq(Seq(S)) /\ Chained(g, s, S)
      /\ k \in Nat /\ k = Len(s) /\ r \in S
  BY DEF Open
<1> USE <1>0
<1>1. Members(g, s, S, k)
  BY <1>0, ChainedIs
<1>2. g \in [0 .. k -> Seq(S)] /\ g[0] = <<>> /\ k \in 0 .. k
  BY ONLY <1>1, k \in Nat DEF Members
<1>3. PICK c \in Seq(S) : c = g[k]
  BY ONLY <1>2
<1>4. Append(c, r) = c \o <<r>> /\ Append(c, r) \in Seq(S) /\ <<r>> \in Seq(S)
  BY AppendIsConcat, AppendProperties
<1>5. /\ t \in Seq(Seq(S)) /\ Len(t) = k + 1 /\ t[k + 1] = <<r>>
      /\ \A j \in 1 .. k : t[j] = s[j]
  BY ONLY <1>4, s \in Seq(Seq(S)), k = Len(s), t = Append(s, <<r>>),
          AppendProperties
<1>6. PICK w : w = [j \in 0 .. k + 1 |-> IF j = k + 1 THEN Append(c, r) ELSE g[j]]
  OBVIOUS
<1>14. k \in Nat
  BY <1>0
<1>7. /\ k + 1 \in 0 .. k + 1
      /\ \A j \in 0 .. k + 1 : j # k + 1 => j \in 0 .. k
      /\ \A j \in 0 .. k : j # k + 1 /\ j \in 0 .. k + 1
  BY ONLY <1>14
<1>8. w \in [0 .. k + 1 -> Seq(S)]
  <2>1. \A j \in 0 .. k + 1 : (IF j = k + 1 THEN Append(c, r) ELSE g[j]) \in Seq(S)
    BY ONLY <1>2, <1>4, <1>7
  <2> QED
    BY ONLY <1>6, <2>1
<1>9. w[k + 1] = Append(c, r) /\ \A j \in 0 .. k : w[j] = g[j]
  BY ONLY <1>6, <1>7
<1>10. w[0] = <<>>
  BY ONLY <1>2, <1>9, k \in Nat
<1>11. ASSUME NEW j \in 1 .. k + 1 PROVE w[j] = w[j - 1] \o t[j]
  <2>1. CASE j = k + 1
    <3>1. j - 1 = k /\ k \in 0 .. k
      BY <2>1
    <3> QED
      BY ONLY <1>3, <1>4, <1>5, <1>9, <2>1, <3>1
  <2>2. CASE j # k + 1
    <3>1. j \in 0 .. k /\ j - 1 \in 0 .. k /\ j \in 1 .. k
      BY <2>2
    <3>2. g[j] = g[j - 1] \o s[j]
      BY ONLY <1>1, <3>1 DEF Members
    <3> QED
      BY ONLY <1>5, <1>9, <3>1, <3>2
  <2> QED
    BY ONLY <2>1, <2>2
<1>12. Chained(w, t, S)
  BY ONLY <1>5, <1>8, <1>10, <1>11 DEF Chained
<1>13. w[Len(t)] = v
  BY ONLY <1>3, <1>5, <1>9, v = Append(g[k], r)
<1> QED
  BY ONLY <1>5, <1>12, <1>13 DEF Together

---------------------------------------------------------------------------
(**************************************************************************)
(* The segments of a buffer.                                               *)
(**************************************************************************)
Segment == [max : Nat, recs : Seq(Record)]

(* The records of each of the segments.                                    *)
Recs(seg) == [i \in DOMAIN seg |-> seg[i].recs]

(* The records of segments are lists of records, one for each segment.     *)
LEMMA RecsIs ==
  ASSUME NEW seg \in Seq(Segment)
  PROVE  /\ Recs(seg) \in Seq(Seq(Record)) /\ Len(Recs(seg)) = Len(seg)
         /\ \A i \in 1 .. Len(seg) : Recs(seg)[i] = seg[i].recs
<1>1. PICK k \in Nat : k = Len(seg)
  OBVIOUS
<1>2. \A i \in 1 .. k : seg[i].recs \in Seq(Record)
  <2>1. \A i \in 1 .. k : seg[i] \in Segment
    BY <1>1
  <2> QED
    BY ONLY <2>1 DEF Segment
<1>3. DOMAIN seg = 1 .. k
  BY <1>1
<1>4. PICK a : a = [i \in 1 .. k |-> seg[i].recs]
  OBVIOUS
<1>5. a \in Seq(Seq(Record)) /\ Len(a) = k
  BY ONLY <1>2, <1>4, k \in Nat
<1>6. Recs(seg) = a
  BY ONLY <1>3, <1>4 DEF Recs
<1> QED
  BY ONLY <1>1, <1>4, <1>5, <1>6

(* No segment holds more than was allocated for it.                        *)
Fits(e) == Len(e.recs) <= e.max /\ e.max < SegmentSize + MoreSpace

(* The segments hold the list v.                                           *)
Holds(seg, v) ==
  /\ seg \in Seq(Segment) /\ Len(seg) # 0
  /\ \A i \in 1 .. Len(seg) : Fits(seg[i])
  /\ Together(Recs(seg), v, Record)

(* A buffer that holds v shows v.                                          *)
LEMMA BufferedIs ==
  ASSUME NEW x, NEW v, Holds(x.seg, v)
  PROVE  Buffered(x) = v /\ v \in Seq(Record)
<1>1. PICK seg \in Seq(Segment) : seg = x.seg
  BY DEF Holds
<1>2. Segments(x) = Recs(seg) /\ Together(Recs(seg), v, Record)
  BY ONLY <1>1, Holds(x.seg, v) DEF Holds, Segments, Recs
<1>3. PICK s \in Seq(Seq(Record)) : s = Recs(seg)
  BY RecsIs
<1>4. PICK g : Chained(g, s, Record) /\ g[Len(s)] = v
  BY ONLY <1>2, <1>3 DEF Together
<1>5. FlattenSeq(s) = g[Len(s)] /\ FlattenSeq(s) \in Seq(Record)
  BY ONLY <1>4, s \in Seq(Seq(Record)), FlattenIs
<1> QED
  BY ONLY <1>2, <1>3, <1>4, <1>5 DEF Buffered

(* Before counts the records of the earlier segments.                      *)
LEMMA BeforeIs ==
  ASSUME NEW x, NEW seg \in Seq(Segment), x.seg = seg, NEW g,
         Chained(g, Recs(seg), Record), NEW i \in 1 .. Len(seg)
  PROVE  Before(x, i) = Len(g[i - 1])
<1>1. Segments(x) = Recs(seg)
  BY ONLY x.seg = seg DEF Segments, Recs
<1>2. PICK s \in Seq(Seq(Record)) : s = Recs(seg) /\ Len(s) = Len(seg)
  BY RecsIs
<1>3. FlattenSeq(SubSeq(s, 1, i - 1)) = g[i - 1]
  <2>1. i \in 1 .. Len(s)
    BY <1>2
  <2>2. Chained(g, s, Record)
    BY ONLY <1>2, Chained(g, Recs(seg), Record)
  <2> QED
    BY ONLY <2>1, <2>2, s \in Seq(Seq(Record)), PrefixIs
<1> QED
  BY ONLY <1>1, <1>2, <1>3 DEF Before

(* Record n is the p'th of segment i.                                      *)
Located(seg, g, i, p, n) ==
  /\ i \in 1 .. Len(seg) /\ p \in 1 .. Len(seg[i].recs)
  /\ n = Len(g[i - 1]) + p

(* A segment that SegmentsOf finds for record n has it.                    *)
LEMMA SegmentIs ==
  ASSUME NEW x, NEW seg \in Seq(Segment), x.seg = seg, NEW g,
         Chained(g, Recs(seg), Record), NEW n \in Nat, NEW i \in SegmentsOf(x, n)
  PROVE  Located(seg, g, i, n - Before(x, i), n)
<1>1. /\ i \in DOMAIN seg /\ Before(x, i) < n
      /\ n <= Before(x, i) + Len(seg[i].recs)
  BY ONLY x.seg = seg, i \in SegmentsOf(x, n) DEF SegmentsOf
<1>2. i \in 1 .. Len(seg)
  BY <1>1
<1>3. Before(x, i) = Len(g[i - 1])
  BY ONLY <1>2, seg \in Seq(Segment), x.seg = seg, Chained(g, Recs(seg),
          Record),
          BeforeIs
<1>4. PICK s \in Seq(Seq(Record)) : s = Recs(seg) /\ Len(s) = Len(seg)
  BY RecsIs
<1>5. PICK k \in Nat : k = Len(s)
  OBVIOUS
<1>6. Members(g, s, Record, k)
  BY ONLY <1>4, <1>5, Chained(g, Recs(seg), Record), s \in Seq(Seq(Record)),
          k \in Nat, ChainedIs
<1>7. g[i - 1] \in Seq(Record)
  BY ONLY <1>2, <1>4, <1>5, <1>6 DEF Members
<1>8. PICK b \in Nat : b = Len(g[i - 1])
  BY ONLY <1>7
<1>9. PICK c \in Nat : c = Len(seg[i].recs)
  <2>1. seg[i] \in Segment
    BY ONLY <1>2, seg \in Seq(Segment)
  <2>2. seg[i].recs \in Seq(Record)
    BY ONLY <2>1 DEF Segment
  <2> QED
    BY ONLY <2>2
<1>10. n - b \in 1 .. c /\ n = b + (n - b)
  <2>1. b < n /\ n <= b + c
    BY ONLY <1>1, <1>3, <1>8, <1>9
  <2> QED
    BY ONLY <2>1, b \in Nat, c \in Nat, n \in Nat
<1> QED
  BY ONLY <1>2, <1>3, <1>8, <1>9, <1>10 DEF Located

(* There is a segment for every record of the list and for no other.       *)
LEMMA SegmentFound ==
  ASSUME NEW x, NEW v, Holds(x.seg, v), NEW n \in Nat \ {0}
  PROVE  SegmentsOf(x, n) = {} <=> ~ (n <= Len(v))
<1>1. PICK seg \in Seq(Segment) : seg = x.seg
  BY DEF Holds
<1>2. PICK s \in Seq(Seq(Record)) :
        /\ s = Recs(seg) /\ Len(s) = Len(seg)
        /\ \A i \in 1 .. Len(seg) : s[i] = seg[i].recs
  BY RecsIs
<1>3. PICK g : Chained(g, s, Record) /\ g[Len(s)] = v
  BY ONLY <1>1, <1>2, Holds(x.seg, v) DEF Holds, Together
<1>4. ASSUME n <= Len(v) PROVE SegmentsOf(x, n) # {}
  <2>1. PICK i \in 1 .. Len(s) : /\ Len(g[i - 1]) < n
                                 /\ n <= Len(g[i - 1]) + Len(s[i])
    BY ONLY <1>3, <1>4, n \in Nat \ {0}, s \in Seq(Seq(Record)),
            ElementIsSomewhere
  <2>2. i \in 1 .. Len(seg) /\ s[i] = seg[i].recs
    BY ONLY <1>2, i \in 1 .. Len(s)
  <2>3. Before(x, i) = Len(g[i - 1])
    BY ONLY <1>1, <1>2, <1>3, <2>2, seg \in Seq(Segment), BeforeIs
  <2>4. i \in DOMAIN x.seg
    BY ONLY <1>1, <2>2, seg \in Seq(Segment)
  <2>5. i \in SegmentsOf(x, n)
    BY ONLY <1>1, <2>1, <2>2, <2>3, <2>4 DEF SegmentsOf
  <2> QED
    BY ONLY <2>5
<1>5. ASSUME SegmentsOf(x, n) # {} PROVE n <= Len(v)
  <2>1. PICK i \in SegmentsOf(x, n) : TRUE
    BY ONLY <1>5
  <2>2. Located(seg, g, i, n - Before(x, i), n)
    BY ONLY <1>1, <1>2, <1>3, n \in Nat \ {0}, seg \in Seq(Segment),
            i \in SegmentsOf(x, n), SegmentIs
  <2>3. /\ i \in 1 .. Len(s) /\ s[i] = seg[i].recs
        /\ n - Before(x, i) \in 1 .. Len(seg[i].recs)
        /\ n = Len(g[i - 1]) + (n - Before(x, i))
    BY ONLY <1>2, <2>2 DEF Located
  <2>4. PICK k \in Nat : k = Len(s)
    OBVIOUS
  <2>5. Members(g, s, Record, k)
    BY ONLY <1>3, <2>4, s \in Seq(Seq(Record)), k \in Nat, ChainedIs
  <2>6. g[i - 1] \in Seq(Record) /\ s[i] \in Seq(Record)
    BY ONLY <2>3, <2>4, <2>5 DEF Members
  <2>7. PICK b \in Nat : b = Len(g[i - 1])
    BY ONLY <2>6
  <2>8. PICK c \in Nat : c = Len(s[i])
    BY ONLY <2>6
  <2>9. b < n /\ n <= b + c
    <3>1. PICK p \in 1 .. c : p = n - Before(x, i)
      BY ONLY <2>3, <2>8
    <3>2. n = b + p
      BY ONLY <2>3, <2>7, <3>1
    <3> QED
      BY ONLY <3>2, p \in 1 .. c, b \in Nat, c \in Nat
  <2>10. n \in 1 .. Len(g[Len(s)])
    <3>1. Len(g[i - 1]) < n /\ n <= Len(g[i - 1]) + Len(s[i])
      BY ONLY <2>7, <2>8, <2>9
    <3>2. n \in Int
      BY ONLY n \in Nat \ {0}
    <3> QED
      BY ONLY <1>3, <2>3, <3>1, <3>2, s \in Seq(Seq(Record)),
              SomewhereIsElement
  <2> QED
    BY ONLY <1>3, <2>10
<1> QED
  BY ONLY <1>4, <1>5

(* Another segment takes the place of one.                                 *)
LEMMA SegmentSwapped ==
  ASSUME NEW seg \in Seq(Segment), \A j \in 1 .. Len(seg) : Fits(seg[j]),
         NEW i \in 1 .. Len(seg), NEW e \in Segment, Fits(e),
         NEW t, t = Stored(seg, i, e),
         NEW c, c = Stored(Recs(seg), i, e.recs),
         NEW v, Together(c, v, Record)
  PROVE  Holds(t, v)
<1>1. t \in Seq(Segment) /\ Altered(t, seg, i, e)
  BY StoredIs
<1>2. PICK s \in Seq(Seq(Record)) :
        /\ s = Recs(seg) /\ Len(s) = Len(seg)
        /\ \A j \in 1 .. Len(seg) : s[j] = seg[j].recs
  BY RecsIs
<1>3. e.recs \in Seq(Record)
  BY DEF Segment
<1>4. i \in 1 .. Len(s) /\ c = Stored(s, i, e.recs)
  BY ONLY <1>2, i \in 1 .. Len(seg), c = Stored(Recs(seg), i, e.recs)
<1>5. c \in Seq(Seq(Record)) /\ Altered(c, s, i, e.recs)
  BY ONLY <1>3, <1>4, s \in Seq(Seq(Record)), StoredIs
<1>6. /\ Recs(t) \in Seq(Seq(Record)) /\ Len(Recs(t)) = Len(t)
      /\ \A j \in 1 .. Len(t) : Recs(t)[j] = t[j].recs
  BY ONLY <1>1, RecsIs
<1>7. Len(t) = Len(seg) /\ \A j \in 1 .. Len(seg) : t[j] = IF j = i THEN e ELSE seg[j]
  BY ONLY <1>1 DEF Altered
<1>8. /\ Len(c) = Len(seg)
      /\ \A j \in 1 .. Len(seg) : c[j] = IF j = i THEN e.recs ELSE seg[j].recs
  BY ONLY <1>2, <1>5 DEF Altered
<1>9. \A j \in 1 .. Len(seg) : Recs(t)[j] = c[j]
  BY ONLY <1>6, <1>7, <1>8
<1>10. Recs(t) = c
  BY ONLY <1>5, <1>6, <1>7, <1>8, <1>9, SeqEqual
<1>11. \A j \in 1 .. Len(t) : Fits(t[j])
  BY ONLY <1>7, Fits(e), \A j \in 1 .. Len(seg) : Fits(seg[j])
<1>12. Len(t) # 0
  BY <1>7
<1> QED
  BY ONLY <1>1, <1>10, <1>11, <1>12, Together(c, v, Record) DEF Holds

(* What is known of the segments that hold a list.                         *)
LEMMA HoldsIs ==
  ASSUME NEW seg, NEW v, Holds(seg, v)
  PROVE  /\ seg \in Seq(Segment) /\ Len(seg) \in Nat \ {0}
         /\ \A i \in 1 .. Len(seg) : Fits(seg[i]) /\ seg[i] \in Segment
         /\ \E g : Chained(g, Recs(seg), Record) /\ g[Len(seg)] = v
<1>1. seg \in Seq(Segment) /\ Len(seg) # 0 /\ \A i \in 1 .. Len(seg) : Fits(seg[i])
  BY DEF Holds
<1>2. Len(Recs(seg)) = Len(seg)
  BY ONLY <1>1, RecsIs
<1>3. \E g : Chained(g, Recs(seg), Record) /\ g[Len(seg)] = v
  BY ONLY <1>2, Holds(seg, v) DEF Holds, Together
<1>4. \A i \in 1 .. Len(seg) : seg[i] \in Segment
  BY <1>1
<1>5. Len(seg) \in Nat \ {0}
  BY <1>1
<1> QED
  BY ONLY <1>1, <1>3, <1>4, <1>5

(* A record is stored in its segment.                                      *)
LEMMA SegmentPut ==
  ASSUME NEW seg, NEW v, Holds(seg, v), NEW g, Chained(g, Recs(seg), Record),
         g[Len(seg)] = v, NEW i, NEW p, NEW n, Located(seg, g, i, p, n),
         NEW r \in Record, NEW t, t = [seg EXCEPT ![i].recs[p] = r],
         NEW y, y = Stored(v, n, r)
  PROVE  Holds(t, y)
<1>1. /\ seg \in Seq(Segment) /\ Len(seg) \in Nat \ {0}
      /\ \A j \in 1 .. Len(seg) : Fits(seg[j]) /\ seg[j] \in Segment
  BY ONLY Holds(seg, v), HoldsIs
<1>2. /\ i \in 1 .. Len(seg) /\ p \in 1 .. Len(seg[i].recs)
      /\ n = Len(g[i - 1]) + p
  BY DEF Located
<1>3. PICK a : a = seg[i]
  OBVIOUS
<1>4. a \in Segment /\ Fits(a)
  BY ONLY <1>1, <1>2, <1>3
<1>5. a.recs \in Seq(Record) /\ a.max \in Nat /\ p \in 1 .. Len(a.recs)
  BY ONLY <1>2, <1>3, <1>4 DEF Segment
<1>6. PICK u : u = Stored(a.recs, p, r)
  OBVIOUS
<1>7. u \in Seq(Record) /\ Len(u) = Len(a.recs)
  <2>1. u \in Seq(Record) /\ Altered(u, a.recs, p, r)
    BY ONLY <1>5, <1>6, r \in Record, StoredIs
  <2> QED
    BY ONLY <2>1 DEF Altered
<1>8. PICK e : e = [a EXCEPT !.recs = u]
  OBVIOUS
<1>9. e \in Segment /\ e.recs = u /\ e.max = a.max
  BY ONLY <1>4, <1>7, <1>8 DEF Segment
<1>10. Fits(e)
  BY ONLY <1>4, <1>7, <1>9 DEF Fits
<1>11. t = Stored(seg, i, e)
  <2>1. [a EXCEPT !.recs[p] = r] = e
    BY ONLY <1>6, <1>8 DEF Stored
  <2> QED
    BY ONLY <1>3, <2>1, t = [seg EXCEPT ![i].recs[p] = r] DEF Stored
<1>12. PICK s \in Seq(Seq(Record)) :
         /\ s = Recs(seg) /\ Len(s) = Len(seg)
         /\ \A j \in 1 .. Len(seg) : s[j] = seg[j].recs
  BY <1>1, RecsIs
<1>13. PICK c : c = Stored(s, i, Stored(s[i], p, r))
  OBVIOUS
<1>14. /\ i \in 1 .. Len(s) /\ s[i] = a.recs /\ p \in 1 .. Len(s[i])
       /\ y = Stored(g[Len(s)], n, r) /\ Chained(g, s, Record)
  BY ONLY <1>2, <1>3, <1>5, <1>12, Chained(g, Recs(seg), Record),
          g[Len(seg)] = v,
          y = Stored(v, n, r)
<1>15. Together(c, y, Record)
  BY ONLY <1>2, <1>13, <1>14, r \in Record, s \in Seq(Seq(Record)), ChainPut
<1>16. c = Stored(Recs(seg), i, e.recs)
  BY ONLY <1>6, <1>9, <1>12, <1>13, <1>14
<1> QED
  BY ONLY <1>1, <1>2, <1>9, <1>10, <1>11, <1>15, <1>16, SegmentSwapped

(* A record is taken out of its segment.                                   *)
LEMMA SegmentCut ==
  ASSUME NEW seg, NEW v, Holds(seg, v), NEW g, Chained(g, Recs(seg), Record),
         g[Len(seg)] = v, NEW i, NEW p, NEW n, Located(seg, g, i, p, n),
         NEW t, t = [seg EXCEPT ![i].recs = RemoveAt(@, p)],
         NEW y, y = RemoveAt(v, n)
  PROVE  Holds(t, y)
<1>1. /\ seg \in Seq(Segment) /\ Len(seg) \in Nat \ {0}
      /\ \A j \in 1 .. Len(seg) : Fits(seg[j]) /\ seg[j] \in Segment
  BY ONLY Holds(seg, v), HoldsIs
<1>2. /\ i \in 1 .. Len(seg) /\ p \in 1 .. Len(seg[i].recs)
      /\ n = Len(g[i - 1]) + p
  BY DEF Located
<1>3. PICK a : a = seg[i]
  OBVIOUS
<1>4. a \in Segment /\ Fits(a)
  BY ONLY <1>1, <1>2, <1>3
<1>5. a.recs \in Seq(Record) /\ a.max \in Nat /\ p \in 1 .. Len(a.recs)
  BY ONLY <1>2, <1>3, <1>4 DEF Segment
<1>6. PICK u : u = RemoveAt(a.recs, p)
  OBVIOUS
<1>12. PICK s \in Seq(Seq(Record)) :
         /\ s = Recs(seg) /\ Len(s) = Len(seg)
         /\ \A j \in 1 .. Len(seg) : s[j] = seg[j].recs
  BY <1>1, RecsIs
<1>13. PICK c : c = Stored(s, i, u)
  OBVIOUS
<1>14. /\ i \in 1 .. Len(s) /\ s[i] = a.recs /\ p \in 1 .. Len(s[i])
       /\ y = RemoveAt(g[Len(s)], n) /\ Chained(g, s, Record)
       /\ u = RemoveAt(s[i], p)
  BY ONLY <1>2, <1>3, <1>5, <1>6, <1>12, Chained(g, Recs(seg), Record),
          g[Len(seg)] = v, y = RemoveAt(v, n)
<1>15. Together(c, y, Record) /\ u \in Seq(Record) /\ Len(u) = Len(s[i]) - 1
  BY ONLY <1>2, <1>13, <1>14, s \in Seq(Seq(Record)), ChainCut
<1>8. PICK e : e = [a EXCEPT !.recs = u]
  OBVIOUS
<1>9. e \in Segment /\ e.recs = u /\ e.max = a.max
  BY ONLY <1>4, <1>8, <1>15 DEF Segment
<1>10. Fits(e)
  <2>1. Len(u) <= Len(a.recs) /\ Len(u) \in Nat /\ Len(a.recs) \in Nat
    BY ONLY <1>5, <1>14, <1>15
  <2>2. Len(a.recs) <= a.max /\ a.max < SegmentSize + MoreSpace
    BY ONLY <1>4 DEF Fits
  <2>3. Len(u) <= a.max
    BY ONLY <1>5, <2>1, <2>2
  <2> QED
    BY ONLY <1>9, <2>2, <2>3 DEF Fits
<1>11. t = Stored(seg, i, e)
  BY ONLY <1>3, <1>6, <1>8, t = [seg EXCEPT ![i].recs = RemoveAt(@,
          p)] DEF Stored
<1>16. c = Stored(Recs(seg), i, e.recs)
  BY ONLY <1>9, <1>12, <1>13
<1> QED
  BY ONLY <1>1, <1>2, <1>9, <1>10, <1>11, <1>15, <1>16, SegmentSwapped

SetRecs(seg, k, u) == [seg EXCEPT ![k].recs = u]
SetMax(seg, k, m)  == [seg EXCEPT ![k].max = m]

(* Segment k comes to hold the records u, and has space for m.             *)
LEMMA SegmentFields ==
  ASSUME NEW seg \in Seq(Segment), NEW k \in 1 .. Len(seg),
         NEW u \in Seq(Record), NEW m \in Nat
  PROVE  /\ SetRecs(seg, k, u) = Stored(seg, k, [max |-> seg[k].max, recs |-> u])
         /\ SetMax(SetRecs(seg, k, u), k, m) =
              Stored(seg, k, [max |-> m, recs |-> u])
<1>1. PICK a \in Segment : a = seg[k]
  BY ONLY seg \in Seq(Segment), k \in 1 .. Len(seg)
<1>2. PICK b : b = [a EXCEPT !.recs = u]
  OBVIOUS
<1>3. b \in Segment /\ b = [max |-> a.max, recs |-> u]
  BY ONLY <1>2, a \in Segment, u \in Seq(Record) DEF Segment
<1>4. [b EXCEPT !.max = m] = [max |-> m, recs |-> u]
  BY ONLY <1>3, m \in Nat DEF Segment
<1>6. PICK d : d = SetRecs(seg, k, u)
  OBVIOUS
<1>7. PICK t : t = SetMax(d, k, m)
  OBVIOUS
<1>5. d = Stored(seg, k, b)
  BY ONLY <1>1, <1>2, <1>6 DEF Stored, SetRecs
<1>9. d \in Seq(Segment) /\ Altered(d, seg, k, b)
  BY ONLY <1>3, <1>5, seg \in Seq(Segment), k \in 1 .. Len(seg), StoredIs
<1>10. d[k] = b
  BY ONLY <1>9, k \in 1 .. Len(seg) DEF Altered
<1>11. t = Stored(d, k, [max |-> m, recs |-> u])
  BY ONLY <1>4, <1>7, <1>10 DEF Stored, SetMax
<1>12. Stored(d, k, [max |-> m, recs |-> u]) =
       Stored(seg, k, [max |-> m, recs |-> u])
  BY ONLY <1>5, seg \in Seq(Segment), k \in 1 .. Len(seg) DEF Stored
<1> QED
  BY ONLY <1>1, <1>3, <1>5, <1>6, <1>7, <1>11, <1>12

(* A record goes to the last segment, which may get more space for it.     *)
LEMMA SegmentAppend ==
  ASSUME NEW seg, NEW v, Holds(seg, v), NEW k, k = Len(seg), NEW r \in Record,
         NEW m \in Nat, Len(seg[k].recs) < m, m < SegmentSize + MoreSpace,
         NEW t, t = Stored(seg, k, [max |-> m, recs |-> Append(seg[k].recs, r)]),
         NEW y, y = Append(v, r)
  PROVE  Holds(t, y)
<1>1. /\ seg \in Seq(Segment) /\ k \in Nat \ {0} /\ k \in 1 .. Len(seg)
      /\ \A j \in 1 .. Len(seg) : Fits(seg[j]) /\ seg[j] \in Segment
  <2>1. /\ seg \in Seq(Segment) /\ Len(seg) \in Nat \ {0}
        /\ \A j \in 1 .. Len(seg) : Fits(seg[j]) /\ seg[j] \in Segment
    BY ONLY Holds(seg, v), HoldsIs
  <2> QED
    BY ONLY <2>1, k = Len(seg)
<1>2. PICK g : Chained(g, Recs(seg), Record) /\ g[k] = v
  BY ONLY Holds(seg, v), k = Len(seg), HoldsIs
<1>3. PICK a : a = seg[k]
  OBVIOUS
<1>4. a \in Segment
  BY ONLY <1>1, <1>3
<1>5. a.recs \in Seq(Record) /\ Len(a.recs) < m
  BY ONLY <1>3, <1>4, Len(seg[k].recs) < m DEF Segment
<1>6. PICK u : u = Append(a.recs, r)
  OBVIOUS
<1>12. PICK s \in Seq(Seq(Record)) :
         /\ s = Recs(seg) /\ Len(s) = Len(seg)
         /\ \A j \in 1 .. Len(seg) : s[j] = seg[j].recs
  BY <1>1, RecsIs
<1>13. PICK c : c = Stored(s, k, u)
  OBVIOUS
<1>14. /\ k = Len(s) /\ s[k] = a.recs /\ u = Append(s[k], r)
       /\ y = Append(g[k], r) /\ Chained(g, s, Record)
  BY ONLY <1>1, <1>2, <1>3, <1>6, <1>12, k = Len(seg), y = Append(v, r)
<1>15. Together(c, y, Record) /\ u \in Seq(Record) /\ Len(u) = Len(s[k]) + 1
  <2>1. Open(g, s, k, r, Record) /\ k # 0
    BY ONLY <1>1, <1>14, s \in Seq(Seq(Record)), r \in Record DEF Open
  <2>2. u = Append(s[k], r) /\ y = Append(g[k], r)
    BY ONLY <1>14
  <2>3. Together(c, y, Record)
    BY ONLY <1>13, <2>1, <2>2, ChainAppend
  <2>4. PICK b \in Seq(Record) : b = s[k]
    BY ONLY <1>5, <1>14
  <2>5. u \in Seq(Record) /\ Len(u) = Len(s[k]) + 1
    BY ONLY <2>2, <2>4, r \in Record, AppendProperties
  <2> QED
    BY ONLY <2>3, <2>5
<1>8. PICK e : e = [max |-> m, recs |-> u]
  OBVIOUS
<1>9. e \in Segment /\ e.recs = u /\ e.max = m
  BY ONLY <1>8, <1>15, m \in Nat DEF Segment
<1>10. Fits(e)
  <2>1. Len(u) <= m
    <3>1. PICK b \in Nat : b = Len(a.recs)
      BY ONLY <1>5
    <3>2. Len(u) = b + 1 /\ b < m
      BY ONLY <1>5, <1>14, <1>15, <3>1
    <3> QED
      BY ONLY <3>2, b \in Nat, m \in Nat
  <2> QED
    BY ONLY <1>9, <2>1, m < SegmentSize + MoreSpace DEF Fits
<1>11. t = Stored(seg, k, e)
  BY ONLY <1>3, <1>6, <1>8,
          t = Stored(seg, k, [max |-> m, recs |-> Append(seg[k].recs, r)])
<1>16. c = Stored(Recs(seg), k, e.recs)
  BY ONLY <1>9, <1>12, <1>13
<1> QED
  BY ONLY <1>1, <1>9, <1>10, <1>11, <1>15, <1>16, SegmentSwapped

(* A record starts a new segment.                                          *)
LEMMA SegmentNew ==
  ASSUME NEW seg, NEW v, Holds(seg, v), NEW r \in Record,
         NEW t, t = Append(seg, [max |-> MoreSpace, recs |-> <<r>>]),
         NEW y, y = Append(v, r)
  PROVE  Holds(t, y)
<1>1. /\ seg \in Seq(Segment) /\ Len(seg) \in Nat \ {0}
      /\ \A j \in 1 .. Len(seg) : Fits(seg[j]) /\ seg[j] \in Segment
  BY ONLY Holds(seg, v), HoldsIs
<1>2. PICK k \in Nat : k = Len(seg)
  BY ONLY <1>1
<1>3. PICK g : Chained(g, Recs(seg), Record) /\ g[k] = v
  BY ONLY <1>2, Holds(seg, v), HoldsIs
<1>4. PICK e : e = [max |-> MoreSpace, recs |-> <<r>>]
  OBVIOUS
<1>5. e \in Segment /\ e.recs = <<r>> /\ e.max = MoreSpace
  BY ONLY <1>4, r \in Record, IndexAssumption DEF Segment
<1>6. Fits(e)
  <2>1. Len(<<r>>) = 1
    OBVIOUS
  <2> QED
    BY ONLY <1>5, <2>1, IndexAssumption DEF Fits
<1>7. /\ t \in Seq(Segment) /\ Len(t) = k + 1 /\ t[k + 1] = e
      /\ \A j \in 1 .. k : t[j] = seg[j]
  BY ONLY <1>1, <1>2, <1>4, <1>5, AppendProperties,
          t = Append(seg, [max |-> MoreSpace, recs |-> <<r>>])
<1>8. PICK s \in Seq(Seq(Record)) :
        /\ s = Recs(seg) /\ Len(s) = k
        /\ \A j \in 1 .. k : s[j] = seg[j].recs
  BY ONLY <1>1, <1>2, RecsIs
<1>9. PICK c : c = Append(s, <<r>>)
  OBVIOUS
<1>10. Chained(g, s, Record) /\ k = Len(s) /\ y = Append(g[k], r)
  BY ONLY <1>3, <1>8, y = Append(v, r)
<1>11. /\ c \in Seq(Seq(Record)) /\ Len(c) = k + 1 /\ c[k + 1] = <<r>>
       /\ \A j \in 1 .. k : c[j] = s[j]
       /\ Together(c, y, Record)
  <2>1. Open(g, s, k, r, Record)
    BY ONLY <1>10, s \in Seq(Seq(Record)), r \in Record, k \in Nat DEF Open
  <2>2. y = Append(g[k], r)
    BY ONLY <1>10
  <2>3. Together(c, y, Record)
    BY ONLY <1>9, <2>1, <2>2, ChainExtended
  <2>4. <<r>> \in Seq(Record)
    BY ONLY r \in Record
  <2> QED
    BY ONLY <1>8, <1>9, <2>3, <2>4, s \in Seq(Seq(Record)), AppendProperties
<1>12. /\ Recs(t) \in Seq(Seq(Record)) /\ Len(Recs(t)) = Len(t)
       /\ \A j \in 1 .. Len(t) : Recs(t)[j] = t[j].recs
  BY ONLY <1>7, RecsIs
<1>13. ASSUME NEW j \in 1 .. k + 1
       PROVE  Recs(t)[j] = c[j] /\ Fits(t[j])
  <2>1. j = k + 1 \/ j \in 1 .. k
    OBVIOUS
  <2>2. CASE j = k + 1
    BY ONLY <1>5, <1>6, <1>7, <1>11, <1>12, <2>2, j \in 1 .. k + 1
  <2>3. CASE j \in 1 .. k
    BY ONLY <1>1, <1>2, <1>7, <1>8, <1>11, <1>12, <2>3, j \in 1 .. k + 1
  <2> QED
    BY ONLY <2>1, <2>2, <2>3
<1>14. Recs(t) = c
  BY ONLY <1>7, <1>11, <1>12, <1>13, SeqEqual
<1>15. Len(t) # 0 /\ \A j \in 1 .. Len(t) : Fits(t[j])
  BY ONLY <1>2, <1>7, <1>13, k \in Nat
<1> QED
  BY ONLY <1>7, <1>11, <1>14, <1>15 DEF Holds

---------------------------------------------------------------------------
(**************************************************************************)
(* The HIDX of a handle, and what growing the file and appending a record  *)
(* do to it.                                                               *)
(**************************************************************************)
(* A HIDX, and what the operators of SquishIndex take and return.          *)
Hidx == [num : Nat, buf : Nat, seg : Seq(Segment), alloc : Nat,
         lo : (Nat \ {0}) \cup {NoDelta}, hi : Int]
Status == [x : Hidx, f : Seq(Record), ok : BOOLEAN]

(* A blank record is a record, and no message.                             *)
LEMMA BlankIsRecord ==
  /\ Blank \in Record /\ Zero \in Record /\ <<Blank>> \in Seq(Record)
  /\ Zero = Blank /\ ~ Blank.ofs /\ NoUid \in 0 .. MaxUid
BY IndexAssumption DEF Blank, Zero, Record, NoUid

(* List w is f with the records rs written at place n.                     *)
Written(w, f, n, rs) ==
  /\ Len(w) >= Len(f) /\ Len(w) >= n + Len(rs) - 1
  /\ Len(w) = Len(f) \/ Len(w) = n + Len(rs) - 1
  /\ \A i \in 1 .. Len(w) :
       w[i] = IF i >= n /\ i < n + Len(rs) THEN rs[i - n + 1]
              ELSE IF i <= Len(f) THEN f[i] ELSE Zero

(* WriteAt writes the records and fills a gap with zeros.                  *)
LEMMA WriteAtIs ==
  ASSUME NEW f \in Seq(Record), NEW n \in Nat \ {0}, NEW rs \in Seq(Record),
         NEW w, w = WriteAt(f, n, rs)
  PROVE  w \in Seq(Record) /\ Written(w, f, n, rs)
<1>1. PICK a \in Nat : a = Len(f)
  OBVIOUS
<1>2. PICK b \in Nat : b = Len(rs)
  OBVIOUS
<1>3. PICK m \in Nat : /\ m = Most(a, n + b - 1)
                       /\ m >= a /\ m >= n + b - 1 /\ (m = a \/ m = n + b - 1)
  BY DEF Most
<1>4. w = [i \in 1 .. m |-> IF i >= n /\ i < n + b THEN rs[i - n + 1]
                            ELSE IF i <= a THEN f[i] ELSE Zero]
  BY ONLY <1>1, <1>2, <1>3, w = WriteAt(f, n, rs) DEF WriteAt
<1>5. ASSUME NEW i \in 1 .. m
      PROVE  (IF i >= n /\ i < n + b THEN rs[i - n + 1]
              ELSE IF i <= a THEN f[i] ELSE Zero) \in Record
  <2>1. CASE i >= n /\ i < n + b
    <3>1. i - n + 1 \in 1 .. b
      BY <2>1
    <3>2. rs[i - n + 1] \in Record
      BY ONLY <1>2, <3>1, rs \in Seq(Record)
    <3> QED
      BY ONLY <2>1, <3>2
  <2>2. CASE ~ (i >= n /\ i < n + b) /\ i <= a
    <3>1. i \in 1 .. a
      BY <2>2
    <3>2. f[i] \in Record
      BY ONLY <1>1, <3>1, f \in Seq(Record)
    <3> QED
      BY ONLY <2>2, <3>2
  <2>3. CASE ~ (i >= n /\ i < n + b) /\ ~ (i <= a)
    BY ONLY <2>3, BlankIsRecord
  <2> QED
    BY ONLY <2>1, <2>2, <2>3
<1>6. w \in Seq(Record) /\ Len(w) = m
  BY ONLY <1>4, <1>5, m \in Nat
<1>7. \A i \in 1 .. m :
        w[i] = IF i >= n /\ i < n + b THEN rs[i - n + 1]
               ELSE IF i <= a THEN f[i] ELSE Zero
  BY ONLY <1>4
<1> QED
  BY ONLY <1>1, <1>2, <1>3, <1>6, <1>7 DEF Written

(* List w has the first n elements of list f, or as many as f has.         *)
Keeps(w, f, n) ==
  Len(w) >= Len(f) /\ \A i \in 1 .. Len(f) : i <= n => w[i] = f[i]

(* What e has of s: all but the file, the segments and their space.        *)
Aside(e, s) ==
  /\ e.ok = s.ok /\ e.x.num = s.x.num /\ e.x.buf = s.x.buf
  /\ e.x.lo = s.x.lo /\ e.x.hi = s.x.hi

(* Growing the file leaves the records of the messages in it.              *)
LEMMA ExtendIs ==
  ASSUME NEW s \in Status, NEW e, e = Extend(s)
  PROVE  /\ e \in Status /\ Aside(e, s) /\ e.x.seg = s.x.seg
         /\ Keeps(e.f, s.f, s.x.num)
<1>1. s.x \in Hidx /\ s.f \in Seq(Record)
  BY DEF Status
<1>2. PICK m \in Nat : m = s.x.num
  BY ONLY <1>1 DEF Hidx
<1>3. CASE s.x.num <= s.x.alloc
  <2>1. e = s
    BY ONLY <1>3, e = Extend(s) DEF Extend
  <2>2. Keeps(s.f, s.f, s.x.num)
    BY ONLY <1>1 DEF Keeps
  <2> QED
    BY ONLY <2>1, <2>2, s \in Status DEF Aside
<1>4. CASE ~ (s.x.num <= s.x.alloc)
  <2>1. PICK k \in Nat \ {0} : k = m + Ahead
    BY IndexAssumption
  <2>2. PICK w : w = WriteAt(s.f, k, <<Blank>>)
    OBVIOUS
  <2>3. w \in Seq(Record) /\ Written(w, s.f, k, <<Blank>>)
    BY ONLY <1>1, <2>2, BlankIsRecord, k \in Nat \ {0}, WriteAtIs
  <2>4. e = [s EXCEPT !.x.alloc = k, !.f = w]
    BY ONLY <1>2, <1>4, <2>1, <2>2, e = Extend(s) DEF Extend
  <2>5. /\ e \in Status /\ Aside(e, s) /\ e.x.seg = s.x.seg /\ e.f = w
    BY ONLY <2>3, <2>4, s \in Status, k \in Nat \ {0} DEF Status, Hidx, Aside
  <2>6. Keeps(w, s.f, m)
    <3>1. PICK a \in Nat : a = Len(s.f)
      BY ONLY <1>1
    <3>2. Len(w) >= a
      BY ONLY <2>3, <3>1 DEF Written
    <3>3. ASSUME NEW i \in 1 .. a, i <= m PROVE w[i] = s.f[i]
      <4>1. i \in 1 .. Len(w) /\ ~ (i >= k) /\ i <= a
        BY ONLY <2>1, <2>3, <3>2, <3>3, IndexAssumption, m \in Nat, a \in Nat,
                i \in 1 .. a
      <4> QED
        BY ONLY <2>3, <3>1, <4>1 DEF Written
    <3> QED
      BY ONLY <3>1, <3>2, <3>3 DEF Keeps
  <2> QED
    BY ONLY <1>2, <2>5, <2>6
<1> QED
  BY ONLY <1>3, <1>4

(* A record is appended to the segments, which may need space for it, and  *)
(* the file for them.                                                      *)
LEMMA RecordAppended ==
  ASSUME NEW s \in Status, NEW v, Holds(s.x.seg, v), NEW r \in Record,
         NEW c, c = AppendIndexRecord(s, r), NEW y, y = Append(v, r)
  PROVE  /\ c \in Status /\ Aside(c, s) /\ Holds(c.x.seg, y)
         /\ Keeps(c.f, s.f, s.x.num)
<1>1. PICK e : e = Extend(s)
  OBVIOUS
<1>2. /\ e \in Status /\ Aside(e, s) /\ e.x.seg = s.x.seg
      /\ Keeps(e.f, s.f, s.x.num)
  BY ONLY <1>1, s \in Status, ExtendIs
<1>3. PICK seg : seg = e.x.seg
  OBVIOUS
<1>4. Holds(seg, v)
  BY ONLY <1>2, <1>3, Holds(s.x.seg, v)
<1>5. /\ seg \in Seq(Segment) /\ Len(seg) \in Nat \ {0}
      /\ \A j \in 1 .. Len(seg) : Fits(seg[j]) /\ seg[j] \in Segment
  BY ONLY <1>4, HoldsIs
<1>6. PICK k \in Nat \ {0} : k = Len(seg)
  BY ONLY <1>5
<1>7. k \in 1 .. Len(seg) /\ k > 0
  BY <1>6
<1>8. seg[k] \in Segment /\ Fits(seg[k])
  BY ONLY <1>5, <1>7
<1>9. PICK m \in Nat : m = seg[k].max
  BY ONLY <1>8 DEF Segment
<1>10. seg[k].recs \in Seq(Record)
  BY ONLY <1>8 DEF Segment
<1>11. PICK u \in Nat : u = Len(seg[k].recs)
  BY ONLY <1>10
<1>12. u <= m /\ m < SegmentSize + MoreSpace
  BY ONLY <1>8, <1>9, <1>11 DEF Fits
<1>13. c = IF k > 0 /\ u < m
           THEN [e EXCEPT !.x.seg[k].recs = Append(@, r)]
           ELSE IF k > 0 /\ m < SegmentSize
           THEN [e EXCEPT !.x.seg[k].recs = Append(@, r),
                          !.x.seg[k].max = @ + MoreSpace]
           ELSE [e EXCEPT !.x.seg = Append(@, [max |-> MoreSpace, recs |-> <<r>>])]
  BY ONLY <1>1, <1>3, <1>6, <1>9, <1>11, c = AppendIndexRecord(s, r), SMTT(40)
     DEF AppendIndexRecord
<1>14. PICK t : t = c.x.seg
  OBVIOUS
<1>15. ASSUME Holds(t, y), c = [e EXCEPT !.x.seg = t]
       PROVE  /\ c \in Status /\ Aside(c, s) /\ Holds(c.x.seg, y)
              /\ Keeps(c.f, s.f, s.x.num)
  <2>1. t \in Seq(Segment)
    BY ONLY <1>15 DEF Holds
  <2>2. c \in Status /\ Aside(c, e) /\ c.f = e.f
    BY ONLY <1>2, <1>15, <2>1 DEF Status, Hidx, Aside
  <2> QED
    BY ONLY <1>2, <1>14, <1>15, <2>2 DEF Aside
<1>19. PICK w \in Seq(Record) : w = Append(seg[k].recs, r)
  BY ONLY <1>10, r \in Record, AppendProperties
<1>20. PICK b : b = SetRecs(seg, k, w)
  OBVIOUS
<1>21. PICK d : d = [e EXCEPT !.x.seg[k].recs = Append(@, r)]
  OBVIOUS
<1>22. d = [e EXCEPT !.x.seg = b]
  BY ONLY <1>3, <1>19, <1>20, <1>21 DEF SetRecs
<1>23. b = Stored(seg, k, [max |-> m, recs |-> w])
  BY ONLY <1>5, <1>7, <1>9, <1>20, w \in Seq(Record), m \in Nat, SegmentFields
<1>24. b \in Seq(Segment) /\ b[k].max = m
  <2>1. [max |-> m, recs |-> w] \in Segment
    BY ONLY w \in Seq(Record), m \in Nat DEF Segment
  <2>2. b \in Seq(Segment) /\ Altered(b, seg, k, [max |-> m, recs |-> w])
    BY ONLY <1>5, <1>7, <1>23, <2>1, StoredIs
  <2>3. b[k] = [max |-> m, recs |-> w]
    BY ONLY <1>7, <2>2 DEF Altered
  <2> QED
    BY ONLY <2>2, <2>3
<1>25. d \in Status /\ d.x.seg = b
  BY ONLY <1>2, <1>22, <1>24 DEF Status, Hidx
<1>16. CASE u < m
  <2>1. c = d
    BY ONLY <1>7, <1>13, <1>16, <1>21
  <2>4. Holds(b, y)
    BY ONLY <1>4, <1>6, <1>11, <1>12, <1>16, <1>19, <1>23, r \in Record,
            m \in Nat,
            y = Append(v, r), SegmentAppend
  <2> QED
    BY ONLY <1>14, <1>15, <1>22, <1>25, <2>1, <2>4
<1>17. CASE ~ (u < m) /\ m < SegmentSize
  <2>1. PICK n \in Nat : n = m + MoreSpace /\ u < n /\ n < SegmentSize + MoreSpace
    BY ONLY <1>12, <1>17, IndexAssumption, m \in Nat, u \in Nat
  <2>2. c = [d EXCEPT !.x.seg[k].max = @ + MoreSpace]
    <3>1. PICK q : q = [e EXCEPT !.x.seg[k].recs = Append(@, r),
                                 !.x.seg[k].max = @ + MoreSpace]
      OBVIOUS
    <3>2. c = q
      BY ONLY <1>7, <1>13, <1>17, <3>1
    <3>3. q = [d EXCEPT !.x.seg[k].max = @ + MoreSpace]
      BY ONLY <1>21, <3>1, ZenonT(60)
    <3> QED
      BY ONLY <3>2, <3>3
  <2>3. PICK a : a = SetMax(b, k, n)
    OBVIOUS
  <2>4. c = [d EXCEPT !.x.seg = a]
    BY ONLY <1>24, <1>25, <2>1, <2>2, <2>3 DEF SetMax
  <2>5. c = [e EXCEPT !.x.seg = a]
    BY ONLY <1>2, <1>22, <2>4 DEF Status, Hidx
  <2>6. a = Stored(seg, k, [max |-> n, recs |-> w])
    BY ONLY <1>5, <1>7, <1>20, <2>3, w \in Seq(Record), n \in Nat,
            SegmentFields
  <2>8. Holds(a, y)
    BY ONLY <1>4, <1>6, <1>11, <1>19, <2>1, <2>6, r \in Record, n \in Nat,
            y = Append(v, r), SegmentAppend
  <2>9. t = a
    BY ONLY <1>2, <1>14, <2>5 DEF Status, Hidx
  <2> QED
    BY ONLY <1>15, <2>5, <2>8, <2>9
<1>18. CASE ~ (u < m) /\ ~ (m < SegmentSize)
  <2>1. PICK q : q = Append(seg, [max |-> MoreSpace, recs |-> <<r>>])
    OBVIOUS
  <2>2. c = [e EXCEPT !.x.seg = q]
    BY ONLY <1>2, <1>3, <1>13, <1>18, <2>1 DEF Status, Hidx
  <2>3. Holds(q, y)
    BY ONLY <1>4, <2>1, r \in Record, y = Append(v, r), SegmentNew
  <2>4. t = q
    BY ONLY <1>2, <1>14, <2>2 DEF Status, Hidx
  <2> QED
    BY ONLY <1>15, <2>2, <2>3, <2>4
<1> QED
  BY ONLY <1>16, <1>17, <1>18

---------------------------------------------------------------------------
(**************************************************************************)
(* What a handle sees, and putting a record.                               *)
(**************************************************************************)
(* Record i is outside the range of changed records.                       *)
Outside(x, i) == x.lo = NoDelta \/ i < x.lo \/ i > x.hi

(* What is outside is in the file as it is in the list, up to m.           *)
Synced(x, f, v, m) ==
  \A i \in 1 .. m : Outside(x, i) => i <= Len(f) /\ f[i] = v[i]

(* What a handle sees of the file is the list v, and when it has a buffer  *)
(* the file differs, up to record m, only where records were changed.      *)
Held(x, f, v, m) ==
  /\ x \in Hidx /\ f \in Seq(Record) /\ v \in Seq(Record)
  /\ m \in Nat /\ m <= Len(v)
  /\ x.buf = 0 => v = f /\ x.seg = <<>>
  /\ x.buf # 0 => Holds(x.seg, v) /\ Synced(x, f, v, m)

(* What a step of the buffer leaves alone.                                 *)
Steady(t, s) ==
  t \in Status /\ t.ok = s.ok /\ t.x.num = s.x.num /\ t.x.buf = s.x.buf

(* Touching n takes n, and nothing that was inside, out of the outside.    *)
LEMMA TouchIs ==
  ASSUME NEW s \in Status, NEW n \in Nat \ {0}, NEW t, t = Touch(s, n)
  PROVE  /\ Steady(t, s) /\ t.f = s.f /\ t.x.seg = s.x.seg
         /\ \A i \in Nat : Outside(t.x, i) => i # n /\ Outside(s.x, i)
<1>1. s.x \in Hidx
  BY DEF Status
<1>2. /\ s.x.lo \in Int /\ s.x.hi \in Int /\ s.x.lo \in (Nat \ {0}) \cup {NoDelta}
  BY ONLY <1>1 DEF Hidx, NoDelta
<1>3. PICK lo \in (Nat \ {0}) \cup {NoDelta} : lo = s.x.lo
  BY ONLY <1>2
<1>4. PICK hi \in Int : hi = s.x.hi
  BY ONLY <1>2
<1>5. PICK l \in Nat \ {0} : l = IF lo = NoDelta THEN n ELSE Least(lo, n)
  BY DEF Least, NoDelta
<1>6. PICK h \in Int : h = IF hi = NoDelta THEN n ELSE Most(hi, n)
  BY DEF Most
<1>7. t = [s EXCEPT !.x.lo = l, !.x.hi = h]
  BY ONLY <1>3, <1>4, <1>5, <1>6, s \in Status, t = Touch(s, n)
     DEF Touch, Status, Hidx
<1>8. t \in Status /\ t.ok = s.ok /\ t.x.num = s.x.num /\ t.x.buf = s.x.buf
  BY ONLY <1>7, s \in Status, l \in Nat \ {0}, h \in Int DEF Status, Hidx
<1>9. t.x.lo = l /\ t.x.hi = h /\ t.f = s.f /\ t.x.seg = s.x.seg
  BY ONLY <1>7, s \in Status DEF Status, Hidx
<1>10. ASSUME NEW i \in Nat, Outside(t.x, i) PROVE i # n /\ Outside(s.x, i)
  <2>1. i < l \/ i > h
    BY ONLY <1>9, <1>10, l \in Nat \ {0} DEF Outside, NoDelta
  <2>2. l <= n /\ h >= n /\ (lo # NoDelta => l <= lo) /\ h >= hi
    BY ONLY <1>5, <1>6, n \in Nat \ {0}, l \in Nat \ {0}, h \in Int,
            lo \in (Nat \ {0}) \cup {NoDelta}, hi \in Int DEF Least, Most, NoDelta
  <2>3. i # n /\ (lo = NoDelta \/ i < lo \/ i > hi)
    BY ONLY <2>1, <2>2, i \in Nat, n \in Nat \ {0}, l \in Nat \ {0}, h \in Int,
            lo \in (Nat \ {0}) \cup {NoDelta}, hi \in Int DEF NoDelta
  <2> QED
    BY ONLY <1>3, <1>4, <2>3 DEF Outside
<1> QED
  BY ONLY <1>8, <1>9, <1>10 DEF Steady

(* List y is v with r for its n'th element, or behind its last.            *)
Placed(y, v, n, r) ==
  \/ n <= Len(v) /\ y = Stored(v, n, r)
  \/ n = Len(v) + 1 /\ y = Append(v, r)

(* The list after placing.                                                 *)
LEMMA PlacedIs ==
  ASSUME NEW v \in Seq(Record), NEW n \in Nat \ {0}, NEW r \in Record,
         NEW y, Placed(y, v, n, r)
  PROVE  /\ y \in Seq(Record) /\ n <= Len(v) + 1
         /\ Len(y) = IF n <= Len(v) THEN Len(v) ELSE n
         /\ \A i \in 1 .. Len(y) : y[i] = IF i = n THEN r ELSE v[i]
<1>1. PICK a \in Nat : a = Len(v)
  OBVIOUS
<1>2. CASE n <= a /\ y = Stored(v, n, r)
  <2>1. n \in 1 .. Len(v)
    BY <1>1, <1>2
  <2>2. y \in Seq(Record) /\ Altered(y, v, n, r)
    BY ONLY <1>2, <2>1, v \in Seq(Record), r \in Record, StoredIs
  <2>3. Len(y) = a /\ \A i \in 1 .. a : y[i] = IF i = n THEN r ELSE v[i]
    BY ONLY <1>1, <2>2 DEF Altered
  <2>4. n <= a + 1
    BY <1>2
  <2> QED
    BY ONLY <1>1, <1>2, <2>2, <2>3, <2>4
<1>3. CASE n = a + 1 /\ y = Append(v, r)
  <2>1. /\ y \in Seq(Record) /\ Len(y) = a + 1 /\ y[a + 1] = r
        /\ \A i \in 1 .. a : y[i] = v[i]
    BY ONLY <1>1, <1>3, v \in Seq(Record), r \in Record, AppendProperties
  <2>2. ~ (n <= a) /\ n <= a + 1 /\ \A i \in 1 .. n : i # n => i \in 1 .. a
    BY <1>3
  <2>3. \A i \in 1 .. n : y[i] = IF i = n THEN r ELSE v[i]
    BY ONLY <1>3, <2>1, <2>2
  <2> QED
    BY ONLY <1>1, <1>3, <2>1, <2>2, <2>3
<1> QED
  BY ONLY <1>1, <1>2, <1>3, Placed(y, v, n, r) DEF Placed

(* Writing one record at or right behind the end of the file places it.    *)
LEMMA WriteOneIs ==
  ASSUME NEW f \in Seq(Record), NEW n \in Nat \ {0}, NEW r \in Record,
         NEW y, Placed(y, f, n, r), NEW w, w = WriteAt(f, n, <<r>>)
  PROVE  w = y
<1>1. PICK a \in Nat : a = Len(f)
  OBVIOUS
<1>2. /\ y \in Seq(Record) /\ n <= a + 1
      /\ Len(y) = IF n <= a THEN a ELSE n
      /\ \A i \in 1 .. Len(y) : y[i] = IF i = n THEN r ELSE f[i]
  BY <1>1, PlacedIs
<1>3. <<r>> \in Seq(Record) /\ Len(<<r>>) = 1 /\ <<r>>[1] = r
  BY ONLY r \in Record
<1>4. w \in Seq(Record) /\ Written(w, f, n, <<r>>)
  BY ONLY <1>3, f \in Seq(Record), n \in Nat \ {0}, w = WriteAt(f, n, <<r>>),
          WriteAtIs
<1>5. PICK m \in Nat : m = Len(w)
  BY ONLY <1>4
<1>6. /\ m >= a /\ m >= n + 1 - 1 /\ (m = a \/ m = n + 1 - 1)
      /\ \A i \in 1 .. m :
           w[i] = IF i >= n /\ i < n + 1 THEN <<r>>[i - n + 1]
                  ELSE IF i <= a THEN f[i] ELSE Zero
  BY ONLY <1>1, <1>3, <1>4, <1>5 DEF Written
<1>7. m = Len(y)
  BY ONLY <1>2, <1>6, m \in Nat, a \in Nat, n \in Nat \ {0}
<1>8. ASSUME NEW i \in 1 .. m PROVE w[i] = y[i]
  <2>1. (i >= n /\ i < n + 1 <=> i = n) /\ (i = n => i - n + 1 = 1)
    OBVIOUS
  <2>2. i # n => i <= a
    BY ONLY <1>2, <1>7, i \in 1 .. m, a \in Nat, n \in Nat \ {0}, m \in Nat
  <2> QED
    BY ONLY <1>2, <1>3, <1>6, <1>7, <2>1, <2>2, i \in 1 .. m
<1> QED
  BY ONLY <1>2, <1>4, <1>5, <1>7, <1>8, SeqEqual

(* Storing a record of the list, or the one behind the last message,       *)
(* places it in the list, and with a buffer the range takes it in.         *)
LEMMA EntryPut ==
  ASSUME NEW s \in Status, NEW v, NEW m, Held(s.x, s.f, v, m),
         NEW n \in Nat \ {0}, n <= Len(v) \/ n = s.x.num + 1,
         NEW r \in Record, NEW y, Placed(y, v, n, r),
         NEW k \in Nat, k <= m \/ (k = m + 1 /\ n = k),
         NEW t, t = SidxPut(s, n, r)
  PROVE  Steady(t, s) /\ Held(t.x, t.f, y, k)
<1>1. /\ s.x \in Hidx /\ s.f \in Seq(Record) /\ v \in Seq(Record)
      /\ m \in Nat /\ m <= Len(v)
  BY DEF Held
<1>2. PICK a \in Nat : a = Len(v)
  BY <1>1
<1>3. /\ y \in Seq(Record) /\ n <= a + 1
      /\ Len(y) = IF n <= a THEN a ELSE n
      /\ \A i \in 1 .. Len(y) : y[i] = IF i = n THEN r ELSE v[i]
  BY <1>1, <1>2, PlacedIs
<1>4. k <= Len(y) /\ m <= a
  BY <1>1, <1>2, <1>3
<1>5. CASE s.x.buf = 0
  <2>1. v = s.f /\ s.x.seg = <<>>
    BY ONLY <1>5, Held(s.x, s.f, v, m) DEF Held
  <2>2. PICK w : w = WriteAt(s.f, n, <<r>>)
    OBVIOUS
  <2>3. w = y
    <3>1. s.f \in Seq(Record) /\ Placed(y, s.f, n, r)
      BY ONLY <1>1, <2>1, Placed(y, v, n, r)
    <3> QED
      BY ONLY <2>2, <3>1, n \in Nat \ {0}, r \in Record, WriteOneIs
  <2>4. t = [s EXCEPT !.f = w]
    BY ONLY <1>5, <2>2, t = SidxPut(s, n, r) DEF SidxPut
  <2>5. Steady(t, s) /\ t.x = s.x /\ t.f = y
    BY ONLY <1>3, <2>3, <2>4, s \in Status DEF Status, Steady
  <2> QED
    BY ONLY <1>1, <1>3, <1>4, <1>5, <2>1, <2>5, k \in Nat DEF Held
<1>6. ASSUME NEW c, Steady(c, s), s.x.buf # 0, c.x.lo = s.x.lo, c.x.hi = s.x.hi,
             Holds(c.x.seg, y), Keeps(c.f, s.f, m), t = Touch(c, n)
      PROVE  Steady(t, s) /\ Held(t.x, t.f, y, k)
  <2>1. c \in Status
    BY ONLY <1>6 DEF Steady
  <2>2. /\ Steady(t, c) /\ t.f = c.f /\ t.x.seg = c.x.seg
        /\ \A i \in Nat : Outside(t.x, i) => i # n /\ Outside(c.x, i)
    BY ONLY <1>6, <2>1, n \in Nat \ {0}, TouchIs
  <2>3. Steady(t, s)
    BY ONLY <1>6, <2>2 DEF Steady
  <2>4. t.x \in Hidx /\ t.f \in Seq(Record)
    BY ONLY <2>3 DEF Steady, Status
  <2>5. Synced(s.x, s.f, v, m)
    BY ONLY <1>6, Held(s.x, s.f, v, m) DEF Held
  <2>6. ASSUME NEW i \in 1 .. k, Outside(t.x, i)
        PROVE  i <= Len(t.f) /\ t.f[i] = y[i]
    <3>1. i \in Nat /\ i # n /\ Outside(c.x, i)
      <4>1. i \in Nat
        OBVIOUS
      <4> QED
        BY ONLY <2>2, <2>6, <4>1
    <3>2. Outside(s.x, i)
      BY ONLY <1>6, <3>1 DEF Outside
    <3>3. i \in 1 .. m
      BY ONLY <1>1, <3>1, i \in 1 .. k, k \in Nat, n \in Nat \ {0},
              k <= m \/ (k = m + 1 /\ n = k)
    <3>4. i <= Len(s.f) /\ s.f[i] = v[i]
      BY ONLY <2>5, <3>2, <3>3 DEF Synced
    <3>5. PICK b \in Nat : b = Len(s.f)
      BY ONLY <1>1
    <3>6. PICK d \in Nat : d = Len(c.f)
      BY ONLY <2>2, <2>4
    <3>7. i \in 1 .. b /\ i <= m
      BY ONLY <3>3, <3>4, <3>5, <1>1
    <3>8. c.f[i] = s.f[i] /\ d >= b
      BY ONLY <1>6, <3>5, <3>6, <3>7 DEF Keeps
    <3>9. i <= d
      BY ONLY <3>7, <3>8, b \in Nat, d \in Nat
    <3>10. i \in 1 .. Len(y)
      BY ONLY <1>3, <1>4, i \in 1 .. k, k \in Nat, a \in Nat, n \in Nat \ {0}
    <3>11. y[i] = v[i]
      BY ONLY <1>3, <3>1, <3>10
    <3> QED
      BY ONLY <2>2, <3>4, <3>6, <3>8, <3>9, <3>11
  <2>7. Synced(t.x, t.f, y, k)
    BY ONLY <2>6 DEF Synced
  <2>8. t.x.buf # 0 /\ Holds(t.x.seg, y)
    BY ONLY <1>6, <2>2, <2>3 DEF Steady
  <2> QED
    BY ONLY <1>3, <1>4, <2>3, <2>4, <2>7, <2>8, k \in Nat DEF Held
<1>7. CASE s.x.buf # 0 /\ n <= a
  <2>1. Holds(s.x.seg, v)
    BY ONLY <1>7, Held(s.x, s.f, v, m) DEF Held
  <2>2. PICK seg : seg = s.x.seg /\ seg \in Seq(Segment)
    BY ONLY <2>1 DEF Holds
  <2>3. SegmentsOf(s.x, n) # {}
    BY ONLY <1>2, <1>7, <2>1, n \in Nat \ {0}, SegmentFound
  <2>4. PICK i : i = CHOOSE j \in SegmentsOf(s.x, n) : TRUE
    OBVIOUS
  <2>5. i \in SegmentsOf(s.x, n)
    BY ONLY <2>3, <2>4
  <2>6. PICK p : p = n - Before(s.x, i)
    OBVIOUS
  <2>7. PICK c : c = [s EXCEPT !.x.seg[i].recs[n - Before(s.x, i)] = r]
    OBVIOUS
  <2>8. t = Touch(c, n)
    BY ONLY <1>7, <2>3, <2>4, <2>7, t = SidxPut(s, n, r) DEF SidxPut
  <2>9. PICK g : Chained(g, Recs(seg), Record) /\ g[Len(seg)] = v
    BY ONLY <2>1, <2>2, HoldsIs
  <2>10. Located(seg, g, i, p, n)
    BY ONLY <2>2, <2>5, <2>6, <2>9, n \in Nat \ {0}, SegmentIs
  <2>11. PICK b : b = [seg EXCEPT ![i].recs[p] = r]
    OBVIOUS
  <2>12. y = Stored(v, n, r)
    BY ONLY <1>2, <1>7, Placed(y, v, n, r), a \in Nat,
            n \in Nat \ {0} DEF Placed
  <2>13. Holds(b, y)
    BY ONLY <2>1, <2>2, <2>9, <2>10, <2>11, <2>12, r \in Record, SegmentPut
  <2>14. c = [s EXCEPT !.x.seg = b]
    BY ONLY <2>2, <2>6, <2>7, <2>11
  <2>15. b \in Seq(Segment)
    BY ONLY <2>13 DEF Holds
  <2>16. /\ Steady(c, s) /\ c.x.lo = s.x.lo /\ c.x.hi = s.x.hi
         /\ c.x.seg = b /\ c.f = s.f
    BY ONLY <2>14, <2>15, s \in Status DEF Steady, Status, Hidx
  <2>17. Keeps(c.f, s.f, m)
    BY ONLY <1>1, <2>16 DEF Keeps
  <2> QED
    BY ONLY <1>6, <1>7, <2>8, <2>13, <2>16, <2>17
<1>8. CASE s.x.buf # 0 /\ ~ (n <= a)
  <2>1. Holds(s.x.seg, v)
    BY ONLY <1>8, Held(s.x, s.f, v, m) DEF Held
  <2>2. SegmentsOf(s.x, n) = {}
    BY ONLY <1>2, <1>8, <2>1, n \in Nat \ {0}, SegmentFound
  <2>3. n = s.x.num + 1
    BY ONLY <1>2, <1>8, n <= Len(v) \/ n = s.x.num + 1
  <2>4. PICK c : c = AppendIndexRecord(s, r)
    OBVIOUS
  <2>5. t = Touch(c, n)
    BY ONLY <1>8, <2>2, <2>3, <2>4, t = SidxPut(s, n, r) DEF SidxPut
  <2>6. y = Append(v, r)
    BY ONLY <1>2, <1>8, Placed(y, v, n, r) DEF Placed
  <2>7. /\ c \in Status /\ Aside(c, s) /\ Holds(c.x.seg, y)
        /\ Keeps(c.f, s.f, s.x.num)
    BY ONLY <2>1, <2>4, <2>6, s \in Status, r \in Record, RecordAppended
  <2>8. m <= s.x.num /\ s.x.num \in Nat
    <3>1. s.x.num \in Nat
      BY ONLY <1>1 DEF Hidx
    <3>2. PICK b \in Nat : b = s.x.num
      BY ONLY <3>1
    <3>3. m <= a /\ n <= a + 1 /\ n = b + 1
      BY ONLY <1>3, <1>4, <2>3, <3>2
    <3>4. m <= b
      BY ONLY <1>1, <1>8, <3>3, a \in Nat, b \in Nat
    <3> QED
      BY ONLY <3>2, <3>4, <3>1
  <2>9. Keeps(c.f, s.f, m)
    <3>1. PICK b \in Nat : b = s.x.num
      BY ONLY <2>8
    <3>2. \A i \in 1 .. Len(s.f) : i <= m => i <= b
      <4>1. Len(s.f) \in Nat
        BY ONLY <1>1
      <4> QED
        BY ONLY <1>1, <2>8, <3>1, <4>1
    <3> QED
      BY ONLY <2>7, <3>1, <3>2 DEF Keeps
  <2>10. Steady(c, s) /\ c.x.lo = s.x.lo /\ c.x.hi = s.x.hi
    BY ONLY <2>7 DEF Steady, Aside
  <2> QED
    BY ONLY <1>6, <1>8, <2>5, <2>7, <2>9, <2>10
<1> QED
  BY ONLY <1>5, <1>7, <1>8

---------------------------------------------------------------------------
(**************************************************************************)
(* Removing a record.                                                      *)
(**************************************************************************)
(* List v without element n, and with a blank one behind the others.       *)
Dropped(v, n) == Append(RemoveAt(v, n), Blank)

(* Dropping keeps the length: a blank record comes in at the end.          *)
LEMMA DroppedIs ==
  ASSUME NEW v \in Seq(Record), NEW n \in 1 .. Len(v), NEW y, y = Dropped(v, n)
  PROVE  /\ y \in Seq(Record) /\ Len(y) = Len(v)
         /\ \A i \in 1 .. Len(v) :
              y[i] = IF i < n THEN v[i] ELSE IF i < Len(v) THEN v[i + 1] ELSE Blank
<1>1. PICK a \in Nat : a = Len(v)
  OBVIOUS
<1>2. PICK q : q = RemoveAt(v, n)
  OBVIOUS
<1>3. q \in Seq(Record) /\ Missing(q, v, n)
  BY ONLY <1>2, v \in Seq(Record), n \in 1 .. Len(v), RemoveAtIs
<1>4. PICK b \in Nat : b = a - 1
  BY <1>1
<1>5. Len(q) = b /\ \A i \in 1 .. b : q[i] = IF i < n THEN v[i] ELSE v[i + 1]
  BY ONLY <1>1, <1>3, <1>4 DEF Missing
<1>6. y = Append(q, Blank)
  BY ONLY <1>2, y = Dropped(v, n) DEF Dropped
<1>7. /\ y \in Seq(Record) /\ Len(y) = b + 1 /\ y[b + 1] = Blank
      /\ \A i \in 1 .. b : y[i] = q[i]
  BY ONLY <1>3, <1>5, <1>6, BlankIsRecord, AppendProperties
<1>8. b + 1 = a /\ n <= a
  BY <1>1, <1>4
<1>9. ASSUME NEW i \in 1 .. a
      PROVE  y[i] = IF i < n THEN v[i] ELSE IF i < a THEN v[i + 1] ELSE Blank
  <2>1. CASE i = a
    <3>1. ~ (i < n) /\ ~ (i < a)
      BY ONLY <1>8, <2>1, a \in Nat, n \in 1 .. Len(v), <1>1
    <3> QED
      BY ONLY <1>7, <1>8, <2>1, <3>1
  <2>2. CASE i # a
    <3>1. i < a /\ i \in 1 .. b
      BY ONLY <1>4, <2>2, a \in Nat, i \in 1 .. a
    <3> QED
      BY ONLY <1>5, <1>7, <3>1
  <2> QED
    BY ONLY <2>1, <2>2
<1> QED
  BY ONLY <1>1, <1>7, <1>8, <1>9

(* Removing a record of the messages drops it from the list, also after    *)
(* the message was counted off.                                            *)
LEMMA EntryRemoved ==
  ASSUME NEW s \in Status, NEW v, NEW m, Held(s.x, s.f, v, m),
         NEW n \in 1 .. m, m - 1 <= s.x.num,
         NEW y, y = Dropped(v, n), NEW t, t = RemoveIndexEntry(s, n)
  PROVE  Steady(t, s) /\ Held(t.x, t.f, y, m - 1)
<1>1. /\ s.x \in Hidx /\ s.f \in Seq(Record) /\ v \in Seq(Record)
      /\ m \in Nat /\ m <= Len(v)
  BY DEF Held
<1>2. PICK a \in Nat : a = Len(v)
  BY <1>1
<1>3. n \in 1 .. Len(v) /\ n <= a /\ n \in Nat \ {0} /\ m <= a
  BY <1>1, <1>2
<1>4. /\ y \in Seq(Record) /\ Len(y) = a
      /\ \A i \in 1 .. a :
           y[i] = IF i < n THEN v[i] ELSE IF i < a THEN v[i + 1] ELSE Blank
  BY ONLY <1>1, <1>2, <1>3, y = Dropped(v, n), DroppedIs
<1>5. PICK k \in Nat : k = m - 1
  BY <1>1
<1>6. k <= Len(y)
  BY ONLY <1>3, <1>4, <1>5, <1>1, a \in Nat
<1>7. CASE s.x.buf = 0
  <2>1. v = s.f /\ s.x.seg = <<>> /\ ~ (n > Len(s.f))
    BY ONLY <1>2, <1>3, <1>7, Held(s.x, s.f, v, m) DEF Held
  <2>2. t = [s EXCEPT !.f = IF n > Len(@) THEN @ ELSE Append(RemoveAt(@, n), Blank)]
    BY ONLY <1>7, t = RemoveIndexEntry(s, n) DEF RemoveIndexEntry,
            RemoveFromFile
  <2>3. t = [s EXCEPT !.f = y]
    BY ONLY <2>1, <2>2, y = Dropped(v, n) DEF Dropped
  <2>4. Steady(t, s) /\ t.x = s.x /\ t.f = y
    BY ONLY <1>4, <2>3, s \in Status DEF Status, Steady
  <2> QED
    BY ONLY <1>1, <1>4, <1>5, <1>6, <1>7, <2>1, <2>4, k \in Nat DEF Held
<1>8. CASE s.x.buf # 0
  <2>1. Holds(s.x.seg, v) /\ Synced(s.x, s.f, v, m)
    BY ONLY <1>8, Held(s.x, s.f, v, m) DEF Held
  <2>2. PICK seg : seg = s.x.seg /\ seg \in Seq(Segment)
    BY ONLY <2>1 DEF Holds
  <2>3. SegmentsOf(s.x, n) # {}
    BY ONLY <1>2, <1>3, <2>1, SegmentFound
  <2>4. PICK i : i = CHOOSE j \in SegmentsOf(s.x, n) : TRUE
    OBVIOUS
  <2>5. i \in SegmentsOf(s.x, n)
    BY ONLY <2>3, <2>4
  <2>6. PICK p : p = n - Before(s.x, i)
    OBVIOUS
  <2>7. PICK d : d = [s EXCEPT !.x.seg[i].recs = RemoveAt(@, n - Before(s.x, i))]
    OBVIOUS
  <2>8. PICK c : c = AppendIndexRecord(d, Blank)
    OBVIOUS
  <2>9. t = [c EXCEPT !.x.lo = IF @ = NoDelta THEN n ELSE Least(@, n),
                      !.x.hi = Len(Buffered(c.x))]
    BY ONLY <1>8, <2>3, <2>4, <2>7, <2>8, t = RemoveIndexEntry(s, n)
       DEF RemoveIndexEntry, RemoveFromSegment
  <2>10. PICK g : Chained(g, Recs(seg), Record) /\ g[Len(seg)] = v
    BY ONLY <2>1, <2>2, HoldsIs
  <2>11. Located(seg, g, i, p, n)
    BY ONLY <1>3, <2>2, <2>5, <2>6, <2>10, SegmentIs
  <2>12. PICK b : b = [seg EXCEPT ![i].recs = RemoveAt(@, p)]
    OBVIOUS
  <2>13. PICK u : u = RemoveAt(v, n)
    OBVIOUS
  <2>14. Holds(b, u)
    BY ONLY <2>1, <2>2, <2>10, <2>11, <2>12, <2>13, SegmentCut
  <2>15. d = [s EXCEPT !.x.seg = b]
    BY ONLY <2>2, <2>6, <2>7, <2>12
  <2>16. b \in Seq(Segment)
    BY ONLY <2>14 DEF Holds
  <2>17. d \in Status /\ Aside(d, s) /\ d.x.seg = b /\ d.f = s.f
    BY ONLY <2>15, <2>16, s \in Status DEF Aside, Status, Hidx
  <2>18. y = Append(u, Blank)
    BY ONLY <2>13, y = Dropped(v, n) DEF Dropped
  <2>19. /\ c \in Status /\ Aside(c, d) /\ Holds(c.x.seg, y)
         /\ Keeps(c.f, d.f, d.x.num)
    BY ONLY <2>8, <2>14, <2>17, <2>18, BlankIsRecord, RecordAppended
  <2>20. Buffered(c.x) = y
    BY ONLY <2>19, BufferedIs
  <2>21. PICK lo \in (Nat \ {0}) \cup {NoDelta} : lo = c.x.lo
    BY ONLY <2>19 DEF Status, Hidx
  <2>22. PICK l \in Nat \ {0} : l = IF lo = NoDelta THEN n ELSE Least(lo, n)
    BY ONLY <1>3, lo \in (Nat \ {0}) \cup {NoDelta} DEF Least, NoDelta
  <2>23. t = [c EXCEPT !.x.lo = l, !.x.hi = a]
    <3>1. Len(Buffered(c.x)) = a
      BY ONLY <1>4, <2>20
    <3> QED
      BY ONLY <2>9, <2>21, <2>22, <3>1
  <2>24. /\ Steady(t, c) /\ t.x.lo = l /\ t.x.hi = a /\ t.f = c.f
         /\ t.x.seg = c.x.seg
    <3>1. c \in Status
      BY ONLY <2>19
    <3>4. a \in Int
      BY ONLY a \in Nat
    <3>2. t \in Status /\ t.ok = c.ok /\ t.x.num = c.x.num /\ t.x.buf = c.x.buf
      BY ONLY <2>23, <3>1, <3>4, l \in Nat \ {0} DEF Status, Hidx
    <3>3. t.x.lo = l /\ t.x.hi = a /\ t.f = c.f /\ t.x.seg = c.x.seg
      BY ONLY <2>23, <3>1 DEF Status, Hidx
    <3> QED
      BY ONLY <3>2, <3>3 DEF Steady
  <2>25. Steady(t, s) /\ c.x.lo = s.x.lo /\ c.x.hi = s.x.hi
    BY ONLY <2>17, <2>19, <2>24 DEF Steady, Aside
  <2>26. ASSUME NEW j \in 1 .. k, Outside(t.x, j)
         PROVE  j <= Len(t.f) /\ t.f[j] = y[j]
    <3>1. j < l \/ j > a
      BY ONLY <2>24, <2>26, l \in Nat \ {0} DEF Outside, NoDelta
    <3>2. /\ j <= a /\ j \in 1 .. m /\ j <= k /\ j \in 1 .. a
      BY ONLY <1>1, <1>3, <1>5, j \in 1 .. k, a \in Nat
    <3>3. j < l /\ l <= n /\ (lo # NoDelta => l <= lo)
      BY ONLY <1>3, <2>22, <3>1, <3>2, l \in Nat \ {0}, a \in Nat,
              lo \in (Nat \ {0}) \cup {NoDelta} DEF Least, NoDelta
    <3>4. j < n /\ (lo = NoDelta \/ j < lo)
      BY ONLY <1>3, <3>2, <3>3, l \in Nat \ {0},
              lo \in (Nat \ {0}) \cup {NoDelta}
         DEF NoDelta
    <3>5. Outside(s.x, j)
      BY ONLY <2>21, <2>25, <3>4 DEF Outside
    <3>6. j <= Len(s.f) /\ s.f[j] = v[j]
      BY ONLY <2>1, <3>2, <3>5 DEF Synced
    <3>7. y[j] = v[j]
      BY ONLY <1>4, <3>2, <3>4
    <3>8. PICK e \in Nat : e = Len(s.f)
      BY ONLY <1>1
    <3>9. PICK h \in Nat : h = Len(c.f)
      BY ONLY <2>19 DEF Status
    <3>10. PICK z \in Nat : z = s.x.num
      BY ONLY <1>1 DEF Hidx
    <3>11. j <= z
      BY ONLY <1>5, <3>2, <3>10, m - 1 <= s.x.num, k \in Nat, z \in Nat,
              j \in 1 .. k
    <3>12. j \in 1 .. e
      BY ONLY <3>2, <3>6, <3>8, e \in Nat
    <3>13. h >= e /\ c.f[j] = s.f[j]
      BY ONLY <2>17, <2>19, <3>8, <3>9, <3>10, <3>11, <3>12 DEF Keeps, Aside
    <3>14. j <= h
      BY ONLY <3>12, <3>13, e \in Nat, h \in Nat
    <3> QED
      BY ONLY <2>24, <3>6, <3>7, <3>9, <3>13, <3>14
  <2>27. Synced(t.x, t.f, y, k)
    BY ONLY <2>26 DEF Synced
  <2>28. t.x \in Hidx /\ t.f \in Seq(Record) /\ t.x.buf # 0 /\ Holds(t.x.seg, y)
    BY ONLY <1>8, <2>19, <2>24, <2>25 DEF Steady, Status
  <2> QED
    BY ONLY <1>4, <1>5, <1>6, <2>25, <2>27, <2>28, k \in Nat DEF Held
<1> QED
  BY ONLY <1>7, <1>8

---------------------------------------------------------------------------
(**************************************************************************)
(* Reading the file into segments.                                         *)
(**************************************************************************)
(* Multiples of a positive number grow with their factor.                  *)
LEMMA Multiples ==
  ASSUME NEW z \in Nat \ {0}, NEW i \in Nat, NEW q \in Nat
  PROVE  /\ i * z \in Nat /\ (i + 1) * z = i * z + z
         /\ i <= q => i * z <= q * z
OBVIOUS

(* A quotient is the largest factor whose multiple does not exceed n.      *)
LEMMA Quotient ==
  ASSUME NEW n \in Nat, NEW z \in Nat \ {0}, NEW q, q = n \div z
  PROVE  q \in Nat /\ q * z <= n /\ n < q * z + z
OBVIOUS

(* Least gives the smaller of two numbers.                                 *)
LEMMA LeastIs ==
  ASSUME NEW a \in Nat, NEW b \in Nat
  PROVE  /\ Least(a, b) \in Nat /\ Least(a, b) <= a /\ Least(a, b) <= b
         /\ (Least(a, b) = a \/ Least(a, b) = b)
BY DEF Least

(* A part of a list.                                                       *)
LEMMA PartIs ==
  ASSUME NEW f \in Seq(Record), NEW a \in Nat, NEW b \in Nat, a <= b, b <= Len(f),
         NEW y, y = SubSeq(f, a + 1, b)
  PROVE  /\ y \in Seq(Record) /\ Len(y) = b - a
         /\ \A i \in 1 .. b - a : y[i] = f[a + i]
<1>1. PICK e \in Nat : e = Len(f)
  OBVIOUS
<1>2. \A i \in a + 1 .. b : f[i] \in Record
  <2>1. \A i \in a + 1 .. b : i \in 1 .. e
    BY <1>1
  <2> QED
    BY ONLY <1>1, <2>1, f \in Seq(Record)
<1>3. a + 1 \in Int /\ b \in Int
  OBVIOUS
<1>4. /\ SubSeq(f, a + 1, b) \in Seq(Record)
      /\ Len(SubSeq(f, a + 1, b)) = IF a + 1 <= b THEN b - (a + 1) + 1 ELSE 0
      /\ \A i \in 1 .. b - (a + 1) + 1 : SubSeq(f, a + 1, b)[i] = f[(a + 1) + i - 1]
  BY ONLY <1>2, <1>3, SubSeqProperties
<1>5. (IF a + 1 <= b THEN b - (a + 1) + 1 ELSE 0) = b - a
  OBVIOUS
<1>6. \A i \in 1 .. b - a : i \in 1 .. b - (a + 1) + 1 /\ (a + 1) + i - 1 = a + i
  OBVIOUS
<1> QED
  BY ONLY <1>4, <1>5, <1>6, y = SubSeq(f, a + 1, b)

(* The segments that an index of n messages is read into hold them.        *)
LEMMA SegmentsRead ==
  ASSUME NEW f \in Seq(Record), NEW n \in Nat, n <= Len(f),
         NEW seg, seg = [i \in 1 .. n \div SegmentSize + 1 |-> ReadSegment(f, n, i)],
         NEW v, v = SubSeq(f, 1, n)
  PROVE  Holds(seg, v)
<1>1. PICK z \in Nat \ {0} : z = SegmentSize
  BY IndexAssumption
<1>2. PICK q : q = n \div z
  OBVIOUS
<1>3. q \in Nat /\ q * z <= n /\ n < q * z + z
  BY ONLY <1>2, n \in Nat, z \in Nat \ {0}, Quotient
<1>4. PICK k \in Nat \ {0} : k = q + 1
  BY <1>3
<1>5. ASSUME NEW i \in 1 .. k
      PROVE  /\ (i - 1) * z \in Nat /\ (i - 1) * z <= n
             /\ (i - 1) * z + z = i * z /\ i * z \in Nat
  <2>1. PICK j \in Nat : j = i - 1 /\ j <= q /\ i = j + 1
    BY <1>3, <1>4
  <2>2. j * z \in Nat /\ (j + 1) * z = j * z + z /\ j * z <= q * z /\ q * z \in Nat
    BY ONLY <1>3, <2>1, j \in Nat, z \in Nat \ {0}, Multiples
  <2>3. j * z <= n
    BY ONLY <1>3, <2>2, n \in Nat
  <2>4. j * z + z \in Nat
    BY ONLY <2>2, z \in Nat \ {0}
  <2> QED
    BY ONLY <2>1, <2>2, <2>3, <2>4
<1>6. seg = [i \in 1 .. k |-> ReadSegment(f, n, i)]
  BY ONLY <1>1, <1>2, <1>4,
          seg = [i \in 1 .. n \div SegmentSize + 1 |-> ReadSegment(f, n, i)]
<1>7. ASSUME NEW i \in 1 .. k
      PROVE  /\ seg[i] \in Segment /\ Fits(seg[i])
             /\ seg[i].recs = SubSeq(f, (i - 1) * z + 1, Least(i * z, n))
  <2>1. PICK a \in Nat : a = (i - 1) * z /\ a <= n /\ a + z = i * z
    BY <1>5
  <2>2. PICK b \in Nat : /\ b = Least(a + z, n) /\ a <= b /\ b <= n
                         /\ b - a <= z /\ b - a <= n - a
    <3>1. a + z \in Nat
      OBVIOUS
    <3>2. /\ Least(a + z, n) \in Nat /\ Least(a + z, n) <= a + z
          /\ Least(a + z, n) <= n
          /\ (Least(a + z, n) = a + z \/ Least(a + z, n) = n)
      BY ONLY <3>1, n \in Nat, LeastIs
    <3> QED
      BY ONLY <2>1, <3>2, a \in Nat, n \in Nat, z \in Nat \ {0}
  <2>3. PICK w : w = SubSeq(f, a + 1, b)
    OBVIOUS
  <2>4. w \in Seq(Record) /\ Len(w) = b - a
    <3>1. b <= Len(f)
      BY ONLY <2>2, n <= Len(f), f \in Seq(Record), n \in Nat, b \in Nat
    <3> QED
      BY ONLY <2>2, <2>3, <3>1, f \in Seq(Record), a \in Nat, b \in Nat, PartIs
  <2>5. PICK m \in Nat : m = Least(n - a + MoreSpace, z) /\ b - a <= m /\ m <= z
    <3>1. n - a + MoreSpace \in Nat /\ n - a <= n - a + MoreSpace
      BY ONLY <2>1, IndexAssumption, a \in Nat, n \in Nat
    <3>2. PICK h \in Nat : h = n - a + MoreSpace /\ n - a <= h
      BY ONLY <3>1
    <3> QED
      BY ONLY <2>1, <2>2, <3>2, a \in Nat, b \in Nat, n \in Nat,
              z \in Nat \ {0},
              h \in Nat DEF Least
  <2>6. ReadSegment(f, n, i) = [max |-> m, recs |-> w]
    BY ONLY <1>1, <2>1, <2>2, <2>3, <2>5 DEF ReadSegment
  <2>7. seg[i] = [max |-> m, recs |-> w]
    BY ONLY <1>6, <2>6, i \in 1 .. k
  <2>8. m < SegmentSize + MoreSpace
    BY ONLY <1>1, <2>5, IndexAssumption, m \in Nat, z \in Nat \ {0}
  <2>9. seg[i] \in Segment
    BY ONLY <2>4, <2>7, m \in Nat DEF Segment
  <2>10. Fits(seg[i])
    BY ONLY <2>4, <2>5, <2>7, <2>8 DEF Fits
  <2>11. seg[i].recs = w
    BY ONLY <2>7
  <2>12. w = SubSeq(f, (i - 1) * z + 1, Least(i * z, n))
    BY ONLY <2>1, <2>2, <2>3
  <2> QED
    BY ONLY <2>9, <2>10, <2>11, <2>12
<1>8. seg \in Seq(Segment) /\ Len(seg) = k
  <2>1. \A i \in 1 .. k : ReadSegment(f, n, i) \in Segment
    BY ONLY <1>6, <1>7
  <2> QED
    BY ONLY <1>6, <2>1, k \in Nat \ {0}
<1>9. PICK s \in Seq(Seq(Record)) :
        s = Recs(seg) /\ Len(s) = k /\ \A i \in 1 .. k : s[i] = seg[i].recs
  BY ONLY <1>8, RecsIs
<1>10. PICK g : g = [j \in 0 .. k |-> SubSeq(f, 1, Least(j * z, n))]
  OBVIOUS
<1>11. ASSUME NEW j \in 0 .. k
       PROVE  /\ Least(j * z, n) \in Nat /\ Least(j * z, n) <= n
              /\ g[j] \in Seq(Record) /\ Len(g[j]) = Least(j * z, n)
              /\ g[j] = SubSeq(f, 1, Least(j * z, n))
  <2>1. j * z \in Nat
    BY ONLY j \in 0 .. k, k \in Nat \ {0}, z \in Nat \ {0}, Multiples
  <2>2. PICK b \in Nat : b = Least(j * z, n) /\ b <= n
    BY ONLY <2>1, n \in Nat, LeastIs
  <2>3. b <= Len(f) /\ 0 <= b /\ 0 + 1 = 1 /\ b - 0 = b
    BY ONLY <2>2, n <= Len(f), f \in Seq(Record), n \in Nat, b \in Nat
  <2>4. PICK w : w = SubSeq(f, 0 + 1, b)
    OBVIOUS
  <2>5. w \in Seq(Record) /\ Len(w) = b - 0
    BY ONLY <2>3, <2>4, f \in Seq(Record), b \in Nat, 0 \in Nat, PartIs
  <2> QED
    BY ONLY <1>10, <2>2, <2>3, <2>4, <2>5, j \in 0 .. k
<1>12. g \in [0 .. k -> Seq(Record)]
  BY ONLY <1>10, <1>11
<1>13. g[0] = <<>>
  <2>1. 0 * z = 0 /\ 0 \in 0 .. k
    OBVIOUS
  <2>2. Least(0, n) = 0
    BY DEF Least
  <2>3. g[0] \in Seq(Record) /\ Len(g[0]) = 0
    BY ONLY <1>11, <2>1, <2>2
  <2> QED
    BY ONLY <2>3, EmptySeq
<1>14. ASSUME NEW i \in 1 .. k PROVE g[i] = g[i - 1] \o s[i]
  <2>1. PICK a \in Nat : a = (i - 1) * z /\ a <= n /\ a + z = i * z
    BY <1>5
  <2>2. Least(a, n) = a
    BY ONLY <2>1 DEF Least
  <2>3. PICK b \in Nat : b = Least(i * z, n) /\ a <= b /\ b <= n
    BY ONLY <2>1, n \in Nat, a \in Nat, z \in Nat \ {0} DEF Least
  <2>4. i \in 0 .. k /\ i - 1 \in 0 .. k
    OBVIOUS
  <2>5. g[i - 1] = SubSeq(f, 1, a) /\ g[i] = SubSeq(f, 1, b)
    BY ONLY <1>11, <2>1, <2>2, <2>3, <2>4
  <2>6. s[i] = SubSeq(f, a + 1, b)
    BY ONLY <1>7, <1>9, <2>1, <2>3, i \in 1 .. k
  <2>7. SubSeq(f, 1, a) \o SubSeq(f, a + 1, b) = SubSeq(f, 1, b)
    <3>1. 1 \in 1 .. Len(f) + 1 /\ a \in 1 - 1 .. Len(f) /\ b \in a .. Len(f)
      BY ONLY <2>3, n <= Len(f), f \in Seq(Record), n \in Nat, a \in Nat,
              b \in Nat
    <3> QED
      BY ONLY <2>3, <3>1, f \in Seq(Record), ConcatAdjacentSubSeq
  <2> QED
    BY ONLY <2>5, <2>6, <2>7
<1>15. Chained(g, s, Record)
  BY ONLY <1>9, <1>12, <1>13, <1>14 DEF Chained
<1>16. g[k] = v
  <2>1. k * z = q * z + z
    BY ONLY <1>3, <1>4, z \in Nat \ {0}, Multiples
  <2>2. q * z \in Nat
    BY ONLY <1>3, z \in Nat \ {0}, Multiples
  <2>3. Least(k * z, n) = n
    BY ONLY <1>3, <2>1, <2>2, n \in Nat, z \in Nat \ {0} DEF Least
  <2>4. k \in 0 .. k
    OBVIOUS
  <2> QED
    BY ONLY <1>11, <2>3, <2>4, v = SubSeq(f, 1, n)
<1>17. Together(Recs(seg), v, Record)
  BY ONLY <1>9, <1>15, <1>16 DEF Together
<1>18. Len(seg) # 0 /\ \A i \in 1 .. Len(seg) : Fits(seg[i])
  BY ONLY <1>7, <1>8, k \in Nat \ {0}
<1> QED
  BY ONLY <1>8, <1>17, <1>18 DEF Holds

---------------------------------------------------------------------------
(**************************************************************************)
(* Beginning and ending a buffer.                                          *)
(**************************************************************************)
(* The first n records of the lists are the same.                          *)
SameTo(a, b, n) ==
  n <= Len(a) /\ n <= Len(b) /\ \A i \in 1 .. n : a[i] = b[i]

(* The first n records of v are messages, and what is behind them has no   *)
(* frame.                                                                  *)
Good(v, n) ==
  /\ n <= Len(v)
  /\ \A i \in 1 .. n : v[i].uid # NoUid
  /\ \A i \in n + 1 .. Len(v) : ~v[i].ofs

(* Reading the index into a buffer shows the messages.                     *)
LEMMA BufferBegun ==
  ASSUME NEW s \in Status, s.x.buf = 0, s.x.num <= Len(s.f),
         NEW t, t = BeginBuffer(s), NEW v, v = SubSeq(s.f, 1, s.x.num)
  PROVE  /\ t \in Status /\ t.ok = s.ok /\ t.x.num = s.x.num /\ t.x.buf = 1
         /\ t.f = s.f /\ Held(t.x, t.f, v, s.x.num)
         /\ Len(v) = s.x.num /\ SameTo(v, s.f, s.x.num)
<1>1. s.x \in Hidx /\ s.f \in Seq(Record)
  BY DEF Status
<1>2. PICK n \in Nat : n = s.x.num
  BY ONLY <1>1 DEF Hidx
<1>3. PICK a \in Nat : a = Len(s.f)
  BY ONLY <1>1
<1>4. PICK seg : seg = [i \in 1 .. n \div SegmentSize + 1 |-> ReadSegment(s.f, n, i)]
  OBVIOUS
<1>5. n <= a
  BY ONLY <1>2, <1>3, s.x.num <= Len(s.f)
<1>6. Holds(seg, v)
  <2>1. n <= Len(s.f) /\ v = SubSeq(s.f, 1, n)
    BY ONLY <1>2, <1>3, <1>5, v = SubSeq(s.f, 1, s.x.num)
  <2> QED
    BY ONLY <1>1, <1>4, <2>1, n \in Nat, SegmentsRead
<1>7. /\ v \in Seq(Record) /\ Len(v) = n /\ \A i \in 1 .. n : v[i] = s.f[i]
  <2>1. /\ 0 <= n /\ n <= Len(s.f) /\ v = SubSeq(s.f, 0 + 1, n) /\ n - 0 = n
        /\ \A i \in 1 .. n : 0 + i = i
    BY ONLY <1>2, <1>3, <1>5, v = SubSeq(s.f, 1, s.x.num), n \in Nat
  <2>2. PICK z \in Nat : z = 0
    OBVIOUS
  <2>3. /\ v \in Seq(Record) /\ Len(v) = n - z
        /\ \A i \in 1 .. n - z : v[i] = s.f[z + i]
    BY ONLY <1>1, <2>1, <2>2, n \in Nat, z \in Nat, PartIs
  <2> QED
    BY ONLY <2>1, <2>2, <2>3
<1>8. t = [s EXCEPT !.x.buf = 1, !.x.alloc = a, !.x.seg = seg]
  <2>1. ~ (Len(s.f) < s.x.num)
    BY ONLY <1>2, <1>3, <1>5, n \in Nat, a \in Nat
  <2> QED
    BY ONLY <1>2, <1>3, <1>4, <2>1, s.x.buf = 0,
            t = BeginBuffer(s) DEF BeginBuffer
<1>9. seg \in Seq(Segment)
  BY ONLY <1>6 DEF Holds
<1>10. t \in Status /\ t.ok = s.ok /\ t.x.num = s.x.num /\ t.x.buf = 1
  BY ONLY <1>8, <1>9, a \in Nat, s \in Status DEF Status, Hidx
<1>11. t.f = s.f /\ t.x.seg = seg
  BY ONLY <1>8, s \in Status DEF Status, Hidx
<1>12. Synced(t.x, t.f, v, n)
  <2>1. \A i \in 1 .. n : i <= a /\ v[i] = s.f[i]
    BY ONLY <1>5, <1>7, n \in Nat, a \in Nat
  <2> QED
    BY ONLY <1>3, <1>11, <2>1 DEF Synced
<1>13. Held(t.x, t.f, v, n)
  <2>1. t.x \in Hidx /\ t.f \in Seq(Record)
    BY ONLY <1>10 DEF Status
  <2>2. n <= Len(v)
    BY ONLY <1>7, n \in Nat
  <2>3. t.x.buf # 0
    BY ONLY <1>10
  <2> QED
    BY ONLY <1>6, <1>7, <1>11, <1>12, <2>1, <2>2, <2>3, n \in Nat DEF Held
<1>14. SameTo(v, s.f, n)
  <2>1. n <= Len(v)
    BY ONLY <1>7, n \in Nat
  <2> QED
    BY ONLY <1>3, <1>5, <1>7, <2>1 DEF SameTo
<1> QED
  BY ONLY <1>2, <1>7, <1>10, <1>11, <1>13, <1>14

(* The file that a buffer leaves has its messages, and nothing with a      *)
(* frame behind them.                                                      *)
LEMMA DeltaWritten ==
  ASSUME NEW s \in Status, s.x.buf # 0, NEW v, NEW n, n = s.x.num,
         Held(s.x, s.f, v, n), Good(v, n), NEW w, w = WriteDelta(s)
  PROVE  w \in Seq(Record) /\ SameTo(w, v, n) /\ Good(w, n)
<1>1. /\ s.x \in Hidx /\ s.f \in Seq(Record) /\ v \in Seq(Record)
      /\ n \in Nat /\ n <= Len(v)
      /\ Holds(s.x.seg, v) /\ Synced(s.x, s.f, v, n)
  BY DEF Held
<1>2. Buffered(s.x) = v
  BY ONLY <1>1, BufferedIs
<1>3. PICK a \in Nat : a = Len(v)
  BY ONLY <1>1
<1>4. PICK b \in Nat : b = Len(s.f)
  BY ONLY <1>1
<1>5. PICK g : g = SetSize(s.f, n)
  OBVIOUS
<1>6. g = [i \in 1 .. n |-> IF i <= b THEN s.f[i] ELSE Zero]
  BY ONLY <1>4, <1>5 DEF SetSize
<1>7. g \in Seq(Record) /\ Len(g) = n
  <2>1. ASSUME NEW i \in 1 .. n
        PROVE  (IF i <= b THEN s.f[i] ELSE Zero) \in Record
    <3>1. CASE i <= b
      <4>1. i \in 1 .. b
        BY ONLY <3>1, i \in 1 .. n, <1>1, b \in Nat
      <4> QED
        BY ONLY <1>1, <1>4, <3>1, <4>1
    <3>2. CASE ~ (i <= b)
      BY ONLY <3>2, BlankIsRecord
    <3> QED
      BY ONLY <3>1, <3>2
  <2> QED
    BY ONLY <1>1, <1>6, <2>1
<1>8. ASSUME NEW i \in 1 .. n, Outside(s.x, i) PROVE g[i] = v[i]
  <2>1. i <= b /\ s.f[i] = v[i]
    BY ONLY <1>1, <1>4, <1>8 DEF Synced
  <2> QED
    BY ONLY <1>6, <2>1, i \in 1 .. n
<1>9. PICK lo \in (Nat \ {0}) \cup {NoDelta} : lo = s.x.lo
  BY ONLY <1>1 DEF Hidx
<1>10. PICK hi \in Int : hi = s.x.hi
  BY ONLY <1>1 DEF Hidx
<1>11. ASSUME w \in Seq(Record), n <= Len(w), \A i \in 1 .. n : w[i] = v[i],
              \A i \in n + 1 .. Len(w) : ~ w[i].ofs
       PROVE  w \in Seq(Record) /\ SameTo(w, v, n) /\ Good(w, n)
  <2>1. SameTo(w, v, n)
    BY ONLY <1>1, <1>11 DEF SameTo
  <2>2. \A i \in 1 .. n : w[i].uid # NoUid
    BY ONLY <1>11, Good(v, n) DEF Good
  <2> QED
    BY ONLY <1>11, <2>1, <2>2 DEF Good
<1>12. CASE lo = NoDelta \/ lo > a
  <2>1. w = g
    BY ONLY <1>2, <1>3, <1>5, <1>9, <1>12, n = s.x.num, w = WriteDelta(s)
       DEF WriteDelta
  <2>2. ASSUME NEW i \in 1 .. n PROVE Outside(s.x, i)
    <3>1. lo = NoDelta \/ i < lo
      <4>1. i <= a /\ i \in Nat
        BY ONLY <1>1, <1>3, i \in 1 .. n, a \in Nat
      <4>2. CASE lo = NoDelta
        BY ONLY <4>2
      <4>3. CASE lo # NoDelta
        BY ONLY <4>1, <4>3, <1>12, lo \in (Nat \ {0}) \cup {NoDelta}, a \in Nat
      <4> QED
        BY ONLY <4>2, <4>3
    <3> QED
      BY ONLY <1>9, <3>1 DEF Outside
  <2>3. \A i \in 1 .. n : w[i] = v[i]
    BY ONLY <1>8, <2>1, <2>2
  <2>4. n <= Len(w) /\ \A i \in n + 1 .. Len(w) : ~ w[i].ofs
    BY ONLY <1>1, <1>7, <2>1
  <2> QED
    BY ONLY <1>7, <1>11, <2>1, <2>3, <2>4
<1>13. CASE lo # NoDelta /\ ~ (lo > a)
  <2>1. lo \in Nat \ {0} /\ lo <= a
    BY ONLY <1>13, lo \in (Nat \ {0}) \cup {NoDelta}, a \in Nat
  <2>2. PICK e \in Int : e = Least(hi, a) /\ e <= a /\ e <= hi /\ (e = hi \/ e = a)
    BY ONLY hi \in Int, a \in Nat DEF Least
  <2>3. PICK rs : rs = SubSeq(v, lo, e)
    OBVIOUS
  <2>4. PICK c \in Nat : c = IF lo <= e THEN e - lo + 1 ELSE 0
    <3>1. lo \in Int
      BY ONLY <2>1
    <3>2. (IF lo <= e THEN e - lo + 1 ELSE 0) \in Nat
      BY ONLY <3>1, e \in Int
    <3> QED
      BY ONLY <3>2
  <2>5. /\ rs \in Seq(Record) /\ Len(rs) = c
        /\ \A j \in 1 .. c : rs[j] = v[lo + j - 1]
    <3>1. \A j \in lo .. e : v[j] \in Record
      <4>1. \A j \in lo .. e : j \in 1 .. a
        BY ONLY <2>1, <2>2, a \in Nat, e \in Int
      <4> QED
        BY ONLY <1>1, <1>3, <4>1
    <3>2. lo \in Int
      BY ONLY <2>1
    <3>3. /\ rs \in Seq(Record) /\ Len(rs) = IF lo <= e THEN e - lo + 1 ELSE 0
          /\ \A j \in 1 .. e - lo + 1 : rs[j] = v[lo + j - 1]
      BY ONLY <2>3, <3>1, <3>2, e \in Int, SubSeqProperties
    <3>4. \A j \in 1 .. c : j \in 1 .. e - lo + 1
      BY ONLY <2>1, <2>4, e \in Int
    <3> QED
      BY ONLY <2>4, <3>3, <3>4
  <2>6. w = WriteAt(g, lo, rs)
    BY ONLY <1>2, <1>3, <1>5, <1>9, <1>10, <1>13, <2>2, <2>3, n = s.x.num,
            w = WriteDelta(s) DEF WriteDelta
  <2>7. w \in Seq(Record) /\ Written(w, g, lo, rs)
    BY ONLY <1>7, <2>1, <2>5, <2>6, WriteAtIs
  <2>8. PICK m \in Nat : m = Len(w)
    BY ONLY <2>7
  <2>9. /\ m >= n
        /\ \A i \in 1 .. m :
             w[i] = IF i >= lo /\ i < lo + c THEN rs[i - lo + 1]
                    ELSE IF i <= n THEN g[i] ELSE Zero
    BY ONLY <1>7, <2>5, <2>7, <2>8 DEF Written
  <2>10. ASSUME NEW i \in 1 .. m, i >= lo /\ i < lo + c
         PROVE  w[i] = v[i] /\ i \in 1 .. a
    <3>1. i - lo + 1 \in 1 .. c /\ lo + (i - lo + 1) - 1 = i
      BY ONLY <2>1, <2>10, i \in 1 .. m, c \in Nat
    <3>2. rs[i - lo + 1] = v[i]
      BY ONLY <2>5, <3>1
    <3>3. i \in 1 .. a
      BY ONLY <2>1, <2>2, <2>4, <2>10, i \in 1 .. m, c \in Nat, a \in Nat,
              e \in Int
    <3> QED
      BY ONLY <2>9, <2>10, <3>2, <3>3
  <2>11. ASSUME NEW i \in 1 .. n PROVE w[i] = v[i]
    <3>1. i \in 1 .. m /\ i <= n
      BY ONLY <1>1, <2>9, i \in 1 .. n, m \in Nat
    <3>2. CASE i >= lo /\ i < lo + c
      BY ONLY <2>10, <3>1, <3>2
    <3>3. CASE ~ (i >= lo /\ i < lo + c)
      <4>1. i <= a
        BY ONLY <1>1, <1>3, <3>1, a \in Nat
      <4>2. i < lo \/ i > hi
        BY ONLY <2>1, <2>2, <2>4, <3>1, <3>3, <4>1, a \in Nat, c \in Nat,
                e \in Int,
                hi \in Int, m \in Nat
      <4>3. Outside(s.x, i)
        BY ONLY <1>9, <1>10, <4>2 DEF Outside
      <4>4. g[i] = v[i]
        BY ONLY <1>8, <4>3, i \in 1 .. n
      <4> QED
        BY ONLY <2>9, <3>1, <3>3, <4>4
    <3> QED
      BY ONLY <3>2, <3>3
  <2>12. ASSUME NEW i \in n + 1 .. m PROVE ~ w[i].ofs
    <3>1. i \in 1 .. m /\ ~ (i <= n)
      BY ONLY <1>1, i \in n + 1 .. m, m \in Nat
    <3>2. CASE i >= lo /\ i < lo + c
      <4>1. w[i] = v[i] /\ i \in 1 .. a
        BY ONLY <2>10, <3>1, <3>2
      <4>2. i \in n + 1 .. a
        BY ONLY <1>1, <4>1, i \in n + 1 .. m, m \in Nat, a \in Nat
      <4> QED
        BY ONLY <1>3, <4>1, <4>2, Good(v, n) DEF Good
    <3>3. CASE ~ (i >= lo /\ i < lo + c)
      BY ONLY <2>9, <3>1, <3>3, BlankIsRecord
    <3> QED
      BY ONLY <3>2, <3>3
  <2> QED
    BY ONLY <1>11, <2>7, <2>8, <2>9, <2>11, <2>12
<1> QED
  BY ONLY <1>12, <1>13

(* State t is s with its buffer ended, and shows the messages of v.        *)
Ended(t, s, v, n) ==
  /\ t \in Status /\ t.ok = s.ok /\ t.x.num = n /\ t.x.buf = s.x.buf - 1
  /\ \E w : Held(t.x, t.f, w, n) /\ Good(w, n) /\ SameTo(w, v, n)

(* The end of the outermost buffer goes back to the file; the end of an    *)
(* inner one changes nothing.                                              *)
LEMMA BufferEnded ==
  ASSUME NEW s \in Status, s.x.buf # 0, NEW v, NEW n, n = s.x.num,
         Held(s.x, s.f, v, n), Good(v, n), NEW t, t = EndBuffer(s)
  PROVE  Ended(t, s, v, n)
<1>1. /\ s.x \in Hidx /\ s.f \in Seq(Record) /\ v \in Seq(Record)
      /\ n \in Nat /\ n <= Len(v)
      /\ Holds(s.x.seg, v) /\ Synced(s.x, s.f, v, n)
  BY DEF Held
<1>2. PICK b \in Nat : b = s.x.buf
  BY ONLY <1>1 DEF Hidx
<1>3. CASE b > 1
  <2>1. PICK d \in Nat \ {0} : d = b - 1
    BY ONLY <1>3, b \in Nat
  <2>2. t = [s EXCEPT !.x.buf = d]
    BY ONLY <1>2, <1>3, <2>1, s.x.buf # 0, t = EndBuffer(s) DEF EndBuffer
  <2>3. /\ t \in Status /\ t.ok = s.ok /\ t.x.num = s.x.num /\ t.x.buf = d
    BY ONLY <2>2, d \in Nat \ {0}, s \in Status DEF Status, Hidx
  <2>4. t.f = s.f /\ t.x.seg = s.x.seg /\ t.x.lo = s.x.lo /\ t.x.hi = s.x.hi
    BY ONLY <2>2, s \in Status DEF Status, Hidx
  <2>5. Synced(t.x, t.f, v, n)
    BY ONLY <1>1, <2>4 DEF Synced, Outside
  <2>6. t.x \in Hidx /\ t.x.buf # 0
    BY ONLY <2>3, d \in Nat \ {0} DEF Status
  <2>7. Held(t.x, t.f, v, n)
    BY ONLY <1>1, <2>4, <2>5, <2>6 DEF Held
  <2>8. SameTo(v, v, n)
    BY ONLY <1>1 DEF SameTo
  <2> QED
    BY ONLY <1>2, <2>1, <2>3, <2>7, <2>8, n = s.x.num, Good(v, n) DEF Ended
<1>4. CASE ~ (b > 1)
  <2>1. PICK w : w = WriteDelta(s)
    OBVIOUS
  <2>2. w \in Seq(Record) /\ SameTo(w, v, n) /\ Good(w, n)
    BY ONLY <2>1, s \in Status, s.x.buf # 0, n = s.x.num, Held(s.x, s.f, v, n),
            Good(v, n), DeltaWritten
  <2>3. t = [s EXCEPT !.f = w, !.x.buf = 0, !.x.seg = <<>>]
    BY ONLY <1>2, <1>4, <2>1, s.x.buf # 0, t = EndBuffer(s) DEF EndBuffer
  <2>4. <<>> \in Seq(Segment)
    OBVIOUS
  <2>5. /\ t \in Status /\ t.ok = s.ok /\ t.x.num = s.x.num /\ t.x.buf = 0
    BY ONLY <2>2, <2>3, <2>4, s \in Status DEF Status, Hidx
  <2>6. t.f = w /\ t.x.seg = <<>>
    BY ONLY <2>3, s \in Status DEF Status, Hidx
  <2>7. t.x \in Hidx /\ n <= Len(w)
    BY ONLY <2>2, <2>5 DEF Status, SameTo
  <2>8. Held(t.x, t.f, w, n)
    BY ONLY <1>1, <2>2, <2>5, <2>6, <2>7 DEF Held
  <2>9. b - 1 = 0
    BY ONLY <1>2, <1>4, b \in Nat, s.x.buf # 0
  <2> QED
    BY ONLY <1>2, <2>2, <2>5, <2>8, <2>9, n = s.x.num DEF Ended
<1> QED
  BY ONLY <1>3, <1>4

---------------------------------------------------------------------------
(**************************************************************************)
(* Reducing the messages to a limit: the droppings one after the other.    *)
(**************************************************************************)
(* One message of the surplus goes.                                        *)
Dropping(p, skip) == RemoveIndexEntry([p EXCEPT !.x.num = @ - 1], skip + 1)

(* The recursive function of ReduceMaxMsgs for a surplus of k.             *)
Droppings(s, k, skip, d) ==
  [j \in 0 .. k |-> IF j = 0 THEN BeginBuffer(s) ELSE Dropping(d[j - 1], skip)]

(* ReduceMaxMsgs ends the buffer of the last value of such a function.     *)
LEMMA ReduceIsRecursive ==
  ASSUME NEW s, NEW max, NEW skip, NEW k, k = Surplus(s.x.num, max, skip), k # 0,
         NEW g, g = Droppings(s, k, skip, g)
  PROVE  \E d : d = Droppings(s, k, skip, d) /\ ReduceMaxMsgs(s, max, skip) = EndBuffer(d[k])
<1> DEFINE d == CHOOSE e : e = Droppings(s, k, skip, e)
<1>1. d = Droppings(s, k, skip, d)
  BY Zenon
<1>2. ReduceMaxMsgs(s, max, skip) = EndBuffer(d[k])
  BY Zenon DEF ReduceMaxMsgs, Droppings, Dropping
<1> QED
  BY <1>1, <1>2

(* From each state of J[j - 1] dropping leads to one of J[j].              *)
Leads(J, k, skip) == \A j \in 1 .. k : \A p \in J[j - 1] : Dropping(p, skip) \in J[j]

(* Function g is k droppings from state b.                                 *)
Ran(g, k, b, skip) ==
  /\ g \in [0 .. k -> Status] /\ g[0] = b
  /\ \A j \in 1 .. k : g[j] = Dropping(g[j - 1], skip)

(* Messages can be dropped as long as each leaves a state from which the   *)
(* next can be: from j to j + 1 of the sets J.                             *)
LEMMA DroppingsRun ==
  ASSUME NEW k \in Nat, NEW skip, NEW J \in [0 .. k -> SUBSET Status],
         NEW b \in J[0],
         Leads(J, k, skip)
  PROVE  \E g : Ran(g, k, b, skip) /\ g[k] \in J[k]
<1>1. PICK st : st = [j \in 1 .. k |-> [p \in Status |->
                        IF Dropping(p, skip) \in Status THEN Dropping(p, skip) ELSE p]]
  OBVIOUS
<1>2. st \in StepsIn(k, Status)
  <2>1. \A j \in 1 .. k : [p \in Status |->
           IF Dropping(p, skip) \in Status THEN Dropping(p, skip) ELSE p]
             \in [Status -> Status]
    OBVIOUS
  <2> QED
    BY ONLY <1>1, <2>1 DEF StepsIn
<1>3. 0 \in 0 .. k /\ b \in Status
  OBVIOUS
<1>4. PICK g : g \in [0 .. k -> Status] /\ Runs(g, k, b, st)
  BY <1>2, <1>3, RecursiveFunction
<1>5. g[0] = b /\ \A j \in 1 .. k : g[j] = st[j][g[j - 1]]
  BY <1>4 DEF Runs
<1> DEFINE T == {j \in 0 .. k : g[j] \in J[j] /\
                    (j # 0 => g[j] = Dropping(g[j - 1], skip))}
<1>6. 0 \in T
  BY <1>3, <1>5
<1>7. ASSUME NEW j \in 0 .. k - 1, j \in T PROVE j + 1 \in T
  <2>1. PICK i \in 1 .. k : i = j + 1 /\ i - 1 = j /\ i \in 0 .. k /\ i - 1 \in 0 .. k
    OBVIOUS
  <2>2. g[i - 1] \in J[i - 1]
    BY <1>7, <2>1
  <2>3. PICK p \in Status : p = g[i - 1]
    BY <1>4, <2>1
  <2>4. Dropping(p, skip) \in J[i]
    BY <2>2, <2>3 DEF Leads
  <2>5. Dropping(p, skip) \in Status
    BY <2>1, <2>4
  <2>6. st[i][p] = Dropping(p, skip)
    BY ONLY <1>1, <2>5, i \in 1 .. k, p \in Status
  <2>7. g[i] = Dropping(g[i - 1], skip)
    BY ONLY <1>5, <2>3, <2>6, i \in 1 .. k
  <2> QED
    BY ONLY <2>1, <2>3, <2>4, <2>7
<1> HIDE DEF T
<1>8. \A j \in 0 .. k : j \in T
  BY ONLY <1>6, <1>7, k \in Nat, InductionUpTo
<1>9. \A j \in 1 .. k : g[j] = Dropping(g[j - 1], skip)
  <2>1. \A j \in 1 .. k : j \in 0 .. k /\ j # 0
    OBVIOUS
  <2> QED
    BY ONLY <1>8, <2>1 DEF T
<1>10. g[k] \in J[k]
  <2>1. k \in 0 .. k
    OBVIOUS
  <2> QED
    BY ONLY <1>8, <2>1 DEF T
<1> QED
  BY ONLY <1>4, <1>5, <1>9, <1>10 DEF Ran

(* What the recursion computes.                                            *)
LEMMA ReduceIs ==
  ASSUME NEW s, NEW max, NEW skip, NEW k \in Nat, k = Surplus(s.x.num, max, skip),
         k # 0, NEW b, b = BeginBuffer(s), NEW g, Ran(g, k, b, skip)
  PROVE  ReduceMaxMsgs(s, max, skip) = EndBuffer(g[k])
<1>0. /\ g \in [0 .. k -> Status] /\ g[0] = BeginBuffer(s)
      /\ \A j \in 1 .. k : g[j] = Dropping(g[j - 1], skip)
  BY ONLY b = BeginBuffer(s), Ran(g, k, b, skip) DEF Ran
<1>1. g = Droppings(s, k, skip, g)
  <2>1. \A j \in 0 .. k :
          g[j] = IF j = 0 THEN BeginBuffer(s) ELSE Dropping(g[j - 1], skip)
    <3>1. \A j \in 0 .. k : j # 0 => j \in 1 .. k
      OBVIOUS
    <3> QED
      BY <1>0, <3>1
  <2>2. g = [j \in 0 .. k |->
               IF j = 0 THEN BeginBuffer(s) ELSE Dropping(g[j - 1], skip)]
    BY ONLY <1>0, <2>1
  <2> QED
    BY ONLY <2>2 DEF Droppings
<1>2. PICK d : /\ d = Droppings(s, k, skip, d)
               /\ ReduceMaxMsgs(s, max, skip) = EndBuffer(d[k])
  BY ONLY <1>1, k = Surplus(s.x.num, max, skip), k # 0, ReduceIsRecursive
<1>3. \A j \in 0 .. k :
        d[j] = IF j = 0 THEN BeginBuffer(s) ELSE Dropping(d[j - 1], skip)
  BY ONLY <1>2 DEF Droppings
<1> DEFINE T == {j \in 0 .. k : d[j] = g[j]}
<1>4. 0 \in T
  BY <1>0, <1>3
<1>5. ASSUME NEW j \in 0 .. k - 1, j \in T PROVE j + 1 \in T
  <2>1. PICK i \in 1 .. k : i = j + 1 /\ i - 1 = j /\ i \in 0 .. k /\ i # 0
    OBVIOUS
  <2>2. d[i - 1] = g[i - 1]
    BY <1>5, <2>1
  <2>3. d[i] = Dropping(d[i - 1], skip)
    BY ONLY <1>3, <2>1
  <2>4. g[i] = Dropping(g[i - 1], skip)
    BY ONLY <1>0, i \in 1 .. k
  <2> QED
    BY ONLY <2>1, <2>2, <2>3, <2>4
<1> HIDE DEF T
<1>6. \A j \in 0 .. k : j \in T
  BY ONLY <1>4, <1>5, k \in Nat, InductionUpTo
<1>7. d[k] = g[k]
  <2>1. k \in 0 .. k
    OBVIOUS
  <2> QED
    BY ONLY <1>6, <2>1 DEF T
<1> QED
  BY ONLY <1>2, <1>7

(* List u is v without the j records behind the c'th, with blank ones      *)
(* behind the others.                                                      *)
Shifted(u, v, c, j) ==
  /\ Len(u) = Len(v)
  /\ \A i \in 1 .. Len(v) :
       u[i] = IF i <= c THEN v[i] ELSE IF i + j <= Len(v) THEN v[i + j] ELSE Blank

(* Dropping one more record moves the later ones one further.              *)
LEMMA ShiftedMore ==
  ASSUME NEW v \in Seq(Record), NEW u \in Seq(Record), NEW c \in Nat,
         NEW j \in Nat, Shifted(u, v, c, j), c + 1 \in 1 .. Len(v),
         NEW y, y = Dropped(u, c + 1)
  PROVE  Shifted(y, v, c, j + 1)
<1>1. PICK a \in Nat : a = Len(v)
  OBVIOUS
<1>2. /\ Len(u) = a
      /\ \A i \in 1 .. a :
           u[i] = IF i <= c THEN v[i] ELSE IF i + j <= a THEN v[i + j] ELSE Blank
  BY ONLY <1>1, Shifted(u, v, c, j) DEF Shifted
<1>3. PICK n \in Nat : n = c + 1 /\ n \in 1 .. a
  BY ONLY <1>1, c + 1 \in 1 .. Len(v), c \in Nat
<1>4. /\ Len(y) = a
      /\ \A i \in 1 .. a :
           y[i] = IF i < n THEN u[i] ELSE IF i < a THEN u[i + 1] ELSE Blank
  <2>1. n \in 1 .. Len(u) /\ y = Dropped(u, n)
    BY ONLY <1>2, <1>3, y = Dropped(u, c + 1)
  <2> QED
    BY ONLY <1>2, <2>1, u \in Seq(Record), DroppedIs
<1>5. ASSUME NEW i \in 1 .. a
      PROVE  y[i] = IF i <= c THEN v[i]
                    ELSE IF i + (j + 1) <= a THEN v[i + (j + 1)] ELSE Blank
  <2>1. CASE i <= c
    <3>1. i < n
      BY ONLY <1>3, <2>1, c \in Nat, i \in 1 .. a
    <3> QED
      BY ONLY <1>2, <1>4, <2>1, <3>1, i \in 1 .. a
  <2>2. CASE ~ (i <= c) /\ i < a
    <3>1. PICK h \in 1 .. a : h = i + 1 /\ ~ (h <= c) /\ ~ (i < n) /\ h + j = i + (j + 1)
      BY ONLY <1>3, <2>2, c \in Nat, j \in Nat, a \in Nat, i \in 1 .. a
    <3> QED
      BY ONLY <1>2, <1>4, <2>2, <3>1, i \in 1 .. a
  <2>3. CASE ~ (i <= c) /\ ~ (i < a)
    <3>1. ~ (i < n) /\ ~ (i + (j + 1) <= a)
      BY ONLY <1>3, <2>3, c \in Nat, j \in Nat, a \in Nat, i \in 1 .. a
    <3> QED
      BY ONLY <1>4, <2>3, <3>1, i \in 1 .. a
  <2> QED
    BY ONLY <2>1, <2>2, <2>3
<1> QED
  BY ONLY <1>1, <1>4, <1>5 DEF Shifted

(* The states after j of the n messages of list v, those behind the c'th,  *)
(* were dropped.                                                           *)
After(o, b, v, c, n, j) ==
  {p \in Status :
     /\ p.ok = o /\ p.x.buf = b /\ p.x.num = n - j
     /\ \E u : Held(p.x, p.f, u, n - j) /\ Shifted(u, v, c, j)}

(* Dropping a message leads from the states after j to those after j + 1.  *)
LEMMA OneMoreDropped ==
  ASSUME NEW o, NEW b, NEW v \in Seq(Record), NEW c \in Nat, NEW n \in Nat,
         n <= Len(v), NEW j \in Nat, j + 1 + c <= n,
         NEW p \in After(o, b, v, c, n, j)
  PROVE  Dropping(p, c) \in After(o, b, v, c, n, j + 1)
<1>1. /\ p \in Status /\ p.ok = o /\ p.x.buf = b /\ p.x.num = n - j
      /\ \E u : Held(p.x, p.f, u, n - j) /\ Shifted(u, v, c, j)
  BY ONLY p \in After(o, b, v, c, n, j) DEF After
<1>2. PICK u : Held(p.x, p.f, u, n - j) /\ Shifted(u, v, c, j)
  BY ONLY <1>1
<1>3. PICK m \in Nat : m = n - j /\ c + 1 \in 1 .. m /\ m - 1 = n - (j + 1) /\ m - 1 \in Nat
  BY ONLY n \in Nat, j \in Nat, c \in Nat, j + 1 + c <= n
<1>4. PICK k \in Nat : k = m - 1
  BY ONLY <1>3
<1>5. PICK q : q = [p EXCEPT !.x.num = k]
  OBVIOUS
<1>6. q \in Status /\ q.ok = p.ok /\ q.x.num = k /\ q.x.buf = p.x.buf
  BY ONLY <1>1, <1>5, k \in Nat DEF Status, Hidx
<1>7. q.f = p.f /\ q.x.seg = p.x.seg /\ q.x.lo = p.x.lo /\ q.x.hi = p.x.hi
  BY ONLY <1>1, <1>5 DEF Status, Hidx
<1>8. Held(q.x, q.f, u, m)
  <2>1. q.x \in Hidx
    BY ONLY <1>6 DEF Status
  <2> QED
    BY ONLY <1>2, <1>3, <1>6, <1>7, <2>1 DEF Held, Synced, Outside
<1>9. PICK t : t = RemoveIndexEntry(q, c + 1)
  OBVIOUS
<1>10. Dropping(p, c) = t
  BY ONLY <1>1, <1>3, <1>4, <1>5, <1>9 DEF Dropping
<1>11. PICK y : y = Dropped(u, c + 1)
  OBVIOUS
<1>12. PICK i \in 1 .. m : i = c + 1
  BY ONLY <1>3
<1>13. Steady(t, q) /\ Held(t.x, t.f, y, m - 1)
  <2>1. m - 1 <= q.x.num
    BY ONLY <1>4, <1>6, k \in Nat
  <2>2. t = RemoveIndexEntry(q, i) /\ y = Dropped(u, i)
    BY ONLY <1>9, <1>11, <1>12
  <2> QED
    BY ONLY <1>6, <1>8, <2>1, <2>2, i \in 1 .. m, EntryRemoved
<1>14. Shifted(y, v, c, j + 1)
  <2>1. u \in Seq(Record)
    BY ONLY <1>2 DEF Held
  <2>2. c + 1 \in 1 .. Len(v)
    BY ONLY c \in Nat, j \in Nat, n \in Nat, j + 1 + c <= n, n <= Len(v),
            v \in Seq(Record)
  <2> QED
    BY ONLY <1>2, <1>11, <2>1, <2>2, v \in Seq(Record), c \in Nat, j \in Nat,
            ShiftedMore
<1>15. t \in Status /\ t.ok = o /\ t.x.buf = b /\ t.x.num = n - (j + 1)
  BY ONLY <1>1, <1>3, <1>4, <1>6, <1>13 DEF Steady
<1>16. Held(t.x, t.f, y, n - (j + 1))
  BY ONLY <1>3, <1>13
<1> QED
  BY ONLY <1>10, <1>14, <1>15, <1>16 DEF After

(* The list without k of its messages is one of messages.                  *)
LEMMA ShiftedIsGood ==
  ASSUME NEW v \in Seq(Record), NEW u \in Seq(Record), NEW c \in Nat,
         NEW n \in Nat, Good(v, n), NEW k \in Nat, c + k <= n, Shifted(u, v, c, k)
  PROVE  Good(u, n - k)
<1>1. PICK a \in Nat : a = Len(v)
  OBVIOUS
<1>2. /\ n <= a /\ \A i \in 1 .. n : v[i].uid # NoUid
      /\ \A i \in n + 1 .. a : ~v[i].ofs
  BY ONLY <1>1, Good(v, n) DEF Good
<1>3. /\ Len(u) = a
      /\ \A i \in 1 .. a :
           u[i] = IF i <= c THEN v[i] ELSE IF i + k <= a THEN v[i + k] ELSE Blank
  BY ONLY <1>1, Shifted(u, v, c, k) DEF Shifted
<1>4. PICK m \in Nat : m = n - k /\ c <= m
  BY ONLY c \in Nat, n \in Nat, k \in Nat, c + k <= n
<1>5. ASSUME NEW i \in 1 .. m PROVE u[i].uid # NoUid
  <2>1. i \in 1 .. a /\ i \in 1 .. n /\ i + k \in 1 .. n /\ i + k <= a
    BY ONLY <1>2, <1>4, i \in 1 .. m, n \in Nat, k \in Nat, a \in Nat
  <2>2. u[i] = v[i] \/ u[i] = v[i + k]
    BY ONLY <1>3, <2>1
  <2> QED
    BY ONLY <1>2, <2>1, <2>2
<1>6. ASSUME NEW i \in m + 1 .. a PROVE ~u[i].ofs
  <2>1. i \in 1 .. a /\ ~ (i <= c) /\ (i + k <= a => i + k \in n + 1 .. a)
    BY ONLY <1>4, i \in m + 1 .. a, c \in Nat, n \in Nat, k \in Nat, a \in Nat
  <2>2. CASE i + k <= a
    BY ONLY <1>2, <1>3, <2>1, <2>2
  <2>3. CASE ~ (i + k <= a)
    BY ONLY <1>3, <2>1, <2>3, BlankIsRecord
  <2> QED
    BY ONLY <2>2, <2>3
<1>7. m <= a
  BY ONLY <1>2, <1>4, n \in Nat, k \in Nat, a \in Nat
<1> QED
  BY ONLY <1>3, <1>4, <1>5, <1>6, <1>7 DEF Good

(* The surplus over a limit that leaves a message behind the skipped ones. *)
LEMMA SurplusIs ==
  ASSUME NEW n \in Nat, NEW max \in Nat, NEW skip \in Nat, max = 0 \/ max > skip,
         NEW k, k = Surplus(n, max, skip)
  PROVE  k \in Nat /\ k <= n /\ (k # 0 => skip + k <= n)
BY DEF Surplus

(* A buffer that is open nests.                                            *)
LEMMA BufferNested ==
  ASSUME NEW s \in Status, s.x.buf # 0, NEW v, NEW n, Held(s.x, s.f, v, n),
         NEW b \in Nat, b = s.x.buf, NEW t, t = BeginBuffer(s)
  PROVE  /\ t \in Status /\ t.ok = s.ok /\ t.x.num = s.x.num /\ t.x.buf = b + 1
         /\ Held(t.x, t.f, v, n)
<1>1. PICK c \in Nat : c = b + 1 /\ c # 0
  OBVIOUS
<1>2. t = [s EXCEPT !.x.buf = c]
  BY ONLY <1>1, s.x.buf # 0, b = s.x.buf, t = BeginBuffer(s) DEF BeginBuffer
<1>3. t \in Status /\ t.ok = s.ok /\ t.x.num = s.x.num /\ t.x.buf = c
  BY ONLY <1>2, c \in Nat, s \in Status DEF Status, Hidx
<1>4. /\ t.f = s.f /\ t.x.seg = s.x.seg /\ t.x.lo = s.x.lo /\ t.x.hi = s.x.hi
  BY ONLY <1>2, s \in Status DEF Status, Hidx
<1>5. t.x \in Hidx
  BY ONLY <1>3 DEF Status
<1>6. Held(t.x, t.f, v, n)
  BY ONLY <1>1, <1>3, <1>4, <1>5, s.x.buf # 0, Held(s.x, s.f, v, n)
     DEF Held, Synced, Outside
<1> QED
  BY ONLY <1>1, <1>3, <1>6

(* What is dropped of a list that is the same up to n leaves the same.     *)
Reduced(w, v, n, c, k) ==
  \A i \in 1 .. n - k : w[i] = IF i <= c THEN v[i] ELSE v[i + k]

(* Shifting and then ending the buffer reduces the list of messages.       *)
LEMMA ShiftedReduces ==
  ASSUME NEW v, NEW z \in Seq(Record), NEW n \in Nat, SameTo(z, v, n),
         NEW c \in Nat, NEW k \in Nat, c + k <= n, NEW u, Shifted(u, z, c, k),
         NEW m \in Nat, m = n - k, NEW w, SameTo(w, u, m)
  PROVE  Reduced(w, v, n, c, k)
<1>1. PICK a \in Nat : a = Len(z)
  OBVIOUS
<1>2. n <= a /\ \A i \in 1 .. n : z[i] = v[i]
  BY ONLY <1>1, SameTo(z, v, n) DEF SameTo
<1>3. \A i \in 1 .. a :
        u[i] = IF i <= c THEN z[i] ELSE IF i + k <= a THEN z[i + k] ELSE Blank
  BY ONLY <1>1, Shifted(u, z, c, k) DEF Shifted
<1>4. \A i \in 1 .. m : w[i] = u[i]
  BY ONLY SameTo(w, u, m) DEF SameTo
<1>5. ASSUME NEW i \in 1 .. m PROVE w[i] = IF i <= c THEN v[i] ELSE v[i + k]
  <2>1. i \in 1 .. a /\ i \in 1 .. n /\ i + k \in 1 .. n /\ i + k <= a
    BY ONLY <1>2, i \in 1 .. m, m = n - k, n \in Nat, k \in Nat, a \in Nat,
            m \in Nat
  <2> QED
    BY ONLY <1>2, <1>3, <1>4, <2>1, i \in 1 .. m
<1> QED
  BY ONLY <1>5, m = n - k DEF Reduced

(* State t is s without k of its n messages v.                             *)
Cut(t, s, v, n, c, k) ==
  /\ t \in Status /\ t.ok = s.ok /\ t.x.num = n - k /\ t.x.buf = s.x.buf
  /\ \E w : Held(t.x, t.f, w, n - k) /\ Good(w, n - k) /\ Reduced(w, v, n, c, k)

(* The surplus goes in a buffer of its own, or in the one that is open.    *)
LEMMA SurplusDropped ==
  ASSUME NEW s \in Status, NEW v, NEW n \in Nat, n = s.x.num,
         NEW b \in Nat, b = s.x.buf, NEW z \in Seq(Record), SameTo(z, v, n), Good(z, n),
         NEW p \in Status, p = BeginBuffer(s), p.ok = s.ok, p.x.num = n,
         p.x.buf = b + 1, Held(p.x, p.f, z, n),
         NEW max \in Nat, NEW skip \in Nat, NEW k \in Nat, k # 0,
         k = Surplus(n, max, skip), skip + k <= n,
         NEW t, t = ReduceMaxMsgs(s, max, skip)
  PROVE  Cut(t, s, v, n, skip, k)
<1>1. PICK J : J = [j \in 0 .. k |-> After(s.ok, b + 1, z, skip, n, j)]
  OBVIOUS
<1>2. J \in [0 .. k -> SUBSET Status]
  <2>1. \A j \in 0 .. k : After(s.ok, b + 1, z, skip, n, j) \in SUBSET Status
    BY ONLY TRUE DEF After
  <2> QED
    BY ONLY <1>1, <2>1
<1>3. p \in J[0]
  <2>1. Shifted(z, z, skip, 0)
    <3>1. \A i \in 1 .. Len(z) : i + 0 = i /\ i <= Len(z)
      OBVIOUS
    <3> QED
      BY ONLY <3>1 DEF Shifted
  <2>2. n - 0 = n
    OBVIOUS
  <2>3. p \in After(s.ok, b + 1, z, skip, n, 0)
    BY ONLY <2>1, <2>2, p \in Status, p.ok = s.ok, p.x.num = n,
            p.x.buf = b + 1,
            Held(p.x, p.f, z, n) DEF After
  <2>4. 0 \in 0 .. k
    OBVIOUS
  <2> QED
    BY ONLY <1>1, <2>3, <2>4
<1>4. ASSUME NEW j \in 1 .. k, NEW q \in J[j - 1] PROVE Dropping(q, skip) \in J[j]
  <2>1. PICK i \in Nat : i = j - 1 /\ i \in 0 .. k /\ i + 1 = j /\ i + 1 + skip <= n
                         /\ j \in 0 .. k
    BY ONLY j \in 1 .. k, k \in Nat, skip \in Nat, n \in Nat, skip + k <= n
  <2>2. q \in After(s.ok, b + 1, z, skip, n, i)
    BY ONLY <1>1, <2>1, q \in J[j - 1]
  <2>3. n <= Len(z)
    BY ONLY Good(z, n) DEF Good
  <2>4. Dropping(q, skip) \in After(s.ok, b + 1, z, skip, n, i + 1)
    BY ONLY <2>1, <2>2, <2>3, z \in Seq(Record), skip \in Nat, n \in Nat,
            i \in Nat,
            OneMoreDropped
  <2> QED
    BY ONLY <1>1, <2>1, <2>4
<1>20. Leads(J, k, skip)
  BY ONLY <1>4 DEF Leads
<1>5. PICK g : Ran(g, k, p, skip) /\ g[k] \in J[k]
  BY ONLY <1>2, <1>3, <1>20, k \in Nat, DroppingsRun
<1>6. t = EndBuffer(g[k])
  <2>1. k = Surplus(s.x.num, max, skip)
    BY ONLY n = s.x.num, k = Surplus(n, max, skip)
  <2>2. ReduceMaxMsgs(s, max, skip) = EndBuffer(g[k])
    BY ONLY <1>5, <2>1, k \in Nat, k # 0, p = BeginBuffer(s), ReduceIs
  <2> QED
    BY ONLY <2>2, t = ReduceMaxMsgs(s, max, skip)
<1>7. PICK e \in Status : e = g[k]
  <2>1. k \in 0 .. k
    OBVIOUS
  <2> QED
    BY ONLY <1>5, <2>1 DEF Ran
<1>8. e \in After(s.ok, b + 1, z, skip, n, k)
  <2>1. k \in 0 .. k
    OBVIOUS
  <2> QED
    BY ONLY <1>1, <1>5, <1>7, <2>1
<1>9. PICK m \in Nat : m = n - k
  BY ONLY n \in Nat, k \in Nat, skip \in Nat, skip + k <= n
<1>10. /\ e.ok = s.ok /\ e.x.buf = b + 1 /\ e.x.num = m
       /\ \E u : Held(e.x, e.f, u, m) /\ Shifted(u, z, skip, k)
  BY ONLY <1>8, <1>9 DEF After
<1>11. PICK u : Held(e.x, e.f, u, m) /\ Shifted(u, z, skip, k)
  BY ONLY <1>10
<1>12. Good(u, m)
  <2>1. u \in Seq(Record)
    BY ONLY <1>11 DEF Held
  <2> QED
    BY ONLY <1>9, <1>11, <2>1, z \in Seq(Record), skip \in Nat, n \in Nat,
            Good(z, n),
            k \in Nat, skip + k <= n, ShiftedIsGood
<1>21. Ended(t, e, u, m)
  <2>1. e.x.buf # 0
    BY ONLY <1>10, b \in Nat
  <2>2. t = EndBuffer(e) /\ m = e.x.num
    BY ONLY <1>6, <1>7, <1>10
  <2> QED
    BY ONLY <1>11, <1>12, <2>1, <2>2, e \in Status, BufferEnded
<1>13. /\ t \in Status /\ t.ok = e.ok /\ t.x.num = m /\ t.x.buf = e.x.buf - 1
       /\ \E w : Held(t.x, t.f, w, m) /\ Good(w, m) /\ SameTo(w, u, m)
  BY ONLY <1>21 DEF Ended
<1>14. PICK w : Held(t.x, t.f, w, m) /\ Good(w, m) /\ SameTo(w, u, m)
  BY ONLY <1>13
<1>15. Reduced(w, v, n, skip, k)
  BY ONLY <1>9, <1>11, <1>14, z \in Seq(Record), n \in Nat, SameTo(z, v, n),
          skip \in Nat, k \in Nat, skip + k <= n, m \in Nat, ShiftedReduces
<1>16. t.x.buf = b
  BY ONLY <1>10, <1>13, b \in Nat
<1> QED
  BY ONLY <1>9, <1>10, <1>13, <1>14, <1>15, <1>16, b = s.x.buf DEF Cut

(* Reducing the messages to a limit takes those away that it says, and     *)
(* keeps the list one of messages.                                         *)
LEMMA MessagesReduced ==
  ASSUME NEW s \in Status, NEW v, NEW n \in Nat, n = s.x.num,
         Held(s.x, s.f, v, n), Good(v, n), NEW b \in Nat, b = s.x.buf,
         NEW max \in Nat, NEW skip \in Nat, max = 0 \/ max > skip,
         NEW k, k = Surplus(n, max, skip), NEW t, t = ReduceMaxMsgs(s, max, skip)
  PROVE  /\ k \in Nat /\ k <= n /\ (k # 0 => skip + k <= n)
         /\ Cut(t, s, v, n, skip, k)
<1>1. k \in Nat /\ k <= n /\ (k # 0 => skip + k <= n)
  BY ONLY n \in Nat, max \in Nat, skip \in Nat, max = 0 \/ max > skip,
          k = Surplus(n, max, skip), SurplusIs
<1>2. s.x \in Hidx /\ s.f \in Seq(Record) /\ v \in Seq(Record) /\ n <= Len(v)
  BY ONLY Held(s.x, s.f, v, n) DEF Held
<1>3. SameTo(v, v, n)
  BY ONLY <1>2 DEF SameTo
<1>4. CASE k = 0
  <2>1. t = s
    BY ONLY <1>4, n = s.x.num, k = Surplus(n, max, skip),
            t = ReduceMaxMsgs(s, max, skip) DEF ReduceMaxMsgs
  <2>2. n - k = n /\ \A i \in 1 .. n : i + k = i
    BY ONLY <1>4, n \in Nat
  <2>3. Reduced(v, v, n, skip, k)
    BY ONLY <2>2 DEF Reduced
  <2> QED
    BY ONLY <1>1, <2>1, <2>2, <2>3, s \in Status, n = s.x.num, b = s.x.buf,
            Held(s.x, s.f, v, n), Good(v, n) DEF Cut
<1>5. PICK p : p = BeginBuffer(s)
  OBVIOUS
<1>6. CASE k # 0 /\ b # 0
  <2>1. p \in Status /\ p.ok = s.ok /\ p.x.num = n /\ p.x.buf = b + 1 /\ Held(p.x, p.f, v, n)
    BY ONLY <1>5, <1>6, s \in Status, n = s.x.num, b \in Nat, b = s.x.buf,
            Held(s.x, s.f, v, n), BufferNested
  <2>2. k \in Nat /\ skip + k <= n /\ k # 0
    BY ONLY <1>1, <1>6
  <2> QED
    BY ONLY <1>1, <1>2, <1>3, <1>5, <2>1, <2>2, s \in Status, n \in Nat,
            n = s.x.num,
            b \in Nat, b = s.x.buf, Good(v, n), max \in Nat, skip \in Nat,
            k = Surplus(n, max, skip), t = ReduceMaxMsgs(s, max, skip), SurplusDropped
<1>7. CASE k # 0 /\ b = 0
  <2>1. v = s.f
    BY ONLY <1>7, b = s.x.buf, Held(s.x, s.f, v, n) DEF Held
  <2>2. PICK z : z = SubSeq(s.f, 1, s.x.num)
    OBVIOUS
  <2>3. s.x.buf = 0 /\ s.x.num <= Len(s.f)
    BY ONLY <1>2, <1>7, <2>1, b = s.x.buf, n = s.x.num
  <2>4. /\ p \in Status /\ p.ok = s.ok /\ p.x.num = n /\ p.x.buf = 1
        /\ Held(p.x, p.f, z, n) /\ Len(z) = n /\ SameTo(z, v, n)
    BY ONLY <1>5, <2>1, <2>2, <2>3, s \in Status, n = s.x.num, BufferBegun
  <2>5. z \in Seq(Record)
    BY ONLY <2>4 DEF Held
  <2>6. Good(z, n)
    <3>1. \A i \in 1 .. n : z[i].uid # NoUid
      BY ONLY <2>4, Good(v, n) DEF Good, SameTo
    <3>2. n <= Len(z) /\ ~ (\E i \in n + 1 .. Len(z) : TRUE)
      BY ONLY <2>4, n \in Nat
    <3> QED
      BY ONLY <3>1, <3>2 DEF Good
  <2>7. k \in Nat /\ skip + k <= n /\ k # 0 /\ 1 = b + 1
    BY ONLY <1>1, <1>7
  <2> QED
    BY ONLY <1>1, <1>5, <2>4, <2>5, <2>6, <2>7, s \in Status, n \in Nat,
            n = s.x.num,
            b \in Nat, b = s.x.buf, max \in Nat, skip \in Nat,
            k = Surplus(n, max, skip), t = ReduceMaxMsgs(s, max, skip), SurplusDropped
<1> QED
  BY ONLY <1>4, <1>6, <1>7

---------------------------------------------------------------------------
(**************************************************************************)
(* The invariant: the one process that has the area open counts what the   *)
(* header counts, and the list it sees, in the file or in its buffer, is   *)
(* one of messages with nothing behind them that names a frame.            *)
(**************************************************************************)
(* One process has the area open.                                          *)
Single == \E h : Handles = {h}

(* The area's limits leave a message behind those that stay.               *)
LimitsLeaveOne == \A l \in Limits : l[1] = 0 \/ l[1] > l[2]

(* The process counts the messages that the header counts, and has a       *)
(* buffer when it has the area locked.                                     *)
Typed ==
  /\ hdr \in 0 .. MaxUid /\ next \in 1 .. MaxUid + 1 /\ hdr < next
  /\ locked \in Handles \cup {NoHandle}
  /\ ix \in [Handles -> Hidx] /\ file \in Seq(Record)
  /\ ix[Sole].num = hdr /\ ix[Sole].buf = IF locked = Sole THEN 1 ELSE 0

(* The process sees the list v, and it is one of messages.                 *)
Seen(x, f, v, n) == Held(x, f, v, n) /\ Good(v, n)

IInv == Typed /\ \E v : Seen(ix[Sole], file, v, hdr)

(* One process: it is the one the refinement looks at.                     *)
LEMMA SoleIs ==
  ASSUME Single, NEW h \in Handles
  PROVE  h = Sole /\ Handles = {h} /\ Sole \in Handles /\ Sole # NoHandle
<1>1. PICK g : Handles = {g}
  BY DEF Single
<1>2. Sole \in Handles
  BY ONLY <1>1 DEF Sole
<1>3. NoHandle \notin Handles
  BY ONLY IndexAssumption DEF IndexAssumption
<1> QED
  BY ONLY <1>1, <1>2, <1>3, h \in Handles

(* What a call starts from.                                                *)
Ready(s, h, v) ==
  /\ h = Sole /\ s \in Status /\ s.x = ix[h] /\ s.f = file /\ s.ok = TRUE
  /\ s.x.num = hdr /\ s.x.buf = (IF locked = h THEN 1 ELSE 0)
  /\ Held(s.x, s.f, v, hdr) /\ Good(v, hdr)

(* A call finds the area so, and refreshing num_msg changes nothing.       *)
LEMMA CallBegins ==
  ASSUME Single, Typed, NEW v, Seen(ix[Sole], file, v, hdr), NEW h \in Handles,
         NEW s, s = At(h)
  PROVE  Ready(s, h, v) /\ s = Fresh(h)
<1>1. h = Sole
  BY ONLY Single, h \in Handles, SoleIs
<1>2. ix[h] \in Hidx /\ file \in Seq(Record) /\ ix[h].num = hdr
      /\ ix[h].buf = IF locked = h THEN 1 ELSE 0
  BY ONLY <1>1, Typed, h \in Handles DEF Typed
<1>3. s \in Status /\ s.x = ix[h] /\ s.f = file /\ s.ok = TRUE
  BY ONLY <1>2, s = At(h) DEF At, Status
<1>4. s.x.num = hdr
  BY ONLY <1>2, <1>3
<1>5. [s EXCEPT !.x.num = hdr] = s
  BY ONLY <1>3, <1>4 DEF Status, Hidx
<1>6. Held(s.x, s.f, v, hdr) /\ Good(v, hdr)
  BY ONLY <1>1, <1>3, Seen(ix[Sole], file, v, hdr) DEF Seen
<1> QED
  BY ONLY <1>1, <1>2, <1>3, <1>5, <1>6, s = At(h) DEF Ready, Fresh

(* What a call leaves when it stores state t with n messages.              *)
LEMMA CallEnds ==
  ASSUME Single, Typed, NEW h \in Handles, NEW t \in Status, Install(h, t),
         NEW n \in 0 .. MaxUid, hdr' = n, t.x.num = n,
         next' \in 1 .. MaxUid + 1, n < next', locked' \in {h, NoHandle},
         t.x.buf = (IF locked' = h THEN 1 ELSE 0),
         NEW w, Held(t.x, t.f, w, n), Good(w, n)
  PROVE  Typed' /\ Seen(ix'[Sole], file', w, hdr')
<1>1. h = Sole
  BY ONLY Single, h \in Handles, SoleIs
<1>2. ix \in [Handles -> Hidx]
  BY ONLY Typed DEF Typed
<1>3. t.x \in Hidx /\ t.f \in Seq(Record)
  BY ONLY t \in Status DEF Status
<1>4. ix' = [ix EXCEPT ![h] = t.x] /\ file' = t.f
  BY ONLY Install(h, t) DEF Install
<1>5. ix' \in [Handles -> Hidx] /\ ix'[h] = t.x
  BY ONLY <1>2, <1>3, <1>4, h \in Handles
<1>6. Seen(ix'[Sole], file', w, hdr')
  BY ONLY <1>1, <1>4, <1>5, hdr' = n, Held(t.x, t.f, w, n), Good(w, n) DEF Seen
<1>7. ix'[Sole].num = hdr' /\ ix'[Sole].buf = IF locked' = Sole THEN 1 ELSE 0
  BY ONLY <1>1, <1>5, hdr' = n, t.x.num = n,
          t.x.buf = (IF locked' = h THEN 1 ELSE 0)
<1>8. hdr' \in 0 .. MaxUid /\ hdr' < next' /\ locked' \in Handles \cup {NoHandle}
  BY ONLY hdr' = n, n \in 0 .. MaxUid, n < next', locked' \in {h, NoHandle},
          h \in Handles
<1>9. file' \in Seq(Record)
  BY ONLY <1>3, <1>4
<1> QED
  BY ONLY <1>5, <1>6, <1>7, <1>8, <1>9, next' \in 1 .. MaxUid + 1 DEF Typed

(* What the handle sees.                                                   *)
LEMMA VirtualIs ==
  ASSUME NEW x, NEW f, NEW v, NEW n, Held(x, f, v, n)
  PROVE  Virtual(x, f) = v /\ v \in Seq(Record) /\ n \in Nat /\ n <= Len(v)
<1>1. v \in Seq(Record) /\ n \in Nat /\ n <= Len(v)
  BY DEF Held
<1>2. CASE x.buf = 0
  BY ONLY <1>1, <1>2, Held(x, f, v, n) DEF Held, Virtual
<1>3. CASE x.buf # 0
  <2>1. Holds(x.seg, v)
    BY ONLY <1>3, Held(x, f, v, n) DEF Held
  <2>2. Buffered(x) = v
    BY ONLY <2>1, BufferedIs
  <2> QED
    BY ONLY <1>1, <1>3, <2>2 DEF Virtual
<1> QED
  BY ONLY <1>2, <1>3

(* Storing a record with an id keeps a list of messages one, also as the   *)
(* one behind the last.                                                    *)
LEMMA PlacedIsGood ==
  ASSUME NEW v \in Seq(Record), NEW m \in Nat, Good(v, m), NEW n \in Nat \ {0},
         NEW r \in Record, r.uid # NoUid, NEW y, Placed(y, v, n, r),
         NEW k \in Nat, (k = m /\ n <= m) \/ (k = m + 1 /\ n = k)
  PROVE  Good(y, k) /\ \A i \in 1 .. k : y[i] = IF i = n THEN r ELSE v[i]
<1>1. PICK a \in Nat : a = Len(v)
  OBVIOUS
<1>2. /\ m <= a /\ \A i \in 1 .. m : v[i].uid # NoUid
      /\ \A i \in m + 1 .. a : ~v[i].ofs
  BY ONLY <1>1, Good(v, m) DEF Good
<1>3. /\ y \in Seq(Record) /\ n <= a + 1
      /\ Len(y) = IF n <= a THEN a ELSE n
      /\ \A i \in 1 .. Len(y) : y[i] = IF i = n THEN r ELSE v[i]
  BY ONLY <1>1, v \in Seq(Record), n \in Nat \ {0}, r \in Record, Placed(y, v,
          n, r),
          PlacedIs
<1>4. PICK b \in Nat : b = Len(y)
  BY ONLY <1>3
<1>5. k <= b /\ (b = a \/ (b = n /\ b = a + 1))
  BY ONLY <1>2, <1>3, <1>4, a \in Nat, b \in Nat, m \in Nat, k \in Nat,
          n \in Nat \ {0},
          (k = m /\ n <= m) \/ (k = m + 1 /\ n = k)
<1>6. ASSUME NEW i \in 1 .. k PROVE y[i].uid # NoUid /\ y[i] = IF i = n THEN r ELSE v[i]
  <2>1. i \in 1 .. b /\ (i # n => i \in 1 .. m)
    BY ONLY <1>5, i \in 1 .. k, b \in Nat, m \in Nat, k \in Nat,
            n \in Nat \ {0},
            (k = m /\ n <= m) \/ (k = m + 1 /\ n = k)
  <2> QED
    BY ONLY <1>2, <1>3, <1>4, <2>1, r.uid # NoUid
<1>7. ASSUME NEW i \in k + 1 .. b PROVE ~y[i].ofs
  <2>1. i \in 1 .. b /\ i # n /\ i \in m + 1 .. a
    BY ONLY <1>5, i \in k + 1 .. b, a \in Nat, b \in Nat, m \in Nat,
            k \in Nat, n \in Nat \ {0},
            (k = m /\ n <= m) \/ (k = m + 1 /\ n = k)
  <2> QED
    BY ONLY <1>2, <1>3, <1>4, <2>1
<1> QED
  BY ONLY <1>4, <1>5, <1>6, <1>7 DEF Good

(* Counting other messages leaves what is seen alone.                      *)
LEMMA Counted ==
  ASSUME NEW s \in Status, NEW v, NEW m, Held(s.x, s.f, v, m),
         NEW k \in Nat, k <= m, NEW n \in Nat, NEW t, t = [s EXCEPT !.x.num = n]
  PROVE  /\ t \in Status /\ t.ok = s.ok /\ t.x.num = n /\ t.x.buf = s.x.buf
         /\ t.f = s.f /\ Held(t.x, t.f, v, k)
<1>1. t \in Status /\ t.ok = s.ok /\ t.x.num = n /\ t.x.buf = s.x.buf
  BY ONLY s \in Status, n \in Nat, t = [s EXCEPT !.x.num = n] DEF Status, Hidx
<1>2. t.f = s.f /\ t.x.seg = s.x.seg /\ t.x.lo = s.x.lo /\ t.x.hi = s.x.hi
  BY ONLY s \in Status, t = [s EXCEPT !.x.num = n] DEF Status, Hidx
<1>3. t.x \in Hidx
  BY ONLY <1>1 DEF Status
<1>4. m \in Nat /\ m <= Len(v) /\ v \in Seq(Record)
  BY ONLY Held(s.x, s.f, v, m) DEF Held
<1>5. \A i \in 1 .. k : i \in 1 .. m
  BY ONLY <1>4, k \in Nat, k <= m
<1>6. k <= Len(v)
  BY ONLY <1>4, k \in Nat, k <= m
<1> QED
  BY ONLY <1>1, <1>2, <1>3, <1>4, <1>5, <1>6, k \in Nat, Held(s.x, s.f, v, m)
     DEF Held, Synced, Outside

---------------------------------------------------------------------------
(**************************************************************************)
(* The calls.                                                              *)
(**************************************************************************)
(* What a call does to the list of messages: nothing, one is replaced, one *)
(* goes, or k behind the c'th go and one is added.                         *)
Stays(v) ==
  hdr' = hdr /\ \E w : Seen(ix'[Sole], file', w, hdr') /\ SameTo(w, v, hdr)

Replaced(w, v, m, n, r) == \A i \in 1 .. m : w[i] = IF i = n THEN r ELSE v[i]

Stores(v) ==
  \E n \in 1 .. hdr, r \in Record :
    hdr' = hdr /\ \E w : Seen(ix'[Sole], file', w, hdr') /\ Replaced(w, v, hdr, n, r)

Removes(v) ==
  \E n \in 1 .. hdr :
    hdr' = hdr - 1 /\ \E w : Seen(ix'[Sole], file', w, hdr') /\ Reduced(w, v, hdr, n - 1, 1)

Creates(v) ==
  \E k \in 0 .. hdr, c \in Nat, r \in Record :
    /\ k # 0 => c + k <= hdr
    /\ hdr' = hdr - k + 1
    /\ \E w : Seen(ix'[Sole], file', w, hdr') /\ Reduced(w, v, hdr, c, k) /\ w[hdr'] = r

(* Dropping a message leaves a list of messages, one less.                 *)
LEMMA DroppedIsGood ==
  ASSUME NEW v \in Seq(Record), NEW m \in Nat, Good(v, m), NEW n \in 1 .. m,
         NEW y, y = Dropped(v, n)
  PROVE  Good(y, m - 1) /\ Reduced(y, v, m, n - 1, 1)
<1>1. PICK a \in Nat : a = Len(v)
  OBVIOUS
<1>2. /\ m <= a /\ \A i \in 1 .. m : v[i].uid # NoUid
      /\ \A i \in m + 1 .. a : ~v[i].ofs
  BY ONLY <1>1, Good(v, m) DEF Good
<1>3. /\ Len(y) = a
      /\ \A i \in 1 .. a :
           y[i] = IF i < n THEN v[i] ELSE IF i < a THEN v[i + 1] ELSE Blank
  <2>1. n \in 1 .. Len(v)
    BY ONLY <1>1, <1>2, n \in 1 .. m, m \in Nat, a \in Nat
  <2> QED
    BY ONLY <1>1, <2>1, v \in Seq(Record), y = Dropped(v, n), DroppedIs
<1>4. PICK k \in Nat : k = m - 1
  BY ONLY n \in 1 .. m, m \in Nat
<1>5. ASSUME NEW i \in 1 .. k
      PROVE  y[i].uid # NoUid /\ y[i] = IF i <= n - 1 THEN v[i] ELSE v[i + 1]
  <2>1. /\ i \in 1 .. a /\ i \in 1 .. m /\ i + 1 \in 1 .. m /\ i < a
        /\ (i < n <=> i <= n - 1)
    BY ONLY <1>2, <1>4, i \in 1 .. k, n \in 1 .. m, m \in Nat, a \in Nat
  <2> QED
    BY ONLY <1>2, <1>3, <2>1
<1>6. ASSUME NEW i \in k + 1 .. a PROVE ~y[i].ofs
  <2>1. i \in 1 .. a /\ ~ (i < n) /\ (i < a => i + 1 \in m + 1 .. a)
    BY ONLY <1>4, i \in k + 1 .. a, k \in Nat, n \in 1 .. m, m \in Nat,
            a \in Nat
  <2> QED
    BY ONLY <1>2, <1>3, <2>1, BlankIsRecord
<1>7. k <= a
  BY ONLY <1>2, <1>4, m \in Nat, a \in Nat
<1>8. Good(y, k)
  BY ONLY <1>3, <1>5, <1>6, <1>7 DEF Good
<1>9. Reduced(y, v, m, n - 1, 1)
  BY ONLY <1>4, <1>5 DEF Reduced
<1> QED
  BY ONLY <1>4, <1>8, <1>9

(* A record is stored for a message: BlankOld and UpdateIndex.             *)
LEMMA RecordStored ==
  ASSUME Single, Typed, NEW v, NEW h \in Handles, NEW s, Ready(s, h, v),
         NEW n \in 1 .. MaxUid, n <= hdr, NEW b \in BOOLEAN,
         NEW r, r = [v[n] EXCEPT !.ofs = b],
         NEW t, t = SidxPut(s, n, r), Install(h, t), UNCHANGED <<hdr, next, locked>>
  PROVE  Typed' /\ Stores(v)
<1>1. /\ s \in Status /\ s.ok = TRUE /\ s.x.num = hdr
      /\ s.x.buf = (IF locked = h THEN 1 ELSE 0)
      /\ Held(s.x, s.f, v, hdr) /\ Good(v, hdr)
  BY ONLY Ready(s, h, v) DEF Ready
<1>2. hdr \in 0 .. MaxUid /\ hdr < next /\ next \in 1 .. MaxUid + 1
      /\ locked \in Handles \cup {NoHandle}
  BY ONLY Typed DEF Typed
<1>3. PICK m \in Nat : m = hdr /\ m \in 0 .. MaxUid
  BY ONLY <1>2, IndexAssumption
<1>4. n \in 1 .. m /\ n \in Nat \ {0} /\ n <= m
  BY ONLY <1>3, n \in 1 .. MaxUid, n <= hdr, m \in Nat
<1>5. v \in Seq(Record) /\ m <= Len(v)
  BY ONLY <1>1, <1>3 DEF Held
<1>6. n \in 1 .. Len(v) /\ n <= Len(v)
  BY ONLY <1>4, <1>5, m \in Nat
<1>7. v[n] \in Record /\ v[n].uid # NoUid
  <2>1. v[n] \in Record
    BY ONLY <1>5, <1>6
  <2>2. v[n].uid # NoUid
    BY ONLY <1>1, <1>3, <1>4 DEF Good
  <2> QED
    BY ONLY <2>1, <2>2
<1>8. r \in Record /\ r.uid # NoUid
  BY ONLY <1>7, b \in BOOLEAN, r = [v[n] EXCEPT !.ofs = b] DEF Record
<1>9. PICK y : y = Stored(v, n, r)
  OBVIOUS
<1>10. Placed(y, v, n, r)
  BY ONLY <1>6, <1>9 DEF Placed
<1>11. Steady(t, s) /\ Held(t.x, t.f, y, m)
  <2>1. Held(s.x, s.f, v, m) /\ (m <= m \/ (m = m + 1 /\ n = m))
    BY ONLY <1>1, <1>3
  <2> QED
    BY ONLY <1>1, <1>4, <1>6, <1>8, <1>10, <2>1, m \in Nat, t = SidxPut(s, n,
            r), EntryPut
<1>12. Good(y, m) /\ Replaced(y, v, m, n, r)
  <2>1. (m = m /\ n <= m) \/ (m = m + 1 /\ n = m)
    BY ONLY <1>4
  <2>2. Good(v, m)
    BY ONLY <1>1, <1>3
  <2>3. Good(y, m) /\ \A i \in 1 .. m : y[i] = IF i = n THEN r ELSE v[i]
    BY ONLY <1>4, <1>5, <1>8, <1>10, <2>1, <2>2, m \in Nat, PlacedIsGood
  <2> QED
    BY ONLY <2>3 DEF Replaced
<1>13. t \in Status /\ t.x.num = m /\ t.x.buf = s.x.buf
  BY ONLY <1>1, <1>3, <1>11 DEF Steady
<1>14. /\ hdr' = m /\ next' \in 1 .. MaxUid + 1 /\ m < next'
       /\ locked' \in {h, NoHandle} /\ t.x.buf = (IF locked' = h THEN 1 ELSE 0)
  <2>1. Handles = {h}
    BY ONLY Single, h \in Handles, SoleIs
  <2> QED
    BY ONLY <1>1, <1>2, <1>3, <1>13, <2>1, UNCHANGED <<hdr, next, locked>>
<1>15. Typed' /\ Seen(ix'[Sole], file', y, hdr')
  BY ONLY <1>3, <1>11, <1>12, <1>13, <1>14, Single, Typed, h \in Handles,
          Install(h, t), CallEnds
<1> QED
  BY ONLY <1>3, <1>4, <1>8, <1>12, <1>14, <1>15 DEF Stores

(* Killing a message takes its record away.                                *)
LEMMA KillMsgIs ==
  ASSUME Single, Typed, NEW v, NEW h \in Handles, NEW s, Ready(s, h, v), s = Fresh(h),
         NEW n \in 1 .. MaxUid, KillMsg(h, n)
  PROVE  Typed' /\ Removes(v)
<1>1. /\ s \in Status /\ s.ok = TRUE /\ s.x.num = hdr /\ s.x = ix[h]
      /\ s.x.buf = (IF locked = h THEN 1 ELSE 0)
      /\ Held(s.x, s.f, v, hdr) /\ Good(v, hdr)
  BY ONLY Ready(s, h, v) DEF Ready
<1>2. hdr \in 0 .. MaxUid /\ hdr < next /\ next \in 1 .. MaxUid + 1
      /\ locked \in Handles \cup {NoHandle}
  BY ONLY Typed DEF Typed
<1>3. PICK m \in Nat : m = hdr /\ m \in 0 .. MaxUid
  BY ONLY <1>2, IndexAssumption
<1>4. PICK u : u = RemoveIndexEntry(s, n)
  OBVIOUS
<1>5. /\ n <= ix[h].num /\ UNCHANGED <<next, locked>>
      /\ Install(h, IF u.ok THEN [u EXCEPT !.x.num = @ - 1] ELSE u)
      /\ hdr' = IF u.ok THEN hdr - 1 ELSE hdr
  BY ONLY <1>4, s = Fresh(h), KillMsg(h, n) DEF KillMsg
<1>6. n \in 1 .. m
  BY ONLY <1>1, <1>3, <1>5, n \in 1 .. MaxUid, m \in Nat
<1>7. PICK k \in Nat : k = m - 1
  BY ONLY <1>6, m \in Nat
<1>8. PICK y : y = Dropped(v, n)
  OBVIOUS
<1>9. Steady(u, s) /\ Held(u.x, u.f, y, k)
  <2>1. Held(s.x, s.f, v, m) /\ m - 1 <= s.x.num
    BY ONLY <1>1, <1>3, m \in Nat
  <2>2. Steady(u, s) /\ Held(u.x, u.f, y, m - 1)
    BY ONLY <1>1, <1>4, <1>6, <1>8, <2>1, EntryRemoved
  <2> QED
    BY ONLY <1>7, <2>2
<1>10. u \in Status /\ u.ok = TRUE /\ u.x.num = m /\ u.x.buf = s.x.buf
  BY ONLY <1>1, <1>3, <1>9 DEF Steady
<1>11. PICK t : t = [u EXCEPT !.x.num = k]
  OBVIOUS
<1>12. /\ t \in Status /\ t.x.num = k /\ t.x.buf = u.x.buf
       /\ Held(t.x, t.f, y, k)
  <2>1. k <= k
    OBVIOUS
  <2>2. u \in Status /\ Held(u.x, u.f, y, k)
    BY ONLY <1>9, <1>10
  <2> QED
    BY ONLY <1>11, <2>1, <2>2, k \in Nat, Counted
<1>13. Good(y, k) /\ Reduced(y, v, m, n - 1, 1)
  <2>1. v \in Seq(Record) /\ Good(v, m)
    BY ONLY <1>1, <1>3 DEF Held
  <2>2. Good(y, m - 1) /\ Reduced(y, v, m, n - 1, 1)
    BY ONLY <1>6, <1>8, <2>1, m \in Nat, DroppedIsGood
  <2> QED
    BY ONLY <1>7, <2>2
<1>14. Install(h, t)
  <2>1. [u EXCEPT !.x.num = @ - 1] = t
    BY ONLY <1>7, <1>10, <1>11
  <2> QED
    BY ONLY <1>5, <1>10, <2>1
<1>15. /\ hdr' = k /\ k \in 0 .. MaxUid /\ next' \in 1 .. MaxUid + 1 /\ k < next'
       /\ locked' \in {h, NoHandle} /\ t.x.buf = (IF locked' = h THEN 1 ELSE 0)
  <2>1. Handles = {h}
    BY ONLY Single, h \in Handles, SoleIs
  <2>2. k \in 0 .. MaxUid /\ k < next
    BY ONLY <1>2, <1>3, <1>7, k \in Nat, m \in Nat, IndexAssumption
  <2> QED
    BY ONLY <1>1, <1>2, <1>3, <1>5, <1>7, <1>10, <1>12, <2>1, <2>2
<1>16. Typed' /\ Seen(ix'[Sole], file', y, hdr')
  BY ONLY <1>12, <1>13, <1>14, <1>15, Single, Typed, h \in Handles, CallEnds
<1>17. hdr' = hdr - 1 /\ n \in 1 .. hdr /\ Reduced(y, v, hdr, n - 1, 1)
  BY ONLY <1>3, <1>6, <1>7, <1>13, <1>15
<1> QED
  BY ONLY <1>16, <1>17 DEF Removes

(* Abandoning the last message takes it off the messages.                  *)
LEMMA AbandonMsgIs ==
  ASSUME Single, Typed, NEW v, NEW h \in Handles, NEW s, Ready(s, h, v), AbandonMsg(h)
  PROVE  Typed' /\ Removes(v)
<1>1. /\ s \in Status /\ s.x.num = hdr /\ s.x = ix[h] /\ s.f = file
      /\ s.x.buf = (IF locked = h THEN 1 ELSE 0)
      /\ Held(s.x, s.f, v, hdr) /\ Good(v, hdr)
  BY ONLY Ready(s, h, v) DEF Ready
<1>2. hdr \in 0 .. MaxUid /\ hdr < next /\ next \in 1 .. MaxUid + 1
      /\ locked \in Handles \cup {NoHandle} /\ ix \in [Handles -> Hidx]
  BY ONLY Typed DEF Typed
<1>3. PICK m \in Nat : m = hdr /\ m \in 0 .. MaxUid
  BY ONLY <1>2, IndexAssumption
<1>4. Held(s.x, s.f, v, m) /\ Good(v, m) /\ ix[h].num = m
  BY ONLY <1>1, <1>3
<1>5. Virtual(ix[h], file) = v /\ v \in Seq(Record)
  BY ONLY <1>1, <1>4, VirtualIs
<1>6. /\ m \in 1 .. Len(v) /\ ~v[m].ofs
      /\ hdr' = (IF hdr = m THEN m - 1 ELSE hdr)
      /\ ix' = [ix EXCEPT ![h].num = hdr'] /\ UNCHANGED <<file, next, locked>>
  BY ONLY <1>4, <1>5, AbandonMsg(h) DEF AbandonMsg
<1>7. PICK k \in Nat : k = m - 1 /\ k <= m /\ m \in 1 .. m
  BY ONLY <1>6, m \in Nat
<1>8. PICK t : t = [s EXCEPT !.x.num = k]
  OBVIOUS
<1>9. /\ t \in Status /\ t.x.num = k /\ t.x.buf = s.x.buf /\ t.f = s.f
      /\ Held(t.x, t.f, v, k)
  BY ONLY <1>1, <1>4, <1>7, <1>8, k \in Nat, Counted
<1>10. hdr' = k
  BY ONLY <1>3, <1>6, <1>7
<1>11. Install(h, t)
  <2>1. t.x = [ix[h] EXCEPT !.num = k]
    BY ONLY <1>1, <1>8 DEF Status
  <2>2. ix' = [ix EXCEPT ![h] = t.x]
    BY ONLY <1>2, <1>6, <1>10, <2>1, h \in Handles
  <2> QED
    BY ONLY <1>1, <1>6, <1>9, <2>2 DEF Install
<1>12. Good(v, k)
  <2>1. PICK a \in Nat : a = Len(v)
    BY ONLY <1>5
  <2>2. /\ m <= a /\ \A i \in 1 .. m : v[i].uid # NoUid
        /\ \A i \in m + 1 .. a : ~v[i].ofs
    BY ONLY <1>4, <2>1 DEF Good
  <2>3. k <= a /\ \A i \in 1 .. k : i \in 1 .. m
    BY ONLY <1>7, <2>2, m \in Nat, k \in Nat, a \in Nat
  <2>4. \A i \in k + 1 .. a : i = m \/ i \in m + 1 .. a
    BY ONLY <1>7, m \in Nat, k \in Nat, a \in Nat
  <2> QED
    BY ONLY <1>6, <2>1, <2>2, <2>3, <2>4 DEF Good
<1>13. Reduced(v, v, m, m - 1, 1)
  <2>1. \A i \in 1 .. m - 1 : i <= m - 1
    BY ONLY m \in Nat
  <2> QED
    BY ONLY <2>1 DEF Reduced
<1>14. /\ k \in 0 .. MaxUid /\ next' \in 1 .. MaxUid + 1 /\ k < next'
       /\ locked' \in {h, NoHandle} /\ t.x.buf = (IF locked' = h THEN 1 ELSE 0)
  <2>1. Handles = {h}
    BY ONLY Single, h \in Handles, SoleIs
  <2>2. k \in 0 .. MaxUid /\ k < next
    BY ONLY <1>2, <1>3, <1>7, k \in Nat, m \in Nat, IndexAssumption
  <2> QED
    BY ONLY <1>1, <1>2, <1>6, <1>9, <2>1, <2>2
<1>15. Typed' /\ Seen(ix'[Sole], file', v, hdr')
  BY ONLY <1>9, <1>10, <1>11, <1>12, <1>14, Single, Typed, h \in Handles,
          CallEnds
<1>16. hdr' = hdr - 1 /\ m \in 1 .. hdr /\ Reduced(v, v, hdr, m - 1, 1)
  BY ONLY <1>3, <1>7, <1>10, <1>13
<1> QED
  BY ONLY <1>15, <1>16 DEF Removes

(* A list seen without a buffer is the file.                               *)
LEMMA OpenedIs ==
  ASSUME NEW f \in Seq(Record), NEW n \in Nat, n <= Len(f), NEW x, x = Opened(n)
  PROVE  x \in Hidx /\ x.num = n /\ x.buf = 0 /\ Held(x, f, f, n)
<1>1. x = [num |-> n, buf |-> 0, seg |-> <<>>, alloc |-> 0, lo |-> NoDelta, hi |-> NoDelta]
  BY ONLY x = Opened(n) DEF Opened
<1>2. <<>> \in Seq(Segment) /\ NoDelta \in Int /\ NoDelta \in (Nat \ {0}) \cup {NoDelta}
  BY ONLY TRUE DEF NoDelta
<1>3. x \in Hidx
  BY ONLY <1>1, <1>2, n \in Nat DEF Hidx
<1>4. x.num = n /\ x.buf = 0 /\ x.seg = <<>>
  BY ONLY <1>1
<1> QED
  BY ONLY <1>3, <1>4, f \in Seq(Record), n \in Nat, n <= Len(f) DEF Held

(* Locking reads the messages into a buffer.                               *)
LEMMA LockAreaIs ==
  ASSUME Single, Typed, NEW v, NEW h \in Handles, NEW s, Ready(s, h, v), s = At(h),
         LockArea(h)
  PROVE  Typed' /\ Stays(v)
<1>1. /\ s \in Status /\ s.x.num = hdr /\ s.x = ix[h] /\ s.f = file
      /\ s.x.buf = (IF locked = h THEN 1 ELSE 0)
      /\ Held(s.x, s.f, v, hdr) /\ Good(v, hdr)
  BY ONLY Ready(s, h, v) DEF Ready
<1>2. hdr \in 0 .. MaxUid /\ hdr < next /\ next \in 1 .. MaxUid + 1
  BY ONLY Typed DEF Typed
<1>3. PICK m \in Nat : m = hdr /\ m \in 0 .. MaxUid
  BY ONLY <1>2, IndexAssumption
<1>4. h # NoHandle
  BY ONLY Single, h \in Handles, SoleIs
<1>5. PICK t : t = BeginBuffer(s)
  OBVIOUS
<1>6. /\ locked = NoHandle /\ locked' = h /\ Install(h, t)
      /\ UNCHANGED <<hdr, next>>
  BY ONLY <1>5, s = At(h), LockArea(h) DEF LockArea
<1>7. s.x.buf = 0
  BY ONLY <1>1, <1>4, <1>6
<1>8. v = s.f /\ s.x.num <= Len(s.f)
  BY ONLY <1>1, <1>7 DEF Held
<1>9. PICK w : w = SubSeq(s.f, 1, s.x.num)
  OBVIOUS
<1>10. /\ t \in Status /\ t.x.num = m /\ t.x.buf = 1 /\ Held(t.x, t.f, w, m)
       /\ Len(w) = m /\ SameTo(w, v, m)
  <2>1. /\ t \in Status /\ t.x.num = s.x.num /\ t.x.buf = 1 /\ Held(t.x, t.f, w, s.x.num)
        /\ Len(w) = s.x.num /\ SameTo(w, s.f, s.x.num)
    BY ONLY <1>1, <1>5, <1>7, <1>8, <1>9, BufferBegun
  <2> QED
    BY ONLY <1>1, <1>3, <1>8, <2>1
<1>11. Good(w, m)
  <2>1. \A i \in 1 .. m : w[i].uid # NoUid
    BY ONLY <1>1, <1>3, <1>10 DEF Good, SameTo
  <2>2. m <= Len(w) /\ ~ (\E i \in m + 1 .. Len(w) : TRUE)
    BY ONLY <1>10, m \in Nat
  <2> QED
    BY ONLY <2>1, <2>2 DEF Good
<1>12. /\ hdr' = m /\ next' \in 1 .. MaxUid + 1 /\ m < next'
       /\ locked' \in {h, NoHandle} /\ t.x.buf = (IF locked' = h THEN 1 ELSE 0)
  BY ONLY <1>2, <1>3, <1>6, <1>10
<1>13. Typed' /\ Seen(ix'[Sole], file', w, hdr')
  BY ONLY <1>3, <1>6, <1>10, <1>11, <1>12, Single, Typed, h \in Handles,
          CallEnds
<1> QED
  BY ONLY <1>3, <1>10, <1>12, <1>13 DEF Stays

(* What ending the buffer of a locked area leaves.                         *)
LEMMA LockEnded ==
  ASSUME Single, Typed, NEW v, NEW h \in Handles, NEW s, Ready(s, h, v),
         locked = h, NEW t, t = EndBuffer(s)
  PROVE  /\ t \in Status /\ t.x.num = hdr /\ t.x.buf = 0
         /\ Held(t.x, t.f, t.f, hdr) /\ Good(t.f, hdr) /\ SameTo(t.f, v, hdr)
<1>1. /\ s \in Status /\ s.x.num = hdr /\ s.x.buf = (IF locked = h THEN 1 ELSE 0)
      /\ Held(s.x, s.f, v, hdr) /\ Good(v, hdr)
  BY ONLY Ready(s, h, v) DEF Ready
<1>2. s.x.buf = 1
  BY ONLY <1>1, locked = h
<1>3. Ended(t, s, v, s.x.num)
  <2>1. s.x.buf # 0 /\ Held(s.x, s.f, v, s.x.num) /\ Good(v, s.x.num)
    BY ONLY <1>1, <1>2
  <2> QED
    BY ONLY <1>1, <2>1, t = EndBuffer(s), BufferEnded
<1>4. /\ t \in Status /\ t.x.num = hdr /\ t.x.buf = s.x.buf - 1
      /\ \E w : Held(t.x, t.f, w, hdr) /\ Good(w, hdr) /\ SameTo(w, v, hdr)
  BY ONLY <1>1, <1>3 DEF Ended
<1>5. t.x.buf = 0
  BY ONLY <1>2, <1>4
<1>6. PICK w : Held(t.x, t.f, w, hdr) /\ Good(w, hdr) /\ SameTo(w, v, hdr)
  BY ONLY <1>4
<1>7. w = t.f
  BY ONLY <1>5, <1>6 DEF Held
<1> QED
  BY ONLY <1>4, <1>5, <1>6, <1>7

(* Unlocking writes the messages back to the file.                         *)
LEMMA UnlockAreaIs ==
  ASSUME Single, Typed, NEW v, NEW h \in Handles, NEW s, Ready(s, h, v), s = At(h),
         UnlockArea(h)
  PROVE  Typed' /\ Stays(v)
<1>1. hdr \in 0 .. MaxUid /\ hdr < next /\ next \in 1 .. MaxUid + 1
  BY ONLY Typed DEF Typed
<1>2. PICK m \in Nat : m = hdr /\ m \in 0 .. MaxUid
  BY ONLY <1>1, IndexAssumption
<1>3. h # NoHandle
  BY ONLY Single, h \in Handles, SoleIs
<1>4. PICK t : t = EndBuffer(s)
  OBVIOUS
<1>5. locked = h /\ locked' = NoHandle /\ Install(h, t) /\ UNCHANGED <<hdr, next>>
  BY ONLY <1>4, s = At(h), UnlockArea(h) DEF UnlockArea
<1>6. /\ t \in Status /\ t.x.num = hdr /\ t.x.buf = 0
      /\ Held(t.x, t.f, t.f, hdr) /\ Good(t.f, hdr) /\ SameTo(t.f, v, hdr)
  BY ONLY <1>4, <1>5, Single, Typed, h \in Handles, Ready(s, h, v), LockEnded
<1>7. PICK w : w = t.f
  OBVIOUS
<1>8. t.x.num = m /\ Held(t.x, t.f, w, m) /\ Good(w, m) /\ SameTo(w, v, m)
  BY ONLY <1>2, <1>6, <1>7
<1>9. /\ hdr' = m /\ next' \in 1 .. MaxUid + 1 /\ m < next'
      /\ locked' \in {h, NoHandle} /\ t.x.buf = (IF locked' = h THEN 1 ELSE 0)
  BY ONLY <1>1, <1>2, <1>3, <1>5, <1>6
<1>10. Typed' /\ Seen(ix'[Sole], file', w, hdr')
  BY ONLY <1>2, <1>5, <1>6, <1>8, <1>9, Single, Typed, h \in Handles, CallEnds
<1> QED
  BY ONLY <1>2, <1>8, <1>9, <1>10 DEF Stays

(* Closing and opening again: the file has the messages.                   *)
LEMMA ReopenIs ==
  ASSUME Single, Typed, NEW v, NEW h \in Handles, NEW s, Ready(s, h, v), s = At(h),
         Reopen(h)
  PROVE  Typed' /\ Stays(v)
<1>1. /\ hdr \in 0 .. MaxUid /\ hdr < next /\ next \in 1 .. MaxUid + 1
      /\ locked \in Handles \cup {NoHandle}
  BY ONLY Typed DEF Typed
<1>2. PICK m \in Nat : m = hdr /\ m \in 0 .. MaxUid
  BY ONLY <1>1, IndexAssumption
<1>3. h # NoHandle /\ Handles = {h}
  BY ONLY Single, h \in Handles, SoleIs
<1>4. PICK f : f = IF locked = h THEN EndBuffer(s).f ELSE file
  OBVIOUS
<1>5. PICK x : x = Opened(m)
  OBVIOUS
<1>6. /\ file' = f /\ locked' = (IF locked = h THEN NoHandle ELSE locked)
      /\ ix' = [ix EXCEPT ![h] = x] /\ UNCHANGED <<hdr, next>>
  BY ONLY <1>2, <1>4, <1>5, s = At(h), Reopen(h) DEF Reopen
<1>7. f \in Seq(Record) /\ Good(f, m) /\ SameTo(f, v, m)
  <2>1. CASE locked = h
    <3>1. PICK t : t = EndBuffer(s)
      OBVIOUS
    <3>2. /\ t \in Status /\ t.x.num = hdr /\ t.x.buf = 0
          /\ Held(t.x, t.f, t.f, hdr) /\ Good(t.f, hdr) /\ SameTo(t.f, v, hdr)
      BY ONLY <2>1, <3>1, Single, Typed, h \in Handles, Ready(s, h, v),
              LockEnded
    <3>3. t.f \in Seq(Record)
      BY ONLY <3>2 DEF Status
    <3> QED
      BY ONLY <1>2, <1>4, <2>1, <3>1, <3>2, <3>3
  <2>2. CASE locked # h
    <3>1. /\ s.x.buf = 0 /\ s.f = file /\ Held(s.x, s.f, v, m) /\ Good(v, m)
      BY ONLY <1>2, <2>2, Ready(s, h, v) DEF Ready
    <3>2. v = file /\ v \in Seq(Record) /\ m <= Len(v)
      BY ONLY <3>1 DEF Held
    <3>3. SameTo(v, v, m)
      BY ONLY <3>2 DEF SameTo
    <3> QED
      BY ONLY <1>4, <2>2, <3>1, <3>2, <3>3
  <2> QED
    BY ONLY <2>1, <2>2
<1>8. x \in Hidx /\ x.num = m /\ x.buf = 0 /\ Held(x, f, f, m)
  <2>1. m <= Len(f)
    BY ONLY <1>7 DEF Good
  <2> QED
    BY ONLY <1>5, <1>7, <2>1, m \in Nat, OpenedIs
<1>9. PICK t : t = [x |-> x, f |-> f, ok |-> TRUE]
  OBVIOUS
<1>10. t.x = x /\ t.f = f
  BY ONLY <1>9
<1>11. t \in Status /\ Install(h, t)
  <2>1. t \in Status
    BY ONLY <1>7, <1>8, <1>9 DEF Status
  <2> QED
    BY ONLY <1>6, <1>10, <2>1 DEF Install
<1>12. /\ hdr' = m /\ next' \in 1 .. MaxUid + 1 /\ m < next'
       /\ locked' \in {h, NoHandle} /\ t.x.buf = (IF locked' = h THEN 1 ELSE 0)
       /\ t.x.num = m /\ Held(t.x, t.f, f, m)
  BY ONLY <1>1, <1>2, <1>3, <1>6, <1>8, <1>10
<1>13. Typed' /\ Seen(ix'[Sole], file', f, hdr')
  BY ONLY <1>2, <1>7, <1>11, <1>12, Single, Typed, h \in Handles, CallEnds
<1> QED
  BY ONLY <1>2, <1>7, <1>12, <1>13 DEF Stays

(* Creating a message drops the surplus and puts the new record behind.    *)
LEMMA CreateMsgIs ==
  ASSUME Single, Typed, NEW v, NEW h \in Handles, NEW s, Ready(s, h, v), s = Fresh(h),
         NEW max \in Nat, NEW skip \in Nat, max = 0 \/ max > skip,
         CreateMsg(h, max, skip)
  PROVE  Typed' /\ Creates(v)
<1>1. /\ s \in Status /\ s.ok = TRUE /\ s.x.num = hdr
      /\ s.x.buf = (IF locked = h THEN 1 ELSE 0)
      /\ Held(s.x, s.f, v, hdr) /\ Good(v, hdr)
  BY ONLY Ready(s, h, v) DEF Ready
<1>2. /\ hdr \in 0 .. MaxUid /\ hdr < next /\ next \in 1 .. MaxUid + 1
      /\ locked \in Handles \cup {NoHandle}
  BY ONLY Typed DEF Typed
<1>3. PICK m \in Nat : m = hdr /\ m \in 0 .. MaxUid
  BY ONLY <1>2, IndexAssumption
<1>4. PICK b \in Nat : b = s.x.buf
  BY ONLY <1>1
<1>5. PICK k : k = Surplus(m, max, skip)
  OBVIOUS
<1>6. PICK t : t = ReduceMaxMsgs(s, max, skip)
  OBVIOUS
<1>7. /\ k \in Nat /\ k <= m /\ (k # 0 => skip + k <= m)
      /\ Cut(t, s, v, m, skip, k)
  <2>1. s \in Status /\ m = s.x.num /\ Held(s.x, s.f, v, m) /\ Good(v, m)
    BY ONLY <1>1, <1>3
  <2> QED
    BY ONLY <1>4, <1>5, <1>6, <2>1, m \in Nat, b \in Nat, max \in Nat,
            skip \in Nat,
            max = 0 \/ max > skip, MessagesReduced
<1>8. PICK d \in Nat : d = m - k /\ d <= m
  BY ONLY <1>7, m \in Nat
<1>9. /\ t \in Status /\ t.ok = TRUE /\ t.x.num = d /\ t.x.buf = s.x.buf
      /\ \E w : Held(t.x, t.f, w, d) /\ Good(w, d) /\ Reduced(w, v, m, skip, k)
  BY ONLY <1>1, <1>7, <1>8 DEF Cut
<1>10. PICK w : Held(t.x, t.f, w, d) /\ Good(w, d) /\ Reduced(w, v, m, skip, k)
  BY ONLY <1>9
<1>11. PICK n \in Nat \ {0} : n = d + 1
  OBVIOUS
<1>12. PICK r : r = [ofs |-> FALSE, uid |-> next]
  OBVIOUS
<1>13. PICK u : u = SidxPut(t, n, r)
  OBVIOUS
<1>14. PICK q : q = [u EXCEPT !.x.num = n]
  OBVIOUS
<1>15. /\ next <= MaxUid /\ next' = next + 1 /\ UNCHANGED locked
       /\ Install(h, IF u.ok THEN q ELSE u)
       /\ hdr' = IF u.ok THEN n ELSE d
  BY ONLY <1>6, <1>9, <1>11, <1>12, <1>13, <1>14, s = Fresh(h), CreateMsg(h,
          max, skip)
     DEF CreateMsg
<1>16. r \in Record /\ r.uid # NoUid
  <2>1. next \in 0 .. MaxUid /\ next # 0
    BY ONLY <1>2, <1>15, IndexAssumption
  <2> QED
    BY ONLY <1>12, <2>1 DEF Record, NoUid
<1>17. w \in Seq(Record) /\ d <= Len(w)
  BY ONLY <1>10 DEF Held
<1>18. PICK y : Placed(y, w, n, r)
  <2>1. PICK a \in Nat : a = Len(w)
    BY ONLY <1>17
  <2>2. n <= a \/ n = a + 1
    BY ONLY <1>11, <1>17, <2>1, d \in Nat, a \in Nat
  <2> QED
    BY ONLY <2>1, <2>2 DEF Placed
<1>19. Steady(u, t) /\ Held(u.x, u.f, y, n)
  <2>1. t \in Status /\ Held(t.x, t.f, w, d)
    BY ONLY <1>9, <1>10
  <2>2. n <= Len(w) \/ n = t.x.num + 1
    BY ONLY <1>9, <1>11
  <2>3. n <= d \/ (n = d + 1 /\ n = n)
    BY ONLY <1>11
  <2>4. n \in Nat
    OBVIOUS
  <2> QED
    BY ONLY <1>13, <1>16, <1>18, <2>1, <2>2, <2>3, <2>4, n \in Nat \ {0},
            EntryPut
<1>20. Good(y, n) /\ \A i \in 1 .. n : y[i] = IF i = n THEN r ELSE w[i]
  <2>1. (n = d /\ n <= d) \/ (n = d + 1 /\ n = n)
    BY ONLY <1>11
  <2>2. n \in Nat
    OBVIOUS
  <2> QED
    BY ONLY <1>10, <1>16, <1>17, <1>18, <2>1, <2>2, d \in Nat,
            n \in Nat \ {0}, PlacedIsGood
<1>21. u \in Status /\ u.ok = TRUE /\ u.x.buf = s.x.buf
  BY ONLY <1>9, <1>19 DEF Steady
<1>22. q \in Status /\ q.x.num = n /\ q.x.buf = u.x.buf /\ Held(q.x, q.f, y, n)
  <2>1. u \in Status /\ Held(u.x, u.f, y, n)
    BY ONLY <1>19, <1>21
  <2>2. n \in Nat /\ n <= n
    OBVIOUS
  <2> QED
    BY ONLY <1>14, <2>1, <2>2, Counted
<1>23. /\ hdr' = n /\ n \in 0 .. MaxUid /\ next' \in 1 .. MaxUid + 1 /\ n < next'
       /\ Install(h, q)
       /\ locked' \in {h, NoHandle} /\ q.x.buf = (IF locked' = h THEN 1 ELSE 0)
  <2>1. Handles = {h}
    BY ONLY Single, h \in Handles, SoleIs
  <2>2. n \in 0 .. MaxUid /\ next + 1 \in 1 .. MaxUid + 1 /\ n < next + 1
    BY ONLY <1>2, <1>3, <1>8, <1>11, <1>15, d \in Nat, m \in Nat,
            n \in Nat \ {0},
            IndexAssumption
  <2> QED
    BY ONLY <1>1, <1>2, <1>15, <1>21, <1>22, <2>1, <2>2
<1>24. Typed' /\ Seen(ix'[Sole], file', y, hdr')
  BY ONLY <1>20, <1>22, <1>23, Single, Typed, h \in Handles, CallEnds
<1>25. Reduced(y, v, m, skip, k) /\ y[n] = r
  <2>1. \A i \in 1 .. d : i \in 1 .. n /\ i # n
    BY ONLY <1>11, d \in Nat, n \in Nat \ {0}
  <2>2. n \in 1 .. n
    OBVIOUS
  <2> QED
    BY ONLY <1>8, <1>10, <1>20, <2>1, <2>2 DEF Reduced
<1>26. k \in 0 .. hdr /\ (k # 0 => skip + k <= hdr) /\ hdr' = hdr - k + 1
  <2>1. k \in 0 .. m /\ n = m - k + 1
    BY ONLY <1>7, <1>8, <1>11, m \in Nat, d \in Nat
  <2> QED
    BY ONLY <1>3, <1>7, <1>23, <2>1
<1> QED
  BY ONLY <1>3, <1>16, <1>23, <1>24, <1>25, <1>26, skip \in Nat DEF Creates

---------------------------------------------------------------------------
(**************************************************************************)
(* The steps of the list.                                                  *)
(**************************************************************************)
(* The messages of a list.                                                 *)
Listed(v, m) == SubSeq(v, 1, m)

(* The messages of a list are its first m records.                         *)
LEMMA ListedIs ==
  ASSUME NEW v \in Seq(Record), NEW m \in Nat, m <= Len(v), NEW a, a = Listed(v, m)
  PROVE  a \in Seq(Record) /\ Len(a) = m /\ \A i \in 1 .. m : a[i] = v[i]
<1>1. PICK z \in Nat : z = 0
  OBVIOUS
<1>2. /\ z <= m /\ a = SubSeq(v, z + 1, m) /\ m - z = m
      /\ \A i \in 1 .. m : z + i = i
  BY ONLY <1>1, m \in Nat, a = Listed(v, m) DEF Listed
<1>3. /\ a \in Seq(Record) /\ Len(a) = m - z
      /\ \A i \in 1 .. m - z : a[i] = v[z + i]
  BY ONLY <1>2, v \in Seq(Record), z \in Nat, m \in Nat, m <= Len(v), PartIs
<1> QED
  BY ONLY <1>2, <1>3

(* List a without the k elements behind the c'th.                          *)
CutOut(a, c, k) == SubSeq(a, 1, c) \o SubSeq(a, c + k + 1, Len(a))

Without(b, a, c, k) ==
  /\ Len(b) = Len(a) - k
  /\ \A i \in 1 .. Len(a) - k : b[i] = IF i <= c THEN a[i] ELSE a[i + k]

(* Cutting out moves the later elements k places down.                     *)
LEMMA CutOutIs ==
  ASSUME NEW a \in Seq(Record), NEW c \in Nat, NEW k \in Nat, c + k <= Len(a),
         NEW b, b = CutOut(a, c, k)
  PROVE  b \in Seq(Record) /\ Without(b, a, c, k)
<1>1. PICK m \in Nat : m = Len(a)
  OBVIOUS
<1>2. PICK p : p = Listed(a, c)
  OBVIOUS
<1>3. PICK e \in Nat : e = c + k
  OBVIOUS
<1>4. PICK q : q = SubSeq(a, e + 1, m)
  OBVIOUS
<1>5. p \in Seq(Record) /\ Len(p) = c /\ \A i \in 1 .. c : p[i] = a[i]
  <2>1. c <= Len(a)
    BY ONLY c + k <= Len(a), a \in Seq(Record), c \in Nat, k \in Nat
  <2> QED
    BY ONLY <1>2, <2>1, a \in Seq(Record), c \in Nat, ListedIs
<1>6. q \in Seq(Record) /\ Len(q) = m - e /\ \A i \in 1 .. m - e : q[i] = a[e + i]
  <2>1. e <= m /\ m <= Len(a)
    BY ONLY <1>1, <1>3, c + k <= Len(a), m \in Nat
  <2> QED
    BY ONLY <1>4, <2>1, a \in Seq(Record), e \in Nat, m \in Nat, PartIs
<1>7. b = p \o q
  BY ONLY <1>1, <1>2, <1>3, <1>4, b = CutOut(a, c, k) DEF CutOut, Listed
<1>8. /\ b \in Seq(Record) /\ Len(b) = c + (m - e)
      /\ \A i \in 1 .. c + (m - e) : b[i] = IF i <= c THEN p[i] ELSE q[i - c]
  <2>1. p \in Seq(Record) /\ q \in Seq(Record)
    BY ONLY <1>5, <1>6
  <2>2. /\ p \o q \in Seq(Record) /\ Len(p \o q) = Len(p) + Len(q)
        /\ \A i \in 1 .. Len(p) + Len(q) :
             (p \o q)[i] = IF i <= Len(p) THEN p[i] ELSE q[i - Len(p)]
    BY ONLY <2>1, ConcatProperties
  <2> QED
    BY ONLY <1>5, <1>6, <1>7, <2>2
<1>9. c + (m - e) = m - k
  BY ONLY <1>3, m \in Nat, c \in Nat, k \in Nat
<1>10. ASSUME NEW i \in 1 .. m - k PROVE b[i] = IF i <= c THEN a[i] ELSE a[i + k]
  <2>1. /\ i \in 1 .. c + (m - e) /\ (i <= c => i \in 1 .. c)
        /\ (~ (i <= c) => i - c \in 1 .. m - e /\ e + (i - c) = i + k)
    BY ONLY <1>3, i \in 1 .. m - k, m \in Nat, c \in Nat, k \in Nat, e \in Nat
  <2> QED
    BY ONLY <1>5, <1>6, <1>8, <2>1
<1> QED
  BY ONLY <1>1, <1>8, <1>9, <1>10 DEF Without

(* The steps of FlatIndex, from list a to list b.                          *)
FlatMove(a, b) ==
  \/ b = a
  \/ \E r \in Record : b = Append(a, r)
  \/ \E n \in 1 .. Len(a), r \in Record : b = [a EXCEPT ![n] = r]
  \/ \E n \in 1 .. Len(a) : b = SubSeq(a, 1, n - 1) \o SubSeq(a, n + 1, Len(a))
  \/ \E c \in 0 .. Len(a), k \in 1 .. Len(a), r \in Record :
       c + k <= Len(a) /\ b = SubSeq(a, 1, c) \o SubSeq(a, c + k + 1, Len(a)) \o <<r>>

(* What each kind of call does is a step of the list.                      *)
LEMMA StaysIsFlat ==
  ASSUME NEW v \in Seq(Record), NEW w \in Seq(Record), NEW m \in Nat, SameTo(w, v, m)
  PROVE  FlatMove(Listed(v, m), Listed(w, m))
<1>1. PICK a : a = Listed(v, m)
  OBVIOUS
<1>2. PICK b : b = Listed(w, m)
  OBVIOUS
<1>3. m <= Len(v) /\ m <= Len(w) /\ \A i \in 1 .. m : w[i] = v[i]
  BY ONLY SameTo(w, v, m) DEF SameTo
<1>4. a \in Seq(Record) /\ Len(a) = m /\ \A i \in 1 .. m : a[i] = v[i]
  BY ONLY <1>1, <1>3, v \in Seq(Record), m \in Nat, ListedIs
<1>5. b \in Seq(Record) /\ Len(b) = m /\ \A i \in 1 .. m : b[i] = w[i]
  BY ONLY <1>2, <1>3, w \in Seq(Record), m \in Nat, ListedIs
<1>6. b = a
  BY ONLY <1>3, <1>4, <1>5, SeqEqual
<1> QED
  BY ONLY <1>1, <1>2, <1>6 DEF FlatMove

(* Replacing a record is storing it in the list.                           *)
LEMMA StoresIsFlat ==
  ASSUME NEW v \in Seq(Record), NEW w \in Seq(Record), NEW m \in Nat,
         m <= Len(v), m <= Len(w), NEW n \in 1 .. m, NEW r \in Record,
         Replaced(w, v, m, n, r)
  PROVE  FlatMove(Listed(v, m), Listed(w, m))
<1>1. PICK a : a = Listed(v, m)
  OBVIOUS
<1>2. PICK b : b = Listed(w, m)
  OBVIOUS
<1>3. a \in Seq(Record) /\ Len(a) = m /\ \A i \in 1 .. m : a[i] = v[i]
  BY ONLY <1>1, v \in Seq(Record), m \in Nat, m <= Len(v), ListedIs
<1>4. b \in Seq(Record) /\ Len(b) = m /\ \A i \in 1 .. m : b[i] = w[i]
  BY ONLY <1>2, w \in Seq(Record), m \in Nat, m <= Len(w), ListedIs
<1>5. PICK c : c = [a EXCEPT ![n] = r]
  OBVIOUS
<1>6. c \in Seq(Record) /\ Len(c) = m /\ \A i \in 1 .. m : c[i] = IF i = n THEN r ELSE a[i]
  BY ONLY <1>3, <1>5, n \in 1 .. m, r \in Record, m \in Nat
<1>7. b = c
  <2>1. \A i \in 1 .. m : b[i] = c[i]
    BY ONLY <1>3, <1>4, <1>6, Replaced(w, v, m, n, r) DEF Replaced
  <2> QED
    BY ONLY <1>4, <1>6, <2>1, SeqEqual
<1>8. n \in 1 .. Len(a)
  BY ONLY <1>3, n \in 1 .. m
<1> QED
  BY ONLY <1>1, <1>2, <1>5, <1>7, <1>8, r \in Record DEF FlatMove

(* Killing and abandoning remove one element.                              *)
LEMMA RemovesIsFlat ==
  ASSUME NEW v \in Seq(Record), NEW w \in Seq(Record), NEW m \in Nat,
         m <= Len(v), NEW d \in Nat, d <= Len(w), NEW n \in 1 .. m, d = m - 1,
         Reduced(w, v, m, n - 1, 1)
  PROVE  FlatMove(Listed(v, m), Listed(w, d))
<1>1. PICK a : a = Listed(v, m)
  OBVIOUS
<1>2. PICK b : b = Listed(w, d)
  OBVIOUS
<1>3. a \in Seq(Record) /\ Len(a) = m /\ \A i \in 1 .. m : a[i] = v[i]
  BY ONLY <1>1, v \in Seq(Record), m \in Nat, m <= Len(v), ListedIs
<1>4. b \in Seq(Record) /\ Len(b) = d /\ \A i \in 1 .. d : b[i] = w[i]
  BY ONLY <1>2, w \in Seq(Record), d \in Nat, d <= Len(w), ListedIs
<1>5. PICK e \in Nat : e = n - 1
  BY ONLY n \in 1 .. m, m \in Nat
<1>6. PICK k \in Nat : k = 1
  OBVIOUS
<1>7. PICK c : c = CutOut(a, e, k)
  OBVIOUS
<1>8. /\ c \in Seq(Record) /\ Len(c) = m - k
      /\ \A i \in 1 .. m - k : c[i] = IF i <= e THEN a[i] ELSE a[i + k]
  <2>1. e + k <= m
    BY ONLY <1>5, <1>6, n \in 1 .. m, m \in Nat
  <2>2. e + k <= Len(a) /\ a \in Seq(Record)
    BY ONLY <1>3, <2>1
  <2>3. c \in Seq(Record) /\ Without(c, a, e, k)
    BY ONLY <1>7, <2>2, e \in Nat, k \in Nat, CutOutIs
  <2> QED
    BY ONLY <1>3, <2>3 DEF Without
<1>9. \A i \in 1 .. d : b[i] = IF i <= e THEN v[i] ELSE v[i + k]
  BY ONLY <1>4, <1>5, <1>6, d = m - 1, Reduced(w, v, m, n - 1, 1) DEF Reduced
<1>10. \A i \in 1 .. d : i \in 1 .. m /\ i + k \in 1 .. m
  BY ONLY <1>6, d = m - 1, m \in Nat, d \in Nat
<1>11. \A i \in 1 .. d : b[i] = c[i]
  BY ONLY <1>3, <1>6, <1>8, <1>9, <1>10, d = m - 1
<1>12. b = c
  <2>1. Len(c) = d
    BY ONLY <1>6, <1>8, d = m - 1
  <2> QED
    BY ONLY <1>4, <1>8, <1>11, <2>1, SeqEqual
<1>13. c = SubSeq(a, 1, n - 1) \o SubSeq(a, n + 1, Len(a))
  <2>1. e + k + 1 = n + 1
    BY ONLY <1>5, <1>6, n \in 1 .. m, m \in Nat
  <2> QED
    BY ONLY <1>5, <1>7, <2>1 DEF CutOut
<1>14. n \in 1 .. Len(a)
  BY ONLY <1>3, n \in 1 .. m
<1> QED
  BY ONLY <1>1, <1>2, <1>12, <1>13, <1>14 DEF FlatMove

(* Creating appends, or drops the surplus and appends.                     *)
LEMMA CreatesIsFlat ==
  ASSUME NEW v \in Seq(Record), NEW w \in Seq(Record), NEW m \in Nat,
         m <= Len(v), NEW d \in Nat, d <= Len(w), NEW k \in 0 .. m, NEW c \in Nat,
         k # 0 => c + k <= m, NEW r \in Record, d = m - k + 1,
         Reduced(w, v, m, c, k), w[d] = r
  PROVE  FlatMove(Listed(v, m), Listed(w, d))
<1>1. PICK a : a = Listed(v, m)
  OBVIOUS
<1>2. PICK b : b = Listed(w, d)
  OBVIOUS
<1>3. a \in Seq(Record) /\ Len(a) = m /\ \A i \in 1 .. m : a[i] = v[i]
  BY ONLY <1>1, v \in Seq(Record), m \in Nat, m <= Len(v), ListedIs
<1>4. b \in Seq(Record) /\ Len(b) = d /\ \A i \in 1 .. d : b[i] = w[i]
  BY ONLY <1>2, w \in Seq(Record), d \in Nat, d <= Len(w), ListedIs
<1>5. PICK e \in Nat : e = m - k /\ d = e + 1
  BY ONLY d = m - k + 1, k \in 0 .. m, m \in Nat, d \in Nat
<1>6. PICK z \in Nat : z = k
  BY ONLY k \in 0 .. m, m \in Nat
<1>7. PICK q : q \in Seq(Record) /\ Len(q) = e
               /\ (\A i \in 1 .. e : q[i] = IF i <= c THEN a[i] ELSE a[i + k])
               /\ (k = 0 => q = a) /\ (k # 0 => q = CutOut(a, c, k))
  <2>1. CASE k = 0
    <3>1. e = m /\ \A i \in 1 .. e : i + k = i
      BY ONLY <1>5, <2>1, m \in Nat
    <3> QED
      BY ONLY <1>3, <2>1, <3>1
  <2>2. CASE k # 0
    <3>1. c + z <= Len(a)
      BY ONLY <1>3, <1>6, <2>2, k # 0 => c + k <= m
    <3>2. PICK y : y = CutOut(a, c, z)
      OBVIOUS
    <3>3. /\ y \in Seq(Record) /\ Len(y) = m - z
          /\ \A i \in 1 .. m - z : y[i] = IF i <= c THEN a[i] ELSE a[i + z]
      <4>1. a \in Seq(Record)
        BY ONLY <1>3
      <4>2. y \in Seq(Record) /\ Without(y, a, c, z)
        BY ONLY <3>1, <3>2, <4>1, c \in Nat, z \in Nat, CutOutIs
      <4> QED
        BY ONLY <1>3, <4>2 DEF Without
    <3> QED
      BY ONLY <1>5, <1>6, <2>2, <3>2, <3>3
  <2> QED
    BY ONLY <2>1, <2>2
<1>8. PICK p : p = Append(q, r)
  OBVIOUS
<1>9. /\ p \in Seq(Record) /\ Len(p) = e + 1 /\ p[e + 1] = r
      /\ \A i \in 1 .. e : p[i] = q[i]
  BY ONLY <1>7, <1>8, r \in Record, AppendProperties
<1>10. ASSUME NEW i \in 1 .. d PROVE b[i] = p[i]
  <2>1. CASE i = d
    BY ONLY <1>4, <1>5, <1>9, <2>1, w[d] = r, i \in 1 .. d
  <2>2. CASE i # d
    <3>1. i \in 1 .. e /\ i \in 1 .. m - k /\ i \in 1 .. m /\ (i + k \in 1 .. m)
      BY ONLY <1>5, <2>2, i \in 1 .. d, d \in Nat, k \in 0 .. m, m \in Nat,
              e \in Nat
    <3>2. w[i] = IF i <= c THEN v[i] ELSE v[i + k]
      BY ONLY <3>1, Reduced(w, v, m, c, k) DEF Reduced
    <3>3. p[i] = IF i <= c THEN a[i] ELSE a[i + k]
      BY ONLY <1>7, <1>9, <3>1
    <3> QED
      BY ONLY <1>3, <1>4, <3>1, <3>2, <3>3, i \in 1 .. d
  <2> QED
    BY ONLY <2>1, <2>2
<1>11. b = p
  BY ONLY <1>4, <1>5, <1>9, <1>10, SeqEqual
<1>12. CASE k = 0
  BY ONLY <1>1, <1>2, <1>7, <1>8, <1>11, <1>12, r \in Record DEF FlatMove
<1>13. CASE k # 0
  <2>1. p = q \o <<r>>
    BY ONLY <1>7, <1>8, r \in Record, AppendIsConcat
  <2>2. /\ c \in 0 .. Len(a) /\ k \in 1 .. Len(a) /\ c + k <= Len(a)
    BY ONLY <1>3, <1>13, k # 0 => c + k <= m, c \in Nat, k \in 0 .. m,
            m \in Nat
  <2>3. b = SubSeq(a, 1, c) \o SubSeq(a, c + k + 1, Len(a)) \o <<r>>
    BY ONLY <1>7, <1>11, <1>13, <2>1 DEF CutOut
  <2> QED
    BY ONLY <1>1, <1>2, <2>2, <2>3, r \in Record DEF FlatMove
<1> QED
  BY ONLY <1>12, <1>13

---------------------------------------------------------------------------
(**************************************************************************)
(* The theorems.                                                           *)
(**************************************************************************)
(* A step keeps the process and its index in order and is one of the list. *)
Moves(v) == Stays(v) \/ Stores(v) \/ Removes(v) \/ Creates(v)

(* Every call does.                                                        *)
LEMMA NextMoves ==
  ASSUME Single, LimitsLeaveOne, Typed, NEW v, Seen(ix[Sole], file, v, hdr), Next
  PROVE  Typed' /\ Moves(v)
<1>1. PICK h \in Handles :
        \/ \E l \in Limits : CreateMsg(h, l[1], l[2])
        \/ LockArea(h) \/ UnlockArea(h)
        \/ AbandonMsg(h) \/ Reopen(h)
        \/ \E n \in 1 .. MaxUid : BlankOld(h, n) \/ UpdateIndex(h, n) \/ KillMsg(h, n)
  BY ONLY Next DEF Next
<1>2. PICK s : s = At(h)
  OBVIOUS
<1>3. Ready(s, h, v) /\ s = Fresh(h)
  BY ONLY <1>2, Single, Typed, Seen(ix[Sole], file, v, hdr), h \in Handles,
          CallBegins
<1>4. CASE \E l \in Limits : CreateMsg(h, l[1], l[2])
  <2>1. PICK l \in Limits : CreateMsg(h, l[1], l[2])
    BY ONLY <1>4
  <2>2. PICK max \in Nat, skip \in Nat : max = l[1] /\ skip = l[2]
    <3>1. l \in Nat \X Nat
      BY ONLY l \in Limits, IndexAssumption
    <3> QED
      BY ONLY <3>1
  <2>3. CreateMsg(h, max, skip) /\ (max = 0 \/ max > skip)
    BY ONLY <2>1, <2>2, l \in Limits, LimitsLeaveOne DEF LimitsLeaveOne
  <2>4. Typed' /\ Creates(v)
    BY ONLY <1>3, <2>3, Single, Typed, h \in Handles, max \in Nat,
            skip \in Nat, CreateMsgIs
  <2> QED
    BY ONLY <2>4 DEF Moves
<1>5. CASE LockArea(h)
  <2>1. Typed' /\ Stays(v)
    BY ONLY <1>2, <1>3, <1>5, Single, Typed, h \in Handles, LockAreaIs
  <2> QED
    BY ONLY <2>1 DEF Moves
<1>6. CASE UnlockArea(h)
  <2>1. Typed' /\ Stays(v)
    BY ONLY <1>2, <1>3, <1>6, Single, Typed, h \in Handles, UnlockAreaIs
  <2> QED
    BY ONLY <2>1 DEF Moves
<1>7. CASE AbandonMsg(h)
  <2>1. Typed' /\ Removes(v)
    BY ONLY <1>3, <1>7, Single, Typed, h \in Handles, AbandonMsgIs
  <2> QED
    BY ONLY <2>1 DEF Moves
<1>8. CASE Reopen(h)
  <2>1. Typed' /\ Stays(v)
    BY ONLY <1>2, <1>3, <1>8, Single, Typed, h \in Handles, ReopenIs
  <2> QED
    BY ONLY <2>1 DEF Moves
<1>9. Virtual(s.x, s.f) = v /\ s.x = ix[h] /\ s.f = file /\ s.x.num = hdr
  <2>1. Held(s.x, s.f, v, hdr) /\ s.x = ix[h] /\ s.f = file /\ s.x.num = hdr
    BY ONLY <1>3 DEF Ready
  <2> QED
    BY ONLY <2>1, VirtualIs
<1>10. ASSUME NEW n \in 1 .. MaxUid, BlankOld(h, n) PROVE Typed' /\ Moves(v)
  <2>1. PICK b \in BOOLEAN : b = FALSE
    OBVIOUS
  <2>2. PICK r : r = [v[n] EXCEPT !.ofs = b]
    OBVIOUS
  <2>3. PICK t : t = SidxPut(s, n, r)
    OBVIOUS
  <2>4. n <= hdr /\ Install(h, t) /\ UNCHANGED <<hdr, next, locked>>
    BY ONLY <1>3, <1>9, <1>10, <2>1, <2>2, <2>3 DEF BlankOld
  <2>5. Typed' /\ Stores(v)
    BY ONLY <1>3, <2>2, <2>3, <2>4, Single, Typed, h \in Handles,
            b \in BOOLEAN,
            n \in 1 .. MaxUid, RecordStored
  <2> QED
    BY ONLY <2>5 DEF Moves
<1>11. ASSUME NEW n \in 1 .. MaxUid, UpdateIndex(h, n) PROVE Typed' /\ Moves(v)
  <2>1. PICK b \in BOOLEAN : b = TRUE
    OBVIOUS
  <2>2. PICK r : r = [v[n] EXCEPT !.ofs = b]
    OBVIOUS
  <2>3. PICK t : t = SidxPut(s, n, r)
    OBVIOUS
  <2>4. n <= hdr /\ Install(h, t) /\ UNCHANGED <<hdr, next, locked>>
    BY ONLY <1>2, <1>9, <1>11, <2>1, <2>2, <2>3 DEF UpdateIndex
  <2>5. Typed' /\ Stores(v)
    BY ONLY <1>3, <2>2, <2>3, <2>4, Single, Typed, h \in Handles,
            b \in BOOLEAN,
            n \in 1 .. MaxUid, RecordStored
  <2> QED
    BY ONLY <2>5 DEF Moves
<1>12. ASSUME NEW n \in 1 .. MaxUid, KillMsg(h, n) PROVE Typed' /\ Moves(v)
  <2>1. Typed' /\ Removes(v)
    BY ONLY <1>3, <1>12, Single, Typed, h \in Handles, n \in 1 .. MaxUid,
            KillMsgIs
  <2> QED
    BY ONLY <2>1 DEF Moves
<1> QED
  BY ONLY <1>1, <1>4, <1>5, <1>6, <1>7, <1>8, <1>10, <1>11, <1>12

(* So does a step of something else.                                       *)
LEMMA StutterMoves ==
  ASSUME Typed, NEW v, Seen(ix[Sole], file, v, hdr), UNCHANGED vars
  PROVE  Typed' /\ Moves(v)
<1>1. /\ file' = file /\ hdr' = hdr /\ next' = next /\ locked' = locked /\ ix' = ix
  BY ONLY UNCHANGED vars DEF vars
<1>2. Typed'
  BY ONLY <1>1, Typed DEF Typed
<1>3. SameTo(v, v, hdr)
  BY ONLY Seen(ix[Sole], file, v, hdr) DEF Seen, Held, SameTo
<1>4. Seen(ix'[Sole], file', v, hdr')
  BY ONLY <1>1, Seen(ix[Sole], file, v, hdr)
<1>5. Stays(v)
  BY ONLY <1>1, <1>3, <1>4 DEF Stays
<1> QED
  BY ONLY <1>2, <1>5 DEF Moves

(* What a step leaves is seen, and the messages made a step of the list.   *)
LEMMA MovesFlat ==
  ASSUME Typed, Typed', NEW v, Seen(ix[Sole], file, v, hdr), Moves(v)
  PROVE  \E w : Seen(ix'[Sole], file', w, hdr') /\ FlatMove(Listed(v, hdr), Listed(w, hdr'))
<1>1. hdr \in 0 .. MaxUid /\ hdr' \in 0 .. MaxUid
  BY ONLY Typed, Typed' DEF Typed
<1>2. PICK m \in Nat : m = hdr
  BY ONLY <1>1, IndexAssumption
<1>3. PICK d \in Nat : d = hdr'
  BY ONLY <1>1, IndexAssumption
<1>4. v \in Seq(Record) /\ m <= Len(v)
  BY ONLY <1>2, Seen(ix[Sole], file, v, hdr) DEF Seen, Held
<1>5. ASSUME NEW w, Seen(ix'[Sole], file', w, hdr')
      PROVE  w \in Seq(Record) /\ d <= Len(w)
  BY ONLY <1>3, <1>5 DEF Seen, Held
<1>6. CASE Stays(v)
  <2>1. PICK w : d = m /\ Seen(ix'[Sole], file', w, hdr') /\ SameTo(w, v, m)
    BY ONLY <1>2, <1>3, <1>6 DEF Stays
  <2>2. w \in Seq(Record)
    BY ONLY <1>5, <2>1
  <2>3. FlatMove(Listed(v, m), Listed(w, m))
    BY ONLY <1>4, <2>1, <2>2, m \in Nat, StaysIsFlat
  <2> QED
    BY ONLY <1>2, <1>3, <2>1, <2>3
<1>7. CASE Stores(v)
  <2>1. PICK n \in 1 .. m, r \in Record :
          d = m /\ \E w : Seen(ix'[Sole], file', w, hdr') /\ Replaced(w, v, m, n, r)
    BY ONLY <1>2, <1>3, <1>7 DEF Stores
  <2>2. PICK w : Seen(ix'[Sole], file', w, hdr') /\ Replaced(w, v, m, n, r)
    BY ONLY <2>1
  <2>3. w \in Seq(Record) /\ m <= Len(w)
    BY ONLY <1>5, <2>1, <2>2
  <2>4. FlatMove(Listed(v, m), Listed(w, m))
    BY ONLY <1>4, <2>2, <2>3, m \in Nat, n \in 1 .. m, r \in Record,
            StoresIsFlat
  <2> QED
    BY ONLY <1>2, <1>3, <2>1, <2>2, <2>4
<1>8. CASE Removes(v)
  <2>1. PICK n \in 1 .. m :
          d = m - 1 /\ \E w : Seen(ix'[Sole], file', w, hdr') /\ Reduced(w, v, m, n - 1, 1)
    BY ONLY <1>2, <1>3, <1>8 DEF Removes
  <2>2. PICK w : Seen(ix'[Sole], file', w, hdr') /\ Reduced(w, v, m, n - 1, 1)
    BY ONLY <2>1
  <2>3. w \in Seq(Record) /\ d <= Len(w)
    BY ONLY <1>5, <2>2
  <2>4. FlatMove(Listed(v, m), Listed(w, d))
    BY ONLY <1>4, <2>1, <2>2, <2>3, m \in Nat, d \in Nat, n \in 1 .. m,
            RemovesIsFlat
  <2> QED
    BY ONLY <1>2, <1>3, <2>2, <2>4
<1>9. CASE Creates(v)
  <2>1. PICK k \in 0 .. m, c \in Nat, r \in Record :
          /\ k # 0 => c + k <= m
          /\ d = m - k + 1
          /\ \E w : Seen(ix'[Sole], file', w, hdr') /\ Reduced(w, v, m, c, k) /\ w[d] = r
    BY ONLY <1>2, <1>3, <1>9 DEF Creates
  <2>2. PICK w : Seen(ix'[Sole], file', w, hdr') /\ Reduced(w, v, m, c, k) /\ w[d] = r
    BY ONLY <2>1
  <2>3. w \in Seq(Record) /\ d <= Len(w)
    BY ONLY <1>5, <2>2
  <2>4. (k # 0 => c + k <= m) /\ d = m - k + 1
    BY ONLY <2>1
  <2>5. FlatMove(Listed(v, m), Listed(w, d))
    BY ONLY <1>4, <2>2, <2>3, <2>4, m \in Nat, d \in Nat, k \in 0 .. m,
            c \in Nat,
            r \in Record, CreatesIsFlat
  <2> QED
    BY ONLY <1>2, <1>3, <2>2, <2>5
<1> QED
  BY ONLY <1>6, <1>7, <1>8, <1>9, Moves(v) DEF Moves

(* Together: the invariant and the step of the list.                       *)
LEMMA StepMoves ==
  ASSUME Single, LimitsLeaveOne, IInv, [Next]_vars
  PROVE  /\ IInv'
         /\ \E v, w : /\ Seen(ix[Sole], file, v, hdr) /\ Seen(ix'[Sole], file', w, hdr')
                      /\ FlatMove(Listed(v, hdr), Listed(w, hdr'))
<1>1. PICK v : Seen(ix[Sole], file, v, hdr)
  BY ONLY IInv DEF IInv
<1>2. Typed
  BY ONLY IInv DEF IInv
<1>3. Typed' /\ Moves(v)
  BY ONLY <1>1, <1>2, Single, LimitsLeaveOne, [Next]_vars, NextMoves,
          StutterMoves
<1>4. PICK w : Seen(ix'[Sole], file', w, hdr') /\ FlatMove(Listed(v, hdr), Listed(w, hdr'))
  BY ONLY <1>1, <1>2, <1>3, MovesFlat
<1>5. IInv'
  BY ONLY <1>3, <1>4 DEF IInv
<1> QED
  BY ONLY <1>1, <1>4, <1>5

(* An area that was just made is in order, and empty.                      *)
LEMMA InitSeen == ASSUME Single, Init PROVE IInv
<1>1. Sole \in Handles /\ Sole # NoHandle
  BY ONLY Single, SoleIs DEF Single
<1>2. PICK x : x = Opened(0)
  OBVIOUS
<1>3. PICK f \in Seq(Record) : f = <<>>
  <2>1. <<>> \in Seq(Record)
    OBVIOUS
  <2> QED
    BY ONLY <2>1
<1>4. PICK n \in Nat : n = 0
  OBVIOUS
<1>5. x \in Hidx /\ x.num = n /\ x.buf = 0 /\ Held(x, f, f, n)
  <2>1. n <= Len(f) /\ x = Opened(n)
    BY ONLY <1>2, <1>3, <1>4
  <2> QED
    BY ONLY <2>1, f \in Seq(Record), n \in Nat, OpenedIs
<1>6. /\ file = f /\ hdr = n /\ next = 1 /\ locked = NoHandle
      /\ ix \in [Handles -> Hidx] /\ ix[Sole] = x
  BY ONLY <1>1, <1>2, <1>3, <1>4, <1>5, Init DEF Init
<1>7. Good(f, n)
  BY ONLY <1>3, <1>4 DEF Good
<1>8. Seen(ix[Sole], file, f, hdr)
  BY ONLY <1>5, <1>6, <1>7 DEF Seen
<1>9. hdr \in 0 .. MaxUid /\ next \in 1 .. MaxUid + 1 /\ hdr < next
  BY ONLY <1>4, <1>6, IndexAssumption
<1>10. Typed
  BY ONLY <1>1, <1>5, <1>6, <1>9, f \in Seq(Record) DEF Typed
<1> QED
  BY ONLY <1>8, <1>10 DEF IInv

(* The index of an area is a list that holds the messages.                 *)
THEOREM Inductive == ASSUME Single, LimitsLeaveOne PROVE Spec => []IInv
<1>1. Init => IInv
  BY InitSeen
<1>2. IInv /\ [Next]_vars => IInv'
  BY StepMoves
<1> QED
  BY <1>1, <1>2, PTL DEF Spec

(* What the theorems need of it.                                           *)
LEMMA SeenIs ==
  ASSUME NEW x, NEW f, NEW v, NEW n, Seen(x, f, v, n)
  PROVE  /\ Virtual(x, f) = v /\ x \in Hidx /\ f \in Seq(Record) /\ v \in Seq(Record)
         /\ n \in Nat /\ n <= Len(v)
         /\ \A i \in 1 .. n : v[i].uid # NoUid
         /\ \A i \in n + 1 .. Len(v) : ~v[i].ofs
         /\ x.buf = 0 => v = f
         /\ \A i \in 1 .. Len(x.seg) : Fits(x.seg[i])
<1>1. Held(x, f, v, n) /\ Good(v, n)
  BY ONLY Seen(x, f, v, n) DEF Seen
<1>2. Virtual(x, f) = v /\ v \in Seq(Record) /\ n \in Nat /\ n <= Len(v)
  BY ONLY <1>1, VirtualIs
<1>3. x \in Hidx /\ f \in Seq(Record) /\ (x.buf = 0 => v = f)
  BY ONLY <1>1 DEF Held
<1>4. \A i \in 1 .. Len(x.seg) : Fits(x.seg[i])
  <2>1. CASE x.buf = 0
    <3>1. x.seg = <<>>
      BY ONLY <1>1, <2>1 DEF Held
    <3>2. Len(x.seg) = 0 /\ ~ (\E i \in 1 .. 0 : TRUE)
      BY ONLY <3>1
    <3> QED
      BY ONLY <3>2
  <2>2. CASE x.buf # 0
    BY ONLY <1>1, <2>2 DEF Held, Holds
  <2> QED
    BY ONLY <2>1, <2>2
<1>5. (\A i \in 1 .. n : v[i].uid # NoUid) /\ (\A i \in n + 1 .. Len(v) : ~v[i].ofs)
  BY ONLY <1>1 DEF Good
<1> QED
  BY ONLY <1>2, <1>3, <1>4, <1>5

(* Every variable keeps its type, and no segment holds more records than   *)
(* were allocated for it (sq_idx.c 316).                                   *)
THEOREM IndexIsTyped == ASSUME Single, LimitsLeaveOne PROVE Spec => []TypeOK
<1>1. IInv => TypeOK
  <2> SUFFICES ASSUME IInv PROVE TypeOK
    OBVIOUS
  <2>1. PICK v : Seen(ix[Sole], file, v, hdr)
    BY ONLY IInv DEF IInv
  <2>2. /\ hdr \in 0 .. MaxUid /\ next \in 1 .. MaxUid + 1
        /\ locked \in Handles \cup {NoHandle} /\ file \in Seq(Record)
        /\ ix[Sole].num = hdr /\ ix[Sole].buf = IF locked = Sole THEN 1 ELSE 0
    BY ONLY IInv DEF IInv, Typed
  <2>3. ASSUME NEW h \in Handles
        PROVE  /\ ix[h].num \in 0 .. MaxUid
               /\ ix[h].buf = (IF locked = h THEN 1 ELSE 0)
               /\ \A i \in DOMAIN ix[h].seg :
                    /\ ix[h].seg[i].recs \in Seq(Record)
                    /\ Len(ix[h].seg[i].recs) <= ix[h].seg[i].max
                    /\ ix[h].seg[i].max < SegmentSize + MoreSpace
    <3>1. h = Sole
      BY ONLY Single, h \in Handles, SoleIs
    <3>2. PICK seg : seg = ix[h].seg
      OBVIOUS
    <3>3. ix[h] \in Hidx /\ \A i \in 1 .. Len(seg) : Fits(seg[i])
      <4>1. ix[Sole] \in Hidx /\ \A i \in 1 .. Len(ix[Sole].seg) : Fits(ix[Sole].seg[i])
        BY ONLY <2>1, SeenIs
      <4> QED
        BY ONLY <3>1, <3>2, <4>1
    <3>4. seg \in Seq(Segment)
      BY ONLY <3>2, <3>3 DEF Hidx
    <3>5. ASSUME NEW i \in DOMAIN seg
          PROVE  /\ seg[i].recs \in Seq(Record) /\ Len(seg[i].recs) <= seg[i].max
                 /\ seg[i].max < SegmentSize + MoreSpace
      <4>1. i \in 1 .. Len(seg)
        BY ONLY <3>4, i \in DOMAIN seg
      <4>2. seg[i] \in Segment
        BY ONLY <3>4, <4>1
      <4> QED
        BY ONLY <3>3, <4>1, <4>2 DEF Segment, Fits
    <3> QED
      BY ONLY <2>2, <3>1, <3>2, <3>5
  <2> QED
    BY ONLY <2>2, <2>3 DEF TypeOK
<1> QED
  BY <1>1, Inductive, PTL

(* Behind the last message no record names a frame (sq_uid.c 127).         *)
THEOREM NeverGhosts == ASSUME Single, LimitsLeaveOne PROVE Spec => []NoGhosts
<1>1. IInv => NoGhosts
  <2> SUFFICES ASSUME IInv, NEW h \in Handles
               PROVE  /\ ix[h].num <= Len(Virtual(ix[h], file))
                      /\ \A i \in ix[h].num + 1 .. Len(Virtual(ix[h], file)) :
                           ~Virtual(ix[h], file)[i].ofs
    BY Zenon DEF NoGhosts
  <2>1. PICK v : Seen(ix[Sole], file, v, hdr)
    BY ONLY IInv DEF IInv
  <2>2. h = Sole
    BY ONLY Single, h \in Handles, SoleIs
  <2>3. ix[h].num = hdr
    BY ONLY <2>2, IInv DEF IInv, Typed
  <2>4. Virtual(ix[h], file) = v /\ hdr <= Len(v) /\ \A i \in hdr + 1 .. Len(v) : ~v[i].ofs
    BY ONLY <2>1, <2>2, SeenIs
  <2> QED
    BY ONLY <2>3, <2>4
<1> QED
  BY <1>1, Inductive, PTL

(* The index that is not being buffered has a record with an id for every  *)
(* message that the header counts (sq_idx.c 575).                          *)
THEOREM IndexHasAll == ASSUME Single, LimitsLeaveOne PROVE Spec => []IndexComplete
<1>1. IInv => IndexComplete
  <2> SUFFICES ASSUME IInv, locked = NoHandle
               PROVE  Len(file) >= hdr /\ \A i \in 1 .. hdr : file[i].uid # NoUid
    BY DEF IndexComplete
  <2>1. PICK v : Seen(ix[Sole], file, v, hdr)
    BY ONLY IInv DEF IInv
  <2>2. Sole # NoHandle
    BY ONLY Single, SoleIs DEF Single
  <2>3. ix[Sole].buf = 0
    BY ONLY <2>2, IInv, locked = NoHandle DEF IInv, Typed
  <2>4. /\ (ix[Sole].buf = 0 => v = file) /\ hdr \in Nat /\ v \in Seq(Record)
        /\ hdr <= Len(v) /\ \A i \in 1 .. hdr : v[i].uid # NoUid
    BY ONLY <2>1, SeenIs
  <2>5. Len(v) \in Nat
    BY ONLY <2>4
  <2> QED
    BY ONLY <2>3, <2>4, <2>5
<1> QED
  BY <1>1, Inductive, PTL

(* A process that has the area for itself finds in the index exactly the   *)
(* messages, through every filling and flushing of the buffer.             *)
THEOREM ImplementsFlatIndex == ASSUME Single, LimitsLeaveOne PROVE Spec => IndexIsFlat
<1>1. ASSUME NEW v, Typed, Seen(ix[Sole], file, v, hdr) PROVE Records = Listed(v, hdr)
  <2>1. Virtual(ix[Sole], file) = v
    BY ONLY <1>1, SeenIs
  <2>2. ix[Sole].num = hdr
    BY ONLY <1>1 DEF Typed
  <2> QED
    BY ONLY <2>1, <2>2 DEF Records, Listed
<1>2. Init => Flat!Init
  <2> SUFFICES ASSUME Init PROVE Records = <<>>
    BY DEF Flat!Init
  <2>1. IInv /\ hdr = 0
    BY Init, InitSeen DEF Init
  <2>2. PICK v : Typed /\ Seen(ix[Sole], file, v, hdr)
    BY ONLY <2>1 DEF IInv
  <2>3. Records = Listed(v, 0)
    BY ONLY <1>1, <2>1, <2>2
  <2>4. SubSeq(v, 1, 0) = <<>>
    BY SubSeqEmpty
  <2> QED
    BY ONLY <2>3, <2>4 DEF Listed
<1>3. IInv /\ [Next]_vars => [Flat!Next]_Records
  <2> SUFFICES ASSUME IInv, [Next]_vars PROVE [Flat!Next]_Records
    OBVIOUS
  <2>1. PICK v, w : /\ Seen(ix[Sole], file, v, hdr) /\ Seen(ix'[Sole], file', w, hdr')
                    /\ FlatMove(Listed(v, hdr), Listed(w, hdr'))
    BY Single, LimitsLeaveOne, StepMoves
  <2>2. Typed /\ IInv'
    BY Single, LimitsLeaveOne, StepMoves DEF IInv
  <2>3. Records = Listed(v, hdr)
    BY ONLY <1>1, <2>1, <2>2
  <2>4. Records' = Listed(w, hdr')
    <3>1. Virtual(ix'[Sole], file') = w
      BY ONLY <2>1, SeenIs
    <3>2. ix'[Sole].num = hdr'
      BY ONLY <2>2 DEF IInv, Typed
    <3> QED
      BY ONLY <3>1, <3>2 DEF Records, Listed
  <2>5. FlatMove(Records, Records')
    BY ONLY <2>1, <2>3, <2>4
  <2> HIDE DEF Records
  <2> QED
    BY ONLY <2>5 DEF FlatMove, Flat!Next, Flat!Append1, Flat!Store,
            Flat!Remove, Flat!Drop
<1> QED
  BY <1>2, <1>3, Inductive, PTL DEF Spec, IndexIsFlat, Flat!Spec
=============================================================================
