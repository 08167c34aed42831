--------------------------- MODULE JamBaseProofs ---------------------------
(* Proofs about a JAM message base, for any number of processes and any    *)
(* lengths of its files.                                                   *)
EXTENDS JamBase, AscendingProofs, Recursion, SequenceTheorems

---------------------------------------------------------------------------
(***************************************************************************)
(* The assumptions, and what is inductive.                                 *)
(***************************************************************************)
Editors == Rewriters \cup Killers

(* One process rewrites and deletes, and keeps to the order of calls that  *)
(* the library expects; any number of others append.                       *)
SoleEditor == \A p, q \in Editors : p = q

FileTypes(x, h, t, s) ==
  /\ x \in Seq(0 .. MaxHdr) /\ Len(x) <= MaxIdx
  /\ h \in Seq(HeaderType) /\ Len(h) <= MaxHdr
  /\ t \in Seq(Ids) /\ Len(t) <= MaxTxt
  /\ s \in [Ids -> 0 .. MaxTxt]

(* The index names, for each message that is left, the only header of it   *)
(* that is not deleted.                                                    *)
FilesOK(x, h, t, s) ==
  /\ \A m \in 1 .. Len(x) :
       x[m] # Gone =>
         /\ x[m] \in 1 .. Len(h) /\ ~h[x[m]].del /\ h[x[m]].at = m
         /\ h[x[m]].txt \in 1 .. Len(t) /\ t[h[x[m]].txt] = m
         /\ s[m] = h[x[m]].txt
  /\ \A m \in Ids : (m \in 1 .. Len(x) => x[m] = Gone) => s[m] = NoText
  /\ \A i \in 1 .. Len(h) :
       ~h[i].del => h[i].at \in 1 .. Len(x) /\ x[h[i].at] = i

(* A slot is of its own message; it is live when nothing was rewritten or  *)
(* deleted since it was read.                                              *)
SlotIn(e, x, h, t) ==
  /\ e.at \in 1 .. Len(x) /\ e.hdr \in 1 .. Len(h)
  /\ h[e.hdr].at = e.at /\ e.copy.at = e.at
  /\ e.copy.txt \in 1 .. Len(t) /\ t[e.copy.txt] = e.at

SlotLive(e, x, h) == x[e.at] = e.hdr /\ h[e.hdr] = e.copy

Ascends(a) == \A m, n \in 1 .. a.num : m < n => a.table[m].at < a.table[n].at

TableOK(a, x, h, t) ==
  a.read => /\ a.open /\ Len(a.table) = a.num /\ Ascends(a)
            /\ \A n \in 1 .. a.num : SlotIn(a.table[n], x, h, t)

TableLive(a, x, h) ==
  a.read => \A n \in 1 .. a.num : SlotLive(a.table[n], x, h)

(* A message that is open for rewriting, or whose KillMsg is half done, is *)
(* what its slot says.                                                     *)
HandleOK(p, a, c, k) ==
  c.mode \in {"over", "write"} =>
    /\ p \in Rewriters /\ k = NoKill
    /\ a.read /\ c.num \in 1 .. a.num
    /\ a.table[c.num] = Slot(c.at, c.hdr, c.copy)

KillOK(p, a, k) ==
  k # NoKill =>
    /\ p \in Killers /\ ~a.locked
    /\ a.read /\ k.num \in 1 .. a.num
    /\ a.table[k.num].hdr = k.hdr /\ a.table[k.num].copy = k.copy

ProcInv(p) ==
  /\ TableOK(area[p], idx, hdrs, txt)
  /\ p \in Editors => TableLive(area[p], idx, hdrs)
  /\ HandleOK(p, area[p], msgh[p], kill[p])
  /\ KillOK(p, area[p], kill[p])

FilesInv == FilesOK(idx, hdrs, txt, stored)

Inv == TypeOK /\ FilesInv /\ (\A p \in Procs : ProcInv(p))

---------------------------------------------------------------------------
(***************************************************************************)
(* What the operations do to the files.                                    *)
(***************************************************************************)
(* Nothing a slot needs goes away.                                         *)
Grown(x, h, t, x2, h2, t2) ==
  /\ Len(x) <= Len(x2) /\ Len(h) <= Len(h2) /\ Len(t) <= Len(t2)
  /\ \A i \in 1 .. Len(h) : h2[i].at = h[i].at
  /\ \A i \in 1 .. Len(t) : t2[i] = t[i]

Kept(x, h, x2, h2) ==
  /\ \A m \in 1 .. Len(x) : x2[m] = x[m]
  /\ \A i \in 1 .. Len(h) : h2[i] = h[i]

LEMMA HeaderIs ==
  ASSUME NEW m \in 0 .. MaxIdx, NEW i \in 0 .. MaxTxt
  PROVE  /\ Header(m, i) \in HeaderType
         /\ ~Header(m, i).del /\ Header(m, i).at = m /\ Header(m, i).txt = i
BY DEF Header, HeaderType

LEMMA DeletedIs ==
  ASSUME NEW r \in HeaderType
  PROVE  /\ Deleted(r) \in HeaderType
         /\ Deleted(r).del /\ Deleted(r).at = r.at /\ Deleted(r).txt = r.txt
BY DEF Deleted, HeaderType

(* What was appended is cut off again.                                     *)
LEMMA CutIs ==
  ASSUME NEW S, NEW s \in Seq(S), NEW e
  PROVE  SubSeq(Append(s, e), 1, Len(s)) = s
<1> DEFINE T == S \cup {e}
           r == Append(s, e)
<1>1. s \in Seq(T)
  <2>1. s \in [1 .. Len(s) -> S] /\ Len(s) \in Nat
    BY LenProperties
  <2>2. s \in [1 .. Len(s) -> T]
    BY <2>1
  <2> QED
    BY <2>1, <2>2, SeqDef
<1>2. e \in T
  OBVIOUS
<1> HIDE DEF T
<1>3. /\ r \in Seq(T) /\ Len(r) = Len(s) + 1 /\ Len(s) \in Nat
      /\ \A k \in 1 .. Len(s) : r[k] = s[k]
  BY <1>1, <1>2
<1> HIDE DEF r
<1>4. /\ SubSeq(r, 1, Len(s)) \in Seq(T)
      /\ Len(SubSeq(r, 1, Len(s))) = Len(s)
      /\ \A k \in 1 .. Len(s) : SubSeq(r, 1, Len(s))[k] = r[k]
  BY <1>3
<1>5. \A k \in 1 .. Len(s) : SubSeq(r, 1, Len(s))[k] = s[k]
  BY <1>3, <1>4
<1> QED
  BY <1>1, <1>4, <1>5, SeqEqual DEF r

(* A new message.                                                          *)
LEMMA NewFiles ==
  ASSUME NEW x, NEW h, NEW t, NEW s, FileTypes(x, h, t, s), FilesOK(x, h, t, s),
         Len(x) + 1 <= MaxIdx, Len(h) + 1 <= MaxHdr, Len(t) < MaxTxt
  PROVE  LET m  == Len(x) + 1
             r  == Header(m, Len(t) + 1)
             x2 == Append(x, Len(h) + 1)
             h2 == Append(h, r)
             t2 == Append(t, m)
             s2 == [s EXCEPT ![m] = Len(t) + 1]
         IN /\ FileTypes(x2, h2, t2, s2) /\ FilesOK(x2, h2, t2, s2)
            /\ Grown(x, h, t, x2, h2, t2) /\ Kept(x, h, x2, h2)
            /\ r \in HeaderType /\ SlotIn(Slot(m, Len(h) + 1, r), x2, h2, t2)
            /\ SlotLive(Slot(m, Len(h) + 1, r), x2, h2)
            /\ Slot(m, Len(h) + 1, r) \in SlotType
<1> DEFINE m  == Len(x) + 1
           i  == Len(h) + 1
           j  == Len(t) + 1
           r  == Header(m, j)
           x2 == Append(x, i)
           h2 == Append(h, r)
           t2 == Append(t, m)
           s2 == [s EXCEPT ![m] = j]
<1>1. /\ x \in Seq(0 .. MaxHdr) /\ h \in Seq(HeaderType) /\ t \in Seq(Ids)
      /\ s \in [Ids -> 0 .. MaxTxt]
      /\ Len(x) \in Nat /\ Len(h) \in Nat /\ Len(t) \in Nat
      /\ MaxIdx \in Nat /\ MaxHdr \in Nat /\ MaxTxt \in Nat
  BY JamAssumption DEF FileTypes
<1>2. m \in Ids /\ i \in 1 .. MaxHdr /\ j \in 1 .. MaxTxt
  BY <1>1 DEF Ids
<1>3. r \in HeaderType /\ ~r.del /\ r.at = m /\ r.txt = j
  BY <1>1, <1>2, HeaderIs DEF Ids
<1> HIDE DEF r
<1>4. /\ x2 \in Seq(0 .. MaxHdr) /\ Len(x2) = m /\ x2[m] = i
      /\ \A k \in 1 .. Len(x) : x2[k] = x[k]
  BY <1>1, <1>2
<1>5. /\ h2 \in Seq(HeaderType) /\ Len(h2) = i /\ h2[i] = r
      /\ \A k \in 1 .. Len(h) : h2[k] = h[k]
  BY <1>1, <1>2, <1>3
<1>6. /\ t2 \in Seq(Ids) /\ Len(t2) = j /\ t2[j] = m
      /\ \A k \in 1 .. Len(t) : t2[k] = t[k]
  BY <1>1, <1>2
<1>7. /\ s2 \in [Ids -> 0 .. MaxTxt] /\ s2[m] = j
      /\ \A k \in Ids \ {m} : s2[k] = s[k]
  BY <1>1, <1>2
<1> HIDE DEF x2, h2, t2, s2
<1>8. /\ 1 .. Len(x) \subseteq 1 .. Len(x2)
      /\ 1 .. Len(h) \subseteq 1 .. Len(h2)
      /\ 1 .. Len(t) \subseteq 1 .. Len(t2)
  BY <1>1, <1>4, <1>5, <1>6
<1>9. FileTypes(x2, h2, t2, s2)
  BY <1>1, <1>2, <1>4, <1>5, <1>6, <1>7 DEF FileTypes, Ids
<1>10. FilesOK(x2, h2, t2, s2)
  <2>1. ASSUME NEW k \in 1 .. Len(x2), x2[k] # Gone
        PROVE  /\ x2[k] \in 1 .. Len(h2) /\ ~h2[x2[k]].del /\ h2[x2[k]].at = k
               /\ h2[x2[k]].txt \in 1 .. Len(t2) /\ t2[h2[x2[k]].txt] = k
               /\ s2[k] = h2[x2[k]].txt
    <3>1. CASE k = m
      <4>1. x2[k] = i /\ h2[x2[k]] = r /\ t2[j] = k /\ s2[k] = j
        BY <1>4, <1>5, <1>6, <1>7, <3>1
      <4>2. i \in 1 .. Len(h2) /\ j \in 1 .. Len(t2)
        BY <1>2, <1>5, <1>6
      <4> HIDE DEF i, j, m
      <4> QED
        BY <1>3, <3>1, <4>1, <4>2
    <3>2. CASE k # m
      <4>1. k \in 1 .. Len(x) /\ k \in Ids \ {m}
        BY <1>1, <1>2, <1>4, <2>1, <3>2 DEF Ids
      <4>2. /\ x[k] \in 1 .. Len(h) /\ ~h[x[k]].del /\ h[x[k]].at = k
            /\ h[x[k]].txt \in 1 .. Len(t) /\ t[h[x[k]].txt] = k
            /\ s[k] = h[x[k]].txt
        BY <1>4, <2>1, <4>1 DEF FilesOK
      <4>3. x2[k] = x[k] /\ h2[x[k]] = h[x[k]] /\ s2[k] = s[k]
        BY <1>4, <1>5, <1>7, <4>1, <4>2
      <4>4. t2[h[x[k]].txt] = t[h[x[k]].txt]
        BY <1>6, <4>2
      <4>5. x[k] \in 1 .. Len(h2) /\ h[x[k]].txt \in 1 .. Len(t2)
        BY <1>8, <4>2
      <4> QED
        BY <4>2, <4>3, <4>4, <4>5
    <3> QED
      BY <3>1, <3>2
  <2>2. ASSUME NEW k \in Ids, k \in 1 .. Len(x2) => x2[k] = Gone
        PROVE  s2[k] = NoText
    <3>1. k # m
      BY <1>1, <1>2, <1>4, <2>2 DEF Gone
    <3>2. k \in 1 .. Len(x) => x[k] = Gone
      BY <1>4, <1>8, <2>2
    <3> QED
      BY <1>7, <2>2, <3>1, <3>2 DEF FilesOK
  <2>3. ASSUME NEW k \in 1 .. Len(h2), ~h2[k].del
        PROVE  h2[k].at \in 1 .. Len(x2) /\ x2[h2[k].at] = k
    <3>1. CASE k = i
      BY <1>1, <1>2, <1>3, <1>4, <1>5, <3>1
    <3>2. CASE k # i
      <4>1. k \in 1 .. Len(h)
        BY <1>1, <1>5, <2>3, <3>2
      <4>2. h[k].at \in 1 .. Len(x) /\ x[h[k].at] = k
        BY <1>5, <2>3, <4>1 DEF FilesOK
      <4>3. h2[k] = h[k] /\ x2[h[k].at] = x[h[k].at]
        BY <1>4, <1>5, <4>1, <4>2
      <4>4. h[k].at \in 1 .. Len(x2)
        BY <1>8, <4>2
      <4> QED
        BY <4>2, <4>3, <4>4
    <3> QED
      BY <3>1, <3>2
  <2> QED
    BY <2>1, <2>2, <2>3 DEF FilesOK
<1>11. Grown(x, h, t, x2, h2, t2) /\ Kept(x, h, x2, h2)
  <2>1. Len(x) <= Len(x2) /\ Len(h) <= Len(h2) /\ Len(t) <= Len(t2)
    BY <1>1, <1>4, <1>5, <1>6
  <2>2. \A k \in 1 .. Len(h) : h2[k].at = h[k].at
    BY <1>5
  <2> QED
    BY <1>4, <1>5, <1>6, <2>1, <2>2 DEF Grown, Kept
<1>12. /\ Slot(m, i, r) \in SlotType
       /\ SlotIn(Slot(m, i, r), x2, h2, t2) /\ SlotLive(Slot(m, i, r), x2, h2)
  BY <1>1, <1>2, <1>3, <1>4, <1>5, <1>6
     DEF Slot, SlotType, SlotIn, SlotLive
<1> QED
  BY <1>3, <1>9, <1>10, <1>11, <1>12 DEF x2, h2, t2, s2, r

LEMMA SlotStays ==
  ASSUME NEW x, NEW h, NEW t, NEW x2, NEW h2, NEW t2,
         Len(x) \in Nat, Len(h) \in Nat, Len(t) \in Nat,
         Len(x2) \in Nat, Len(h2) \in Nat, Len(t2) \in Nat,
         Grown(x, h, t, x2, h2, t2), NEW e, SlotIn(e, x, h, t)
  PROVE  SlotIn(e, x2, h2, t2)
<1>1. /\ 1 .. Len(x) \subseteq 1 .. Len(x2)
      /\ 1 .. Len(h) \subseteq 1 .. Len(h2)
      /\ 1 .. Len(t) \subseteq 1 .. Len(t2)
  BY DEF Grown
<1>2. h2[e.hdr].at = h[e.hdr].at /\ t2[e.copy.txt] = t[e.copy.txt]
  BY DEF Grown, SlotIn
<1> QED
  BY <1>1, <1>2 DEF SlotIn

LEMMA LiveStays ==
  ASSUME NEW x, NEW h, NEW t, NEW x2, NEW h2, Kept(x, h, x2, h2),
         NEW e, SlotIn(e, x, h, t), SlotLive(e, x, h)
  PROVE  SlotLive(e, x2, h2)
BY DEF Kept, SlotIn, SlotLive

(* A live message gets a header at i, its old one or one behind the last,  *)
(* and the text at j: that is what replacing and updating have in common.  *)
Rewritten(x, h, t, s, y, g, w, s2, e, i, j) ==
  /\ i \in 1 .. Len(g) /\ j \in 1 .. Len(w)
  /\ i = e.hdr \/ i = Len(h) + 1
  /\ Len(t) <= Len(w) /\ w[j] = e.at
  /\ \A k \in 1 .. Len(t) : w[k] = t[k]
  /\ s2[e.at] = j
  /\ \A k \in Ids \ {e.at} : s2[k] = s[k]
  /\ Len(h) <= Len(g) /\ g[i] = Header(e.at, j)
  /\ i # e.hdr => g[e.hdr] = Deleted(e.copy)
  /\ \A k \in 1 .. Len(h) : k # e.hdr => g[k] = h[k]
  /\ \A k \in 1 .. Len(g) : k \in 1 .. Len(h) \/ k = i
  /\ Len(y) = Len(x) /\ y[e.at] = i
  /\ \A k \in 1 .. Len(x) : k # e.at => y[k] = x[k]

LEMMA RewrittenFiles ==
  ASSUME NEW x, NEW h, NEW t, NEW s, FileTypes(x, h, t, s), FilesOK(x, h, t, s),
         NEW e \in SlotType, SlotIn(e, x, h, t), SlotLive(e, x, h),
         NEW y, NEW g, NEW w, NEW s2, FileTypes(y, g, w, s2), NEW i, NEW j,
         Rewritten(x, h, t, s, y, g, w, s2, e, i, j)
  PROVE  /\ FilesOK(y, g, w, s2) /\ Grown(x, h, t, y, g, w)
         /\ LET d == Slot(e.at, i, Header(e.at, j))
            IN d \in SlotType /\ SlotIn(d, y, g, w) /\ SlotLive(d, y, g)
         /\ \A d \in SlotType :
              SlotIn(d, x, h, t) /\ SlotLive(d, x, h) /\ d.at # e.at
                => SlotLive(d, y, g)
<1> USE DEF Rewritten
<1>1. /\ Len(x) \in Nat /\ Len(h) \in Nat /\ Len(t) \in Nat
      /\ Len(g) \in Nat /\ Len(w) \in Nat
      /\ MaxIdx \in Nat /\ MaxHdr \in Nat /\ MaxTxt \in Nat
      /\ Len(x) <= MaxIdx /\ Len(g) <= MaxHdr /\ Len(w) <= MaxTxt
  <2>1. /\ x \in Seq(0 .. MaxHdr) /\ h \in Seq(HeaderType) /\ t \in Seq(Ids)
        /\ g \in Seq(HeaderType) /\ w \in Seq(Ids)
        /\ Len(x) <= MaxIdx /\ Len(g) <= MaxHdr /\ Len(w) <= MaxTxt
    BY DEF FileTypes
  <2> QED
    BY <2>1, LenProperties, JamAssumption
<1>2. /\ e.at \in 1 .. Len(x) /\ e.hdr \in 1 .. Len(h) /\ h[e.hdr].at = e.at
      /\ x[e.at] = e.hdr /\ h[e.hdr] = e.copy
      /\ e.at \in Ids /\ e.copy \in HeaderType
  BY DEF SlotIn, SlotLive, SlotType
<1>3. 1 .. Len(h) \subseteq 1 .. Len(g) /\ 1 .. Len(t) \subseteq 1 .. Len(w)
  BY <1>1
<1>4. e.at \in 0 .. MaxIdx /\ j \in 0 .. MaxTxt /\ i \in 1 .. MaxHdr
  <2>1. i \in 1 .. Len(g) /\ j \in 1 .. Len(w) /\ e.at \in 1 .. Len(x)
    BY <1>2
  <2> HIDE DEF Rewritten
  <2> QED
    BY <1>1, <2>1
<1>5. /\ g[i].at = e.at /\ ~g[i].del /\ g[i].txt = j /\ g[i] \in HeaderType
  BY <1>4, HeaderIs
<1>6. i # e.hdr => g[e.hdr].del /\ g[e.hdr].at = e.at
  BY <1>2, DeletedIs
<1>7. \A k \in 1 .. Len(x) :
        k # e.at /\ x[k] # Gone =>
          /\ x[k] \in 1 .. Len(h) /\ x[k] # e.hdr /\ g[x[k]] = h[x[k]]
  <2> SUFFICES ASSUME NEW k \in 1 .. Len(x), k # e.at, x[k] # Gone
               PROVE  /\ x[k] \in 1 .. Len(h) /\ x[k] # e.hdr
                      /\ g[x[k]] = h[x[k]]
    OBVIOUS
  <2>1. x[k] \in 1 .. Len(h) /\ h[x[k]].at = k
    BY DEF FilesOK
  <2>2. x[k] # e.hdr
    BY <1>2, <2>1
  <2> QED
    BY <2>1, <2>2
<1>8. FilesOK(y, g, w, s2)
  <2>1. ASSUME NEW k \in 1 .. Len(y), y[k] # Gone
        PROVE  /\ y[k] \in 1 .. Len(g) /\ ~g[y[k]].del /\ g[y[k]].at = k
               /\ g[y[k]].txt \in 1 .. Len(w) /\ w[g[y[k]].txt] = k
               /\ s2[k] = g[y[k]].txt
    <3>1. CASE k = e.at
      BY <1>5, <3>1
    <3>2. CASE k # e.at
      <4>1. y[k] = x[k] /\ x[k] # Gone /\ k \in 1 .. Len(x)
        BY <2>1, <3>2
      <4>2. k \in Ids
        BY <1>1, <4>1 DEF FileTypes, Ids
      <4>3. s2[k] = s[k] /\ g[x[k]] = h[x[k]]
        BY <1>7, <3>2, <4>1, <4>2
      <4>4. /\ x[k] \in 1 .. Len(h) /\ ~h[x[k]].del /\ h[x[k]].at = k
            /\ h[x[k]].txt \in 1 .. Len(t) /\ t[h[x[k]].txt] = k
            /\ s[k] = h[x[k]].txt
        BY <4>1 DEF FilesOK
      <4>5. w[h[x[k]].txt] = t[h[x[k]].txt]
        BY <4>4
      <4> QED
        BY <1>3, <4>1, <4>3, <4>4, <4>5
    <3> QED
      BY <3>1, <3>2
  <2>2. ASSUME NEW k \in Ids, k \in 1 .. Len(y) => y[k] = Gone
        PROVE  s2[k] = NoText
    <3>1. k # e.at
      BY <1>1, <1>2, <2>2 DEF Gone
    <3>2. k \in 1 .. Len(x) => x[k] = Gone
      BY <2>2, <3>1
    <3> QED
      BY <2>2, <3>1, <3>2 DEF FilesOK
  <2>3. ASSUME NEW k \in 1 .. Len(g), ~g[k].del
        PROVE  g[k].at \in 1 .. Len(y) /\ y[g[k].at] = k
    <3>1. CASE k = i
      BY <1>2, <1>5, <3>1
    <3>2. CASE k # i
      <4>1. k \in 1 .. Len(h) /\ k # e.hdr /\ g[k] = h[k]
        BY <1>6, <2>3, <3>2
      <4>2. h[k].at \in 1 .. Len(x) /\ x[h[k].at] = k
        BY <2>3, <4>1 DEF FilesOK
      <4>3. h[k].at # e.at
        BY <1>2, <4>1, <4>2
      <4> QED
        BY <4>1, <4>2, <4>3
    <3> QED
      BY <3>1, <3>2
  <2> QED
    BY <2>1, <2>2, <2>3 DEF FilesOK
<1>9. Grown(x, h, t, y, g, w)
  <2>1. ASSUME NEW k \in 1 .. Len(h) PROVE g[k].at = h[k].at
    BY <1>2, <1>5, <1>6
  <2> QED
    BY <1>1, <2>1 DEF Grown
<1>10. LET d == Slot(e.at, i, Header(e.at, j))
       IN d \in SlotType /\ SlotIn(d, y, g, w) /\ SlotLive(d, y, g)
  BY <1>2, <1>4, <1>5 DEF Slot, SlotType, SlotIn, SlotLive
<1>11. ASSUME NEW d \in SlotType, SlotIn(d, x, h, t), SlotLive(d, x, h),
              d.at # e.at
       PROVE  SlotLive(d, y, g)
  <2>1. d.at \in 1 .. Len(x) /\ d.hdr \in 1 .. Len(h) /\ h[d.hdr].at = d.at
    BY <1>11 DEF SlotIn
  <2>2. d.hdr # e.hdr
    BY <1>2, <1>11, <2>1
  <2> QED
    BY <1>11, <2>1, <2>2 DEF SlotLive
<1> QED
  BY <1>8, <1>9, <1>10, <1>11

(* A deleted message has no header left that is not deleted.               *)
LEMMA KilledFiles ==
  ASSUME NEW x, NEW h, NEW t, NEW s, FileTypes(x, h, t, s), FilesOK(x, h, t, s),
         NEW e \in SlotType, SlotIn(e, x, h, t), SlotLive(e, x, h)
  PROVE  LET y  == [x EXCEPT ![e.at] = Gone]
             g  == [h EXCEPT ![e.hdr] = Deleted(e.copy)]
             s2 == [s EXCEPT ![e.at] = NoText]
         IN /\ FileTypes(y, g, t, s2) /\ FilesOK(y, g, t, s2)
            /\ Grown(x, h, t, y, g, t)
<1> DEFINE y  == [x EXCEPT ![e.at] = Gone]
           g  == [h EXCEPT ![e.hdr] = Deleted(e.copy)]
           s2 == [s EXCEPT ![e.at] = NoText]
<1>1. /\ x \in Seq(0 .. MaxHdr) /\ h \in Seq(HeaderType)
      /\ s \in [Ids -> 0 .. MaxTxt]
      /\ Len(x) \in Nat /\ Len(h) \in Nat /\ Len(t) \in Nat
      /\ MaxIdx \in Nat /\ MaxHdr \in Nat /\ MaxTxt \in Nat
  BY JamAssumption DEF FileTypes
<1>2. /\ e.at \in 1 .. Len(x) /\ e.hdr \in 1 .. Len(h) /\ h[e.hdr].at = e.at
      /\ x[e.at] = e.hdr /\ h[e.hdr] = e.copy
      /\ e.at \in Ids /\ e.copy \in HeaderType
  BY DEF SlotIn, SlotLive, SlotType
<1>3. /\ Deleted(e.copy) \in HeaderType /\ Deleted(e.copy).del
      /\ Deleted(e.copy).at = e.at
  BY <1>2, DeletedIs
<1>4. /\ y \in Seq(0 .. MaxHdr) /\ Len(y) = Len(x) /\ y[e.at] = Gone
      /\ \A k \in 1 .. Len(x) : k # e.at => y[k] = x[k]
  BY <1>1, <1>2 DEF Gone
<1>5. /\ g \in Seq(HeaderType) /\ Len(g) = Len(h)
      /\ g[e.hdr] = Deleted(e.copy)
      /\ \A k \in 1 .. Len(h) : k # e.hdr => g[k] = h[k]
  BY <1>1, <1>2, <1>3
<1>6. /\ s2 \in [Ids -> 0 .. MaxTxt] /\ s2[e.at] = NoText
      /\ \A k \in Ids \ {e.at} : s2[k] = s[k]
  BY <1>1, <1>2 DEF NoText
<1> HIDE DEF y, g, s2
<1>7. FileTypes(y, g, t, s2)
  BY <1>4, <1>5, <1>6 DEF FileTypes
<1>8. FilesOK(y, g, t, s2)
  <2>1. ASSUME NEW k \in 1 .. Len(y), y[k] # Gone
        PROVE  /\ y[k] \in 1 .. Len(g) /\ ~g[y[k]].del /\ g[y[k]].at = k
               /\ g[y[k]].txt \in 1 .. Len(t) /\ t[g[y[k]].txt] = k
               /\ s2[k] = g[y[k]].txt
    <3>1. k \in 1 .. Len(x) /\ k # e.at /\ y[k] = x[k] /\ k \in Ids
      <4>1. k \in 1 .. Len(x) /\ k # e.at /\ y[k] = x[k]
        BY <1>4, <2>1
      <4>2. Len(x) <= MaxIdx
        BY DEF FileTypes
      <4> QED
        BY <1>1, <4>1, <4>2 DEF Ids
    <3>2. /\ x[k] \in 1 .. Len(h) /\ ~h[x[k]].del /\ h[x[k]].at = k
          /\ h[x[k]].txt \in 1 .. Len(t) /\ t[h[x[k]].txt] = k
          /\ s[k] = h[x[k]].txt
      BY <2>1, <3>1 DEF FilesOK
    <3>3. g[x[k]] = h[x[k]] /\ s2[k] = s[k]
      BY <1>2, <1>5, <1>6, <3>1, <3>2
    <3> QED
      BY <1>5, <3>1, <3>2, <3>3
  <2>2. ASSUME NEW k \in Ids, k \in 1 .. Len(y) => y[k] = Gone
        PROVE  s2[k] = NoText
    <3>1. k # e.at => (k \in 1 .. Len(x) => x[k] = Gone)
      BY <1>4, <2>2
    <3> QED
      BY <1>6, <2>2, <3>1 DEF FilesOK
  <2>3. ASSUME NEW k \in 1 .. Len(g), ~g[k].del
        PROVE  g[k].at \in 1 .. Len(y) /\ y[g[k].at] = k
    <3>1. k \in 1 .. Len(h) /\ k # e.hdr /\ g[k] = h[k]
      BY <1>3, <1>5, <2>3
    <3>2. h[k].at \in 1 .. Len(x) /\ x[h[k].at] = k
      BY <2>3, <3>1 DEF FilesOK
    <3>3. h[k].at # e.at
      BY <1>2, <3>1, <3>2
    <3> QED
      BY <1>4, <3>1, <3>2, <3>3
  <2> QED
    BY <2>1, <2>2, <2>3 DEF FilesOK
<1>9. Grown(x, h, t, y, g, t)
  <2>1. ASSUME NEW k \in 1 .. Len(h) PROVE g[k].at = h[k].at
    BY <1>2, <1>3, <1>5
  <2> QED
    BY <1>1, <1>4, <1>5, <2>1 DEF Grown
<1> QED
  BY <1>7, <1>8, <1>9 DEF y, g, s2

---------------------------------------------------------------------------
(***************************************************************************)
(* The table.                                                              *)
(***************************************************************************)
Left(x, h) ==
  {m \in 1 .. Len(x) : x[m] # Gone /\ x[m] <= Len(h) /\ ~h[x[m]].del}

ActiveOf(x, h) ==
  LET ms == InOrder(Left(x, h))
  IN [n \in DOMAIN ms |-> Slot(ms[n], x[ms[n]], h[x[ms[n]]])]

(* What read_allidx makes of the files has a live slot for every message   *)
(* that is left.                                                           *)
LEMMA ActiveIs ==
  ASSUME NEW x, NEW h, NEW t, NEW s, FileTypes(x, h, t, s), FilesOK(x, h, t, s)
  PROVE  LET a == ActiveOf(x, h)
         IN /\ a \in Seq(SlotType) /\ Len(a) \in Nat /\ Len(a) <= Len(x)
            /\ \A m, n \in 1 .. Len(a) : m < n => a[m].at < a[n].at
            /\ \A n \in 1 .. Len(a) : /\ SlotIn(a[n], x, h, t)
                                      /\ SlotLive(a[n], x, h)
<1> DEFINE S  == Left(x, h)
           ms == InOrder(S)
           a  == ActiveOf(x, h)
<1>1. /\ x \in Seq(0 .. MaxHdr) /\ h \in Seq(HeaderType) /\ Len(x) <= MaxIdx
      /\ Len(x) \in Nat /\ Len(h) \in Nat /\ Len(t) \in Nat
      /\ Len(h) <= MaxHdr
      /\ MaxIdx \in Nat /\ MaxHdr \in Nat /\ MaxTxt \in Nat
  BY JamAssumption DEF FileTypes
<1>2. /\ S \in SUBSET Int /\ IsFiniteSet(S) /\ Cardinality(S) <= Len(x)
      /\ S \subseteq 1 .. Len(x)
  <2>1. IsFiniteSet(1 .. Len(x)) /\ Cardinality(1 .. Len(x)) = Len(x)
    <3> DEFINE l == Len(x)
    <3>1. l \in Nat /\ 1 \in Int /\ l \in Int
      BY <1>1
    <3> HIDE DEF l
    <3>2. /\ IsFiniteSet(1 .. l)
          /\ Cardinality(1 .. l) = IF 1 > l THEN 0 ELSE l - 1 + 1
      BY <3>1, FS_Interval
    <3>3. Cardinality(1 .. l) = l
      BY <3>1, <3>2
    <3> QED
      BY <3>2, <3>3 DEF l
  <2>2. S \subseteq 1 .. Len(x)
    BY DEF Left
  <2> HIDE DEF S
  <2>3. IsFiniteSet(S) /\ Cardinality(S) <= Len(x)
    BY <2>1, <2>2, FS_Subset
  <2> QED
    BY <2>2, <2>3
<1>3. \A m \in S : /\ m \in 1 .. Len(x) /\ m \in Ids
                   /\ x[m] \in 1 .. Len(h) /\ x[m] \in 1 .. MaxHdr
                   /\ h[x[m]].at = m /\ h[x[m]] \in HeaderType
                   /\ h[x[m]].txt \in 1 .. Len(t) /\ t[h[x[m]].txt] = m
  <2> SUFFICES ASSUME NEW m \in S
               PROVE  /\ m \in 1 .. Len(x) /\ m \in Ids
                      /\ x[m] \in 1 .. Len(h) /\ x[m] \in 1 .. MaxHdr
                      /\ h[x[m]].at = m /\ h[x[m]] \in HeaderType
                      /\ h[x[m]].txt \in 1 .. Len(t) /\ t[h[x[m]].txt] = m
    OBVIOUS
  <2>1. m \in 1 .. Len(x) /\ x[m] # Gone
    BY DEF Left
  <2>2. /\ x[m] \in 1 .. Len(h) /\ h[x[m]].at = m
        /\ h[x[m]].txt \in 1 .. Len(t) /\ t[h[x[m]].txt] = m
    BY <2>1 DEF FilesOK
  <2>3. m \in Ids /\ x[m] \in 1 .. MaxHdr
    BY <1>1, <2>1, <2>2 DEF Ids
  <2> QED
    BY <1>1, <2>1, <2>2, <2>3
<1> HIDE DEF S
<1>4. /\ ms \in Seq(S) /\ Len(ms) = Cardinality(S) /\ Len(ms) \in Nat
      /\ DOMAIN ms = 1 .. Len(ms)
  BY <1>2, InOrderIsSequence
<1>5. \A m, n \in 1 .. Len(ms) : m < n => ms[m] < ms[n]
  BY <1>2, <1>4, InOrderAscends
<1> HIDE DEF ms
<1>6. a = [n \in 1 .. Len(ms) |-> Slot(ms[n], x[ms[n]], h[x[ms[n]]])]
  BY <1>4 DEF ActiveOf, ms, S
<1> HIDE DEF a
<1>7. \A n \in 1 .. Len(ms) :
        /\ a[n] = Slot(ms[n], x[ms[n]], h[x[ms[n]]])
        /\ a[n].at = ms[n]
        /\ ms[n] \in S
  BY <1>4, <1>6 DEF Slot
<1>8. \A n \in 1 .. Len(ms) : a[n] \in SlotType /\ SlotIn(a[n], x, h, t)
                              /\ SlotLive(a[n], x, h)
  <2> SUFFICES ASSUME NEW n \in 1 .. Len(ms)
               PROVE  /\ a[n] \in SlotType /\ SlotIn(a[n], x, h, t)
                      /\ SlotLive(a[n], x, h)
    OBVIOUS
  <2> DEFINE m == ms[n]
             i == x[m]
             r == h[i]
  <2>1. a[n] = Slot(m, i, r) /\ m \in S
    BY <1>7
  <2>2. /\ m \in 1 .. Len(x) /\ m \in Ids /\ x[m] = i /\ h[i] = r
        /\ i \in 1 .. Len(h) /\ i \in 1 .. MaxHdr
        /\ r.at = m /\ r \in HeaderType
        /\ r.txt \in 1 .. Len(t) /\ t[r.txt] = m
    BY <1>3, <2>1
  <2> HIDE DEF m, i, r
  <2> QED
    BY <2>1, <2>2 DEF Slot, SlotType, SlotIn, SlotLive
<1>9. a \in Seq(SlotType) /\ Len(a) = Len(ms)
  BY <1>4, <1>6, <1>8
<1> QED
  BY <1>2, <1>4, <1>5, <1>7, <1>8, <1>9 DEF a

LEMMA ActiveMsgsIs ==
  ASSUME TypeOK PROVE ActiveMsgs = ActiveOf(idx, hdrs)
<1>1. DOMAIN idx = 1 .. Len(idx)
  BY DEF TypeOK
<1> QED
  BY <1>1 DEF ActiveMsgs, ActiveOf, Live, Left

LEMMA FilesTyped == ASSUME TypeOK PROVE FileTypes(idx, hdrs, txt, stored)
BY DEF TypeOK, FileTypes

(* Reading the table makes it true, and leaves alone who holds what.       *)
LEMMA ReadAllIs ==
  ASSUME TypeOK, FilesInv, NEW a \in AreaType, a.open
  PROVE  LET b == ReadAll(a)
         IN /\ b \in AreaType /\ b.open /\ b.locked = a.locked /\ b.read
            /\ b.num <= Len(idx)
            /\ TableOK(b, idx, hdrs, txt) /\ TableLive(b, idx, hdrs)
<1> DEFINE t == ActiveMsgs
           b == ReadAll(a)
           n == Len(t)
           x == a.modified \/ a.num # n
<1>1. /\ t \in Seq(SlotType) /\ Len(t) \in Nat /\ Len(t) <= Len(idx)
      /\ \A i, j \in 1 .. Len(t) : i < j => t[i].at < t[j].at
      /\ \A i \in 1 .. Len(t) : /\ SlotIn(t[i], idx, hdrs, txt)
                                /\ SlotLive(t[i], idx, hdrs)
  BY ActiveMsgsIs, ActiveIs, FilesTyped DEF FilesInv
<1>2. n \in 0 .. MaxIdx /\ Len(idx) <= MaxIdx
  BY <1>1, JamAssumption DEF TypeOK
<1>3. b = [a EXCEPT !.read = TRUE, !.table = t, !.num = n, !.modified = x]
  BY DEF ReadAll
<1>4. x \in BOOLEAN /\ n = Len(t)
  BY DEF AreaType
<1> HIDE DEF b, t, n, x
<1>5. /\ b \in AreaType /\ b.read = TRUE /\ b.table = t /\ b.num = n
      /\ b.open = a.open /\ b.locked = a.locked
  BY <1>1, <1>2, <1>3, <1>4 DEF AreaType
<1> QED
  BY <1>1, <1>4, <1>5 DEF TableOK, TableLive, Ascends, b

LEMMA TableIs ==
  ASSUME Inv, NEW p \in Procs, area[p].open
  PROVE  LET a == area[p]
             b == Table(a)
         IN /\ b \in AreaType /\ b.open /\ b.locked = a.locked /\ b.read
            /\ b.num <= Len(idx)
            /\ TableOK(b, idx, hdrs, txt)
            /\ p \in Editors => TableLive(b, idx, hdrs)
            /\ a.read => b = a
<1>1. area[p] \in AreaType /\ ProcInv(p) /\ area[p].num <= Len(idx)
  BY DEF Inv, TypeOK
<1>2. CASE area[p].read
  BY <1>1, <1>2 DEF Table, ProcInv
<1>3. CASE ~area[p].read
  BY <1>1, <1>3, ReadAllIs DEF Table, Inv
<1> QED
  BY <1>2, <1>3

---------------------------------------------------------------------------
(***************************************************************************)
(* A step of one process.                                                  *)
(***************************************************************************)
LEMMA InitInv == Init => Inv
<1> SUFFICES ASSUME Init PROVE Inv
  OBVIOUS
<1>1. /\ idx = <<>> /\ hdrs = <<>> /\ txt = <<>> /\ active = 0
      /\ owner = Nobody /\ wild = FALSE
      /\ area = [p \in Procs |-> Shut] /\ msgh = [p \in Procs |-> NoMsg]
      /\ kill = [p \in Procs |-> NoKill] /\ stored = [m \in Ids |-> NoText]
      /\ Len(idx) = 0 /\ Len(hdrs) = 0 /\ Len(txt) = 0
  BY DEF Init
<1>2. Header(0, 0) \in HeaderType
  BY HeaderIs, JamAssumption
<1>3. Shut \in AreaType /\ NoMsg \in MsghType /\ NoKill \in KillType
  <2>1. Shut \in AreaType
    BY JamAssumption DEF Shut, AreaType
  <2> QED
    BY <1>2, <2>1, JamAssumption DEF NoMsg, NoKill, MsghType, KillType
<1>4. TypeOK
  <2>1. /\ idx \in Seq(0 .. MaxHdr) /\ hdrs \in Seq(HeaderType)
        /\ txt \in Seq(Ids)
        /\ Len(idx) <= MaxIdx /\ Len(hdrs) <= MaxHdr /\ Len(txt) <= MaxTxt
    BY <1>1, JamAssumption
  <2>2. active \in 0 .. MaxIdx /\ stored \in [Ids -> 0 .. MaxTxt]
    BY <1>1, JamAssumption DEF NoText
  <2>3. \A p \in Procs : area[p].num <= Len(idx) /\ ~area[p].locked
    BY <1>1 DEF Shut
  <2> QED
    BY <1>1, <1>3, <2>1, <2>2, <2>3 DEF TypeOK
<1>5. FilesInv
  BY <1>1 DEF FilesInv, FilesOK
<1>6. \A p \in Procs : ProcInv(p)
  BY <1>1 DEF ProcInv, TableOK, TableLive, HandleOK, KillOK, Shut, NoMsg
<1> QED
  BY <1>1, <1>4, <1>5, <1>6 DEF Inv

(* The others' tables, handles and half-done kills stay what they were,    *)
(* because a file only grows, or what changes in it is the sole editor's.  *)
LEMMA OthersStay ==
  ASSUME SoleEditor, Inv, NEW p \in Procs, NEW q \in Procs \ {p},
         area'[q] = area[q], msgh'[q] = msgh[q], kill'[q] = kill[q],
         FileTypes(idx', hdrs', txt', stored'),
         Grown(idx, hdrs, txt, idx', hdrs', txt'),
         p \notin Editors => Kept(idx, hdrs, idx', hdrs')
  PROVE  ProcInv(q)'
<1>1. ProcInv(q)
  BY DEF Inv
<1>2. /\ Len(idx) \in Nat /\ Len(hdrs) \in Nat /\ Len(txt) \in Nat
      /\ Len(idx') \in Nat /\ Len(hdrs') \in Nat /\ Len(txt') \in Nat
  <2>1. /\ idx \in Seq(0 .. MaxHdr) /\ hdrs \in Seq(HeaderType)
        /\ txt \in Seq(Ids)
        /\ idx' \in Seq(0 .. MaxHdr) /\ hdrs' \in Seq(HeaderType)
        /\ txt' \in Seq(Ids)
    BY DEF Inv, TypeOK, FileTypes
  <2> QED
    BY <2>1, LenProperties
<1>3. TableOK(area[q], idx', hdrs', txt')
  <2>1. TableOK(area[q], idx, hdrs, txt)
    BY <1>1 DEF ProcInv
  <2>2. ASSUME area[q].read, NEW n \in 1 .. area[q].num
        PROVE  SlotIn(area[q].table[n], idx', hdrs', txt')
    BY <1>2, <2>1, <2>2, SlotStays DEF TableOK
  <2> QED
    BY <2>1, <2>2 DEF TableOK
<1>4. ASSUME q \in Editors PROVE TableLive(area[q], idx', hdrs')
  <2>1. Kept(idx, hdrs, idx', hdrs')
    BY <1>4 DEF SoleEditor
  <2>2. TableLive(area[q], idx, hdrs) /\ TableOK(area[q], idx, hdrs, txt)
    BY <1>1, <1>4 DEF ProcInv
  <2>3. ASSUME area[q].read, NEW n \in 1 .. area[q].num
        PROVE  SlotLive(area[q].table[n], idx', hdrs')
    BY <2>1, <2>2, <2>3, LiveStays DEF TableOK, TableLive
  <2> QED
    BY <2>3 DEF TableLive
<1> QED
  BY <1>1, <1>3, <1>4 DEF ProcInv

LEMMA OneStep ==
  ASSUME SoleEditor, Inv, NEW p \in Procs,
         area' \in [Procs -> AreaType], msgh' \in [Procs -> MsghType],
         kill' \in [Procs -> KillType],
         \A q \in Procs \ {p} : /\ area'[q] = area[q] /\ msgh'[q] = msgh[q]
                                /\ kill'[q] = kill[q],
         FileTypes(idx', hdrs', txt', stored'), FilesInv',
         Grown(idx, hdrs, txt, idx', hdrs', txt'),
         p \notin Editors => Kept(idx, hdrs, idx', hdrs'),
         active' \in 0 .. MaxIdx,
         owner' = owner \/ (owner \in {Nobody, p} /\ owner' \in {Nobody, p}),
         area'[p].locked => owner' = p, area'[p].num <= Len(idx'),
         ProcInv(p)', wild' \in BOOLEAN
  PROVE  Inv'
<1>1. \A q \in Procs : ProcInv(q)'
  BY OthersStay
<1>2. owner' \in Procs \cup {Nobody}
  BY DEF Inv, TypeOK
<1>3. \A q \in Procs : area'[q].num <= Len(idx')
  <2>1. ASSUME NEW q \in Procs \ {p} PROVE area'[q].num <= Len(idx')
    <3>1. area[q].num <= Len(idx) /\ Len(idx) <= Len(idx') /\ area'[q] = area[q]
      BY DEF Inv, TypeOK, Grown
    <3>2. area[q].num \in Nat /\ Len(idx) \in Nat /\ Len(idx') \in Nat
      BY JamAssumption, LenProperties DEF Inv, TypeOK, AreaType, FileTypes
    <3> QED
      BY <3>1, <3>2
  <2> QED
    BY <2>1
<1>4. \A q \in Procs : area'[q].locked => owner' = q
  BY JamAssumption DEF Inv, TypeOK
<1>5. TypeOK'
  BY <1>2, <1>3, <1>4 DEF TypeOK, FileTypes
<1> QED
  BY <1>1, <1>5 DEF Inv

(* The steps that leave the files alone.                                   *)
LEMMA SameFiles ==
  ASSUME Inv, UNCHANGED <<idx, hdrs, txt, stored>>
  PROVE  /\ FileTypes(idx', hdrs', txt', stored') /\ FilesInv'
         /\ Grown(idx, hdrs, txt, idx', hdrs', txt')
         /\ Kept(idx, hdrs, idx', hdrs')
<1>1. FileTypes(idx, hdrs, txt, stored)
  BY FilesTyped DEF Inv
<1>2. Len(idx) \in Nat /\ Len(hdrs) \in Nat /\ Len(txt) \in Nat
  BY <1>1, LenProperties DEF FileTypes
<1> QED
  BY <1>1, <1>2 DEF Inv, FilesInv, Grown, Kept

LEMMA QuietStep ==
  ASSUME SoleEditor, Inv, NEW p \in Procs,
         NEW a \in AreaType, NEW c \in MsghType, NEW k \in KillType,
         area' = [area EXCEPT ![p] = a], msgh' = [msgh EXCEPT ![p] = c],
         kill' = [kill EXCEPT ![p] = k],
         UNCHANGED <<idx, hdrs, txt, stored>>,
         active' \in 0 .. MaxIdx,
         owner' = owner \/ (owner \in {Nobody, p} /\ owner' \in {Nobody, p}),
         a.locked => owner' = p, a.num <= Len(idx), wild' \in BOOLEAN,
         TableOK(a, idx, hdrs, txt),
         p \in Editors => TableLive(a, idx, hdrs),
         HandleOK(p, a, c, k), KillOK(p, a, k)
  PROVE  Inv'
<1>1. /\ area' \in [Procs -> AreaType] /\ msgh' \in [Procs -> MsghType]
      /\ kill' \in [Procs -> KillType]
      /\ area'[p] = a /\ msgh'[p] = c /\ kill'[p] = k
      /\ \A q \in Procs \ {p} : /\ area'[q] = area[q] /\ msgh'[q] = msgh[q]
                                /\ kill'[q] = kill[q]
  BY DEF Inv, TypeOK
<1>2. ProcInv(p)'
  BY <1>1 DEF ProcInv
<1>3. /\ FileTypes(idx', hdrs', txt', stored') /\ FilesInv'
      /\ Grown(idx, hdrs, txt, idx', hdrs', txt')
      /\ Kept(idx, hdrs, idx', hdrs')
  BY SameFiles
<1> QED
  BY <1>1, <1>2, <1>3, OneStep

(* What is known of a process between two calls.                           *)
LEMMA ProcIs ==
  ASSUME Inv, NEW p \in Procs
  PROVE  /\ area[p] \in AreaType /\ msgh[p] \in MsghType /\ kill[p] \in KillType
         /\ area = [area EXCEPT ![p] = area[p]]
         /\ msgh = [msgh EXCEPT ![p] = msgh[p]]
         /\ kill = [kill EXCEPT ![p] = kill[p]]
         /\ TableOK(area[p], idx, hdrs, txt)
         /\ p \in Editors => TableLive(area[p], idx, hdrs)
         /\ HandleOK(p, area[p], msgh[p], kill[p])
         /\ KillOK(p, area[p], kill[p])
         /\ area[p].num <= Len(idx) /\ area[p].num \in Nat /\ Len(idx) \in Nat
         /\ area[p].locked => owner = p
         /\ active \in 0 .. MaxIdx /\ wild \in BOOLEAN
         /\ Len(idx) <= MaxIdx /\ MaxIdx \in Nat
<1>1. ProcInv(p) /\ TypeOK
  BY DEF Inv
<1>2. area[p] \in AreaType /\ msgh[p] \in MsghType /\ kill[p] \in KillType
  BY <1>1 DEF TypeOK
<1>3. /\ area = [area EXCEPT ![p] = area[p]]
      /\ msgh = [msgh EXCEPT ![p] = msgh[p]]
      /\ kill = [kill EXCEPT ![p] = kill[p]]
  BY <1>1 DEF TypeOK
<1>4. /\ area[p].num <= Len(idx) /\ Len(idx) \in Nat /\ active \in 0 .. MaxIdx
      /\ area[p].locked => owner = p
      /\ Len(idx) <= MaxIdx /\ wild \in BOOLEAN
  BY <1>1, LenProperties DEF TypeOK
<1>5. area[p].num \in Nat
  BY <1>2, JamAssumption DEF AreaType
<1> QED
  BY <1>1, <1>2, <1>3, <1>4, <1>5, JamAssumption DEF ProcInv

LEMMA ShutIs ==
  /\ Shut \in AreaType /\ Shut.read = FALSE /\ Shut.locked = FALSE
  /\ Shut.num = 0 /\ Shut.open = FALSE
BY JamAssumption DEF Shut, AreaType

LEMMA NoMsgIs == NoMsg \in MsghType /\ NoMsg.mode = "closed"
<1>1. Header(0, 0) \in HeaderType
  BY HeaderIs, JamAssumption
<1> QED
  BY <1>1, JamAssumption DEF NoMsg, MsghType

(* A process that has no area open has nothing else open either.           *)
LEMMA ClosedIs ==
  ASSUME Inv, NEW p \in Procs, ~area[p].open
  PROVE  msgh[p].mode \notin {"over", "write"} /\ kill[p] = NoKill
BY ProcIs DEF TableOK, HandleOK, KillOK

LEMMA OpenKeeps ==
  ASSUME SoleEditor, Inv, NEW p \in Procs, Open(p) PROVE Inv'
<1> DEFINE n == IF active > Len(idx) THEN Len(idx) ELSE active
           x == n # active
           a == [Shut EXCEPT !.open = TRUE, !.num = n, !.modified = x]
           b == IF n = 0 /\ idx # <<>> THEN ReadAll(a) ELSE a
<1>1. /\ area' = [area EXCEPT ![p] = b] /\ ~area[p].open
      /\ UNCHANGED <<idx, hdrs, txt, active, owner, msgh, kill, stored, wild>>
  BY DEF Open
<1>2. n \in 0 .. MaxIdx /\ n <= Len(idx) /\ x \in BOOLEAN
  BY ProcIs
<1> HIDE DEF n, x
<1>3. /\ a \in AreaType /\ a.open = TRUE /\ a.num = n
      /\ a.read = FALSE /\ a.locked = FALSE
  BY <1>2, ShutIs DEF AreaType
<1> HIDE DEF a
<1>4. /\ b \in AreaType /\ ~b.locked /\ b.num <= Len(idx)
      /\ TableOK(b, idx, hdrs, txt) /\ TableLive(b, idx, hdrs)
  <2>1. CASE n = 0 /\ idx # <<>>
    BY <1>3, <2>1, ReadAllIs DEF Inv
  <2>2. CASE ~(n = 0 /\ idx # <<>>)
    BY <1>2, <1>3, <2>2 DEF TableOK, TableLive
  <2> QED
    BY <2>1, <2>2
<1> HIDE DEF b
<1>5. HandleOK(p, b, msgh[p], kill[p]) /\ KillOK(p, b, kill[p])
  BY <1>1, ClosedIs DEF HandleOK, KillOK
<1> QED
  BY <1>1, <1>4, <1>5, ProcIs, QuietStep

LEMMA CloseKeeps ==
  ASSUME SoleEditor, Inv, NEW p \in Procs, Close(p) PROVE Inv'
<1>1. /\ area' = [area EXCEPT ![p] = Shut] /\ msgh[p].mode = "closed"
      /\ kill[p] = NoKill
      /\ owner' = owner \/ (owner = p /\ owner' = Nobody)
      /\ UNCHANGED <<idx, hdrs, txt, msgh, kill, stored, wild>>
  BY DEF Close, Idle
<1>2. active' \in 0 .. MaxIdx
  BY ProcIs DEF Close, AreaType
<1>3. /\ HandleOK(p, Shut, msgh[p], kill[p]) /\ KillOK(p, Shut, kill[p])
      /\ TableOK(Shut, idx, hdrs, txt) /\ TableLive(Shut, idx, hdrs)
  BY <1>1, ShutIs DEF HandleOK, KillOK, TableOK, TableLive
<1>4. wild' \in BOOLEAN /\ Shut.num <= Len(idx)
  BY <1>1, ProcIs, ShutIs
<1> QED
  BY <1>1, <1>2, <1>3, <1>4, ProcIs, ShutIs, QuietStep

(* The two steps that lock and unlock the area.                            *)
LEMMA LockKeeps ==
  ASSUME SoleEditor, Inv, NEW p \in Procs, LockArea(p) \/ UnlockArea(p)
  PROVE  Inv'
<1> DEFINE l == ~area[p].locked
           a == [area[p] EXCEPT !.locked = l]
<1>1. /\ area' = [area EXCEPT ![p] = a] /\ kill[p] = NoKill
      /\ UNCHANGED <<idx, hdrs, txt, active, msgh, kill, stored, wild>>
      /\ owner \in {Nobody, p} /\ owner' = IF l THEN p ELSE Nobody
  <2>1. CASE LockArea(p)
    BY <2>1 DEF LockArea, Idle
  <2>2. CASE UnlockArea(p)
    BY <2>2, ProcIs DEF UnlockArea, Idle
  <2> QED
    BY <2>1, <2>2
<1>2. /\ a \in AreaType /\ a.locked = l /\ a.num = area[p].num
      /\ a.table = area[p].table /\ a.read = area[p].read
      /\ a.open = area[p].open
  BY ProcIs DEF AreaType
<1> HIDE DEF a, l
<1>3. /\ TableOK(a, idx, hdrs, txt)
      /\ p \in Editors => TableLive(a, idx, hdrs)
  BY <1>2, ProcIs DEF TableOK, TableLive, Ascends
<1>4. HandleOK(p, a, msgh[p], kill[p]) /\ KillOK(p, a, kill[p])
  BY <1>1, <1>2, ProcIs DEF HandleOK, KillOK
<1>5. a.locked => owner' = p
  BY <1>1, <1>2
<1>6. owner' \in {Nobody, p} /\ wild' \in BOOLEAN /\ active' \in 0 .. MaxIdx
      /\ a.num <= Len(idx)
  BY <1>1, <1>2, ProcIs
<1> QED
  BY <1>1, <1>2, <1>3, <1>4, <1>5, <1>6, ProcIs, QuietStep

LEMMA HandleKeeps ==
  ASSUME SoleEditor, Inv, NEW p \in Procs, NewMsg(p) \/ CloseMsg(p)
  PROVE  Inv'
<1>1. PICK c \in MsghType : /\ msgh' = [msgh EXCEPT ![p] = c]
                            /\ c.mode \notin {"over", "write"}
  <2>1. CASE NewMsg(p)
    <3> DEFINE c == [NoMsg EXCEPT !.mode = "new"]
    <3>1. c \in MsghType /\ c.mode = "new"
      BY NoMsgIs DEF MsghType
    <3> QED
      BY <2>1, <3>1 DEF NewMsg
  <2>2. CASE CloseMsg(p)
    BY <2>2, NoMsgIs DEF CloseMsg
  <2> QED
    BY <2>1, <2>2
<1>2. UNCHANGED <<idx, hdrs, txt, active, owner, area, kill, stored, wild>>
  BY DEF NewMsg, CloseMsg
<1>3. HandleOK(p, area[p], c, kill[p])
  BY <1>1 DEF HandleOK
<1> QED
  BY <1>1, <1>2, <1>3, ProcIs, QuietStep

(* A slot of a table that is true.                                         *)
LEMMA SlotIs ==
  ASSUME NEW a \in AreaType, a.read, TableOK(a, idx, hdrs, txt),
         NEW n \in 1 .. a.num
  PROVE  /\ DOMAIN a.table = 1 .. a.num
         /\ a.table[n] \in SlotType /\ SlotIn(a.table[n], idx, hdrs, txt)
<1>1. a.table \in Seq(SlotType) /\ Len(a.table) = a.num
  BY DEF AreaType, TableOK
<1> QED
  BY <1>1 DEF TableOK

LEMMA OpenMsgKeeps ==
  ASSUME SoleEditor, Inv, NEW p \in Procs, NEW n \in Ids,
         NEW mode \in {"read", "over", "write"}, OpenMsg(p, n, mode)
  PROVE  Inv'
<1> DEFINE a == Table(area[p])
           e == a.table[n]
           here == Checked(a, n) /\ n \in DOMAIN a.table /\ mode # "read"
           d == [mode |-> mode, num |-> n, at |-> e.at, hdr |-> e.hdr,
                 copy |-> e.copy]
           c == IF here THEN d ELSE msgh[p]
<1>1. /\ area' = [area EXCEPT ![p] = a]
      /\ wild' = (wild \/ (Checked(a, n) /\ n \notin DOMAIN a.table))
      /\ UNCHANGED <<idx, hdrs, txt, active, owner, kill, stored>>
      /\ area[p].open /\ kill[p] = NoKill /\ msgh[p].mode = "closed"
      /\ mode # "read" => p \in Rewriters
  BY DEF OpenMsg, Idle
<1>2. msgh' = [msgh EXCEPT ![p] = c]
  BY ProcIs DEF OpenMsg
<1>3. /\ a \in AreaType /\ a.locked = area[p].locked /\ a.read
      /\ a.num <= Len(idx) /\ TableOK(a, idx, hdrs, txt)
      /\ p \in Editors => TableLive(a, idx, hdrs)
  BY <1>1, TableIs
<1> HIDE DEF a
<1>4. DOMAIN a.table = 1 .. a.num
  <2>1. a.table \in Seq(SlotType) /\ Len(a.table) = a.num
    BY <1>3 DEF AreaType, TableOK
  <2> QED
    BY <2>1
<1>5. ASSUME here
      PROVE  d \in MsghType /\ a.table[n] = Slot(d.at, d.hdr, d.copy)
  <2>1. e \in SlotType
    BY <1>3, <1>4, <1>5, SlotIs
  <2> HIDE DEF e
  <2>2. n \in 0 .. MaxIdx /\ e.at \in 0 .. MaxIdx /\ e.hdr \in 0 .. MaxHdr
        /\ e.copy \in HeaderType
    BY <2>1, JamAssumption DEF SlotType, Ids
  <2>3. d \in MsghType
    BY <1>5, <2>2 DEF MsghType
  <2>4. e = Slot(e.at, e.hdr, e.copy)
    BY <2>1 DEF SlotType, Slot
  <2> QED
    BY <2>3, <2>4 DEF e
<1>6. c \in MsghType
  BY <1>5, ProcIs
<1>7. HandleOK(p, a, c, kill[p])
  <2>1. CASE here
    BY <1>1, <1>3, <1>4, <1>5, <2>1 DEF HandleOK
  <2>2. CASE ~here
    BY <1>1, <2>2 DEF HandleOK
  <2> QED
    BY <2>1, <2>2
<1>8. KillOK(p, a, kill[p]) /\ wild' \in BOOLEAN /\ (a.locked => owner' = p)
  BY <1>1, <1>3, <1>4, ProcIs DEF KillOK
<1> HIDE DEF c
<1> QED
  BY <1>1, <1>2, <1>3, <1>6, <1>7, <1>8, ProcIs, QuietStep

---------------------------------------------------------------------------
(***************************************************************************)
(* Deleting.                                                               *)
(***************************************************************************)
LEMMA KillMsgKeeps ==
  ASSUME SoleEditor, Polite, Inv, NEW p \in Procs, NEW n \in Ids,
         KillMsg(p, n)
  PROVE  Inv'
<1> DEFINE a == Table(area[p])
           h == a.table[n].hdr
           d == [num |-> n, hdr |-> h, copy |-> hdrs[h]]
           here == n \in DOMAIN a.table /\ ~hdrs[h].del
           k == IF here THEN d ELSE kill[p]
<1>1. /\ area[p].open /\ kill[p] = NoKill /\ p \in Killers
      /\ msgh[p].mode \notin {"over", "write"} /\ ~area[p].locked
      /\ area' = [area EXCEPT ![p] = a]
      /\ UNCHANGED <<idx, hdrs, txt, active, owner, msgh, stored>>
  BY DEF KillMsg, Idle, MayKill
<1>2. /\ kill' = [kill EXCEPT ![p] = k]
      /\ wild' = wild \/ wild' = TRUE
  BY ProcIs DEF KillMsg
<1>3. /\ a \in AreaType /\ a.locked = area[p].locked /\ a.read
      /\ a.num <= Len(idx) /\ TableOK(a, idx, hdrs, txt)
      /\ TableLive(a, idx, hdrs)
  BY <1>1, TableIs DEF Editors
<1> HIDE DEF a
<1>4. DOMAIN a.table = 1 .. a.num
  <2>1. a.table \in Seq(SlotType) /\ Len(a.table) = a.num
    BY <1>3 DEF AreaType, TableOK
  <2> QED
    BY <2>1
<1>5. ASSUME here
      PROVE  /\ d \in KillType /\ n \in 1 .. a.num
             /\ a.table[n].hdr = d.hdr /\ a.table[n].copy = d.copy
  <2>1. n \in 1 .. a.num
    BY <1>4, <1>5
  <2>2. /\ a.table[n] \in SlotType /\ SlotIn(a.table[n], idx, hdrs, txt)
        /\ SlotLive(a.table[n], idx, hdrs)
    BY <1>3, <2>1, SlotIs DEF TableLive
  <2>3. n \in 0 .. MaxIdx /\ h \in 0 .. MaxHdr /\ hdrs[h] \in HeaderType
    BY <2>2, JamAssumption DEF SlotType, SlotLive, Ids
  <2> QED
    BY <2>1, <2>2, <2>3 DEF KillType, SlotLive
<1>6. k \in KillType /\ KillOK(p, a, k) /\ HandleOK(p, a, msgh[p], k)
  <2>1. CASE here
    BY <1>1, <1>3, <1>5, <2>1 DEF KillOK, HandleOK
  <2>2. CASE ~here
    BY <1>1, <2>2, ProcIs DEF KillOK, HandleOK
  <2> QED
    BY <2>1, <2>2
<1> HIDE DEF k, d, here
<1> QED
  BY <1>1, <1>2, <1>3, <1>6, ProcIs, QuietStep

LEMMA NoKillIs == NoKill \in KillType
<1>1. Header(0, 0) \in HeaderType
  BY HeaderIs, JamAssumption
<1> QED
  BY <1>1, JamAssumption DEF NoKill, KillType

LEMMA KillBusyKeeps ==
  ASSUME SoleEditor, Inv, NEW p \in Procs, KillBusy(p) PROVE Inv'
<1>1. /\ kill' = [kill EXCEPT ![p] = NoKill] /\ kill[p] # NoKill
      /\ UNCHANGED <<idx, hdrs, txt, active, owner, area, msgh, stored, wild>>
  BY DEF KillBusy
<1>2. HandleOK(p, area[p], msgh[p], NoKill) /\ KillOK(p, area[p], NoKill)
  BY <1>1, ProcIs DEF HandleOK, KillOK
<1> QED
  BY <1>1, <1>2, NoKillIs, ProcIs, QuietStep

LEMMA KillUnderLockKeeps ==
  ASSUME SoleEditor, Inv, NEW p \in Procs, KillUnderLock(p) PROVE Inv'
<1> DEFINE a == area[p]
           k == kill[p]
           e == a.table[k.num]
           t == ActiveMsgs'
           n == Len(t)
           b == [a EXCEPT !.read = TRUE, !.modified = TRUE, !.table = t,
                          !.num = n]
<1>1. /\ k # NoKill /\ owner \in {Nobody, p} /\ owner' = Nobody
      /\ area' = [area EXCEPT ![p] = b] /\ kill' = [kill EXCEPT ![p] = NoKill]
      /\ UNCHANGED <<txt, active, msgh, wild>>
      /\ idx' = [idx EXCEPT ![e.at] = Gone]
      /\ hdrs' = [hdrs EXCEPT ![k.hdr] = Deleted(k.copy)]
      /\ stored' = [stored EXCEPT ![e.at] = NoText]
  BY DEF KillUnderLock, Removed
<1>2. /\ p \in Killers /\ ~a.locked /\ a.read /\ k.num \in 1 .. a.num
      /\ e.hdr = k.hdr /\ e.copy = k.copy /\ a.open
  BY <1>1, ProcIs DEF KillOK, TableOK
<1>3. /\ e \in SlotType /\ SlotIn(e, idx, hdrs, txt) /\ SlotLive(e, idx, hdrs)
  BY <1>2, ProcIs, SlotIs DEF Editors, TableLive
<1>4. FileTypes(idx, hdrs, txt, stored) /\ FilesOK(idx, hdrs, txt, stored)
  BY FilesTyped DEF Inv, FilesInv
<1>5. /\ FileTypes(idx', hdrs', txt', stored')
      /\ FilesOK(idx', hdrs', txt', stored')
      /\ Grown(idx, hdrs, txt, idx', hdrs', txt')
  BY <1>1, <1>2, <1>3, <1>4, KilledFiles
<1>6. /\ t \in Seq(SlotType) /\ n \in Nat /\ n <= Len(idx')
      /\ \A i, j \in 1 .. n : i < j => t[i].at < t[j].at
      /\ \A i \in 1 .. n : /\ SlotIn(t[i], idx', hdrs', txt')
                           /\ SlotLive(t[i], idx', hdrs')
  <2>1. DOMAIN idx' = 1 .. Len(idx')
    BY <1>5 DEF FileTypes
  <2>2. t = ActiveOf(idx', hdrs')
    BY <2>1 DEF ActiveMsgs, ActiveOf, Live, Left
  <2> QED
    BY <1>5, <2>2, ActiveIs
<1>7. n \in 0 .. MaxIdx
  BY <1>5, <1>6, JamAssumption, LenProperties DEF FileTypes
<1> HIDE DEF t, e, k
<1>8. n = Len(t)
  OBVIOUS
<1> HIDE DEF n
<1>9. /\ b \in AreaType /\ b.read = TRUE /\ b.num = n /\ b.table = t
      /\ b.open = a.open /\ b.locked = a.locked
  BY <1>6, <1>7, ProcIs DEF AreaType
<1> HIDE DEF b, a
<1>10. /\ TableOK(b, idx', hdrs', txt') /\ TableLive(b, idx', hdrs')
  BY <1>2, <1>6, <1>8, <1>9 DEF TableOK, TableLive, Ascends
<1>11. /\ area' \in [Procs -> AreaType] /\ kill' \in [Procs -> KillType]
       /\ area'[p] = b /\ kill'[p] = NoKill
       /\ \A q \in Procs \ {p} : area'[q] = area[q] /\ kill'[q] = kill[q]
  BY <1>1, <1>9, NoKillIs DEF Inv, TypeOK
<1>12. HandleOK(p, b, msgh[p], NoKill) /\ KillOK(p, b, NoKill)
  BY <1>1, ProcIs DEF HandleOK, KillOK, k
<1>13. ProcInv(p)'
  BY <1>1, <1>10, <1>11, <1>12 DEF ProcInv
<1>14. p \in Editors /\ wild' \in BOOLEAN /\ active' \in 0 .. MaxIdx
       /\ msgh' \in [Procs -> MsghType] /\ FilesInv'
  BY <1>1, <1>2, <1>5, ProcIs DEF Editors, Inv, TypeOK, FilesInv
<1>15. ~area'[p].locked /\ area'[p].num <= Len(idx')
  BY <1>2, <1>6, <1>9, <1>11 DEF a
<1> QED
  BY <1>1, <1>5, <1>11, <1>13, <1>14, <1>15, OneStep
---------------------------------------------------------------------------
(***************************************************************************)
(* Writing.                                                                *)
(***************************************************************************)
(* A failed write leaves the files as they were.                           *)
LEMMA WriteNewFailsKeeps ==
  ASSUME SoleEditor, Inv, NEW p \in Procs, NEW stage \in Stages,
         WriteNewFails(p, stage)
  PROVE  Inv'
<1> DEFINE a == [area[p] EXCEPT !.modified = TRUE]
<1>1. /\ idx \in Seq(0 .. MaxHdr) /\ hdrs \in Seq(HeaderType)
      /\ txt \in Seq(Ids)
  BY DEF Inv, TypeOK
<1>2. UNCHANGED <<idx, hdrs, txt>>
  <2>1. txt' = SubSeq(Append(txt, Len(idx) + 1), 1, Len(txt))
    BY DEF WriteNewFails, CutBack, HalfWritten
  <2>2. /\ stage = "text" => hdrs' = hdrs
        /\ stage # "text" =>
             hdrs' = SubSeq(Append(hdrs, Header(Len(idx) + 1, Len(txt) + 1)),
                            1, Len(hdrs))
    BY DEF WriteNewFails, CutBack, HalfWritten
  <2>3. /\ stage = "index" =>
             idx' = SubSeq(Append(idx, Len(hdrs) + 1), 1, Len(idx))
        /\ stage # "index" => idx' = idx
    BY DEF WriteNewFails, CutBack, HalfWritten
  <2>4. txt' = txt
    BY <1>1, <2>1, CutIs
  <2>5. hdrs' = hdrs
    BY <1>1, <2>2, CutIs
  <2>6. idx' = idx
    BY <1>1, <2>3, CutIs
  <2> QED
    BY <2>4, <2>5, <2>6
<1>3. /\ owner \in {Nobody, p} /\ owner' = p /\ kill[p] = NoKill
      /\ area' = [area EXCEPT ![p] = a]
      /\ UNCHANGED <<active, msgh, kill, stored, wild>>
  BY ProcIs DEF WriteNewFails, MayWrite, Idle
<1>4. /\ a \in AreaType /\ a.locked = area[p].locked /\ a.num = area[p].num
      /\ a.table = area[p].table /\ a.read = area[p].read
      /\ a.open = area[p].open
  BY ProcIs DEF AreaType
<1> HIDE DEF a
<1>5. /\ TableOK(a, idx, hdrs, txt)
      /\ p \in Editors => TableLive(a, idx, hdrs)
  BY <1>4, ProcIs DEF TableOK, TableLive, Ascends
<1>6. HandleOK(p, a, msgh[p], kill[p]) /\ KillOK(p, a, kill[p])
  BY <1>3, <1>4, ProcIs DEF HandleOK, KillOK
<1>7. wild' \in BOOLEAN /\ active' \in 0 .. MaxIdx /\ a.num <= Len(idx)
  BY <1>3, <1>4, ProcIs
<1> QED
  BY <1>2, <1>3, <1>4, <1>5, <1>6, <1>7, ProcIs, QuietStep

(* A new message gets the last slot of a table that was read.              *)
LEMMA WriteNewKeeps ==
  ASSUME SoleEditor, Inv, NEW p \in Procs, WriteNew(p) PROVE Inv'
<1> DEFINE a == area[p]
           m == Len(idx) + 1
           h == Len(hdrs) + 1
           r == Header(m, Len(txt) + 1)
           e == Slot(m, h, r)
           n == a.num + 1
           t == IF a.read THEN Append(a.table, e) ELSE a.table
           b == [a EXCEPT !.num = n, !.modified = TRUE, !.table = t]
           c == [msgh[p] EXCEPT !.mode = "done"]
<1>1. /\ a.open /\ kill[p] = NoKill /\ owner \in {Nobody, p}
      /\ m <= MaxIdx /\ h <= MaxHdr /\ Len(txt) < MaxTxt
      /\ txt' = Append(txt, m) /\ hdrs' = Append(hdrs, r)
      /\ idx' = Append(idx, h) /\ stored' = [stored EXCEPT ![m] = Len(txt) + 1]
      /\ owner' = Unlocked(p)
      /\ UNCHANGED <<active, kill, wild>>
  BY DEF WriteNew, MayWrite, Idle
<1>2. area' = [area EXCEPT ![p] = b] /\ msgh' = [msgh EXCEPT ![p] = c]
  BY ProcIs DEF WriteNew
<1>3. FileTypes(idx, hdrs, txt, stored) /\ FilesOK(idx, hdrs, txt, stored)
  BY FilesTyped DEF Inv, FilesInv
<1>4. /\ FileTypes(idx', hdrs', txt', stored')
      /\ FilesOK(idx', hdrs', txt', stored')
      /\ Grown(idx, hdrs, txt, idx', hdrs', txt')
      /\ Kept(idx, hdrs, idx', hdrs')
      /\ SlotIn(e, idx', hdrs', txt') /\ SlotLive(e, idx', hdrs')
      /\ e \in SlotType
  BY <1>1, <1>3, NewFiles
<1>5. /\ Len(idx) \in Nat /\ Len(hdrs) \in Nat /\ Len(txt) \in Nat
      /\ Len(idx') \in Nat /\ Len(hdrs') \in Nat /\ Len(txt') \in Nat
      /\ Len(idx') = m
  <2>1. /\ idx \in Seq(0 .. MaxHdr) /\ hdrs \in Seq(HeaderType)
        /\ txt \in Seq(Ids)
        /\ idx' \in Seq(0 .. MaxHdr) /\ hdrs' \in Seq(HeaderType)
        /\ txt' \in Seq(Ids)
    BY <1>3, <1>4 DEF FileTypes
  <2>2. Len(idx') = m
    BY <1>1, <2>1, AppendProperties
  <2> QED
    BY <2>1, <2>2, LenProperties
<1>6. e.at = m
  BY DEF Slot
<1> HIDE DEF e, r
<1>7. n \in 0 .. MaxIdx /\ n <= Len(idx')
  <2>1. a.num \in Nat /\ a.num <= Len(idx)
    BY ProcIs
  <2>2. m <= MaxIdx /\ MaxIdx \in Nat
    BY <1>1, JamAssumption
  <2> HIDE DEF a
  <2> QED
    BY <1>5, <2>1, <2>2
<1>8. t \in Seq(SlotType)
  <2>1. a.table \in Seq(SlotType)
    BY ProcIs DEF AreaType
  <2> QED
    BY <1>4, <2>1
<1>9. a.read => /\ Len(a.table) = a.num /\ Len(t) = n /\ t[n] = e
                /\ \A k \in 1 .. a.num : t[k] = a.table[k]
  <2>1. a.table \in Seq(SlotType) /\ (a.read => Len(a.table) = a.num)
    BY ProcIs DEF AreaType, TableOK
  <2> QED
    BY <1>4, <2>1
<1>10. a.read => \A k \in 1 .. a.num :
         /\ SlotIn(a.table[k], idx, hdrs, txt)
         /\ SlotIn(t[k], idx', hdrs', txt')
         /\ t[k].at < m
         /\ p \in Editors => SlotLive(t[k], idx', hdrs')
  <2> SUFFICES ASSUME a.read, NEW k \in 1 .. a.num
               PROVE  /\ SlotIn(a.table[k], idx, hdrs, txt)
                      /\ SlotIn(t[k], idx', hdrs', txt')
                      /\ t[k].at < m
                      /\ p \in Editors => SlotLive(t[k], idx', hdrs')
    OBVIOUS
  <2>1. SlotIn(a.table[k], idx, hdrs, txt) /\ t[k] = a.table[k]
    <3>1. t[k] = a.table[k]
      BY <1>9
    <3>2. SlotIn(a.table[k], idx, hdrs, txt)
      BY ProcIs DEF TableOK
    <3> QED
      BY <3>1, <3>2
  <2>2. SlotIn(a.table[k], idx', hdrs', txt')
    BY <1>4, <1>5, <2>1, SlotStays
  <2>3. a.table[k].at < m
    <3>1. a.table[k].at \in 1 .. Len(idx)
      BY <2>1 DEF SlotIn
    <3> QED
      BY <1>5, <3>1
  <2>4. p \in Editors => SlotLive(a.table[k], idx, hdrs)
    BY ProcIs DEF TableLive
  <2>5. p \in Editors => SlotLive(a.table[k], idx', hdrs')
    BY <1>4, <2>1, <2>4, LiveStays
  <2> QED
    BY <2>1, <2>2, <2>3, <2>5
<1> HIDE DEF t, m, n
<1>11. /\ b \in AreaType /\ b.read = a.read /\ b.num = n /\ b.table = t
       /\ b.open = a.open /\ b.locked = a.locked
  BY <1>7, <1>8, ProcIs DEF AreaType
<1> HIDE DEF b
<1>12. a.num \in Nat /\ n = a.num + 1
  BY ProcIs DEF n
<1>13. TableOK(b, idx', hdrs', txt')
  <2>1. a.read => \A k \in 1 .. n : SlotIn(t[k], idx', hdrs', txt')
    BY <1>4, <1>9, <1>10, <1>12
  <2>2. a.read => \A i, j \in 1 .. n : i < j => t[i].at < t[j].at
    <3> SUFFICES ASSUME a.read, NEW i \in 1 .. n, NEW j \in 1 .. n, i < j
                 PROVE  t[i].at < t[j].at
      OBVIOUS
    <3>1. i \in 1 .. a.num /\ (j = n \/ j \in 1 .. a.num)
      BY <1>12
    <3>2. CASE j = n
      BY <1>6, <1>9, <1>10, <3>1, <3>2
    <3>3. CASE j \in 1 .. a.num
      BY <1>9, <3>1, <3>3, ProcIs DEF TableOK, Ascends
    <3> QED
      BY <3>1, <3>2, <3>3
  <2> QED
    BY <1>1, <1>9, <1>11, <2>1, <2>2 DEF TableOK, Ascends
<1>14. p \in Editors => TableLive(b, idx', hdrs')
  BY <1>4, <1>9, <1>10, <1>11, <1>12 DEF TableLive
<1>15. c \in MsghType /\ c.mode = "done"
  BY ProcIs DEF MsghType
<1> HIDE DEF c
<1>16. HandleOK(p, b, c, kill[p]) /\ KillOK(p, b, kill[p])
  BY <1>1, <1>15 DEF HandleOK, KillOK
<1> HIDE DEF a
<1>17. /\ area' \in [Procs -> AreaType] /\ msgh' \in [Procs -> MsghType]
       /\ kill' \in [Procs -> KillType]
       /\ area'[p] = b /\ msgh'[p] = c /\ kill'[p] = kill[p]
       /\ \A q \in Procs \ {p} : area'[q] = area[q] /\ msgh'[q] = msgh[q]
                                 /\ kill'[q] = kill[q]
  BY <1>1, <1>2, <1>11, <1>15 DEF Inv, TypeOK
<1>18. ProcInv(p)'
  BY <1>13, <1>14, <1>16, <1>17 DEF ProcInv
<1>19. /\ area'[p].locked => owner' = p
       /\ owner' = owner \/ (owner \in {Nobody, p} /\ owner' \in {Nobody, p})
  BY <1>1, <1>11, <1>17, ProcIs DEF Unlocked, a
<1>20. wild' \in BOOLEAN /\ active' \in 0 .. MaxIdx /\ FilesInv'
  BY <1>1, <1>4, ProcIs DEF FilesInv
<1>21. area'[p].num <= Len(idx')
  BY <1>7, <1>11, <1>17
<1> QED
  BY <1>4, <1>17, <1>18, <1>19, <1>20, <1>21, OneStep

(* A sequence with one element changed, and one more behind it.            *)
LEMMA ChangedIs ==
  ASSUME NEW S, NEW s \in Seq(S), NEW d \in 1 .. Len(s), NEW v \in S
  PROVE  LET g == [s EXCEPT ![d] = v]
         IN /\ g \in Seq(S) /\ Len(g) = Len(s) /\ g[d] = v
            /\ \A k \in 1 .. Len(s) : k # d => g[k] = s[k]
OBVIOUS

LEMMA LongerIs ==
  ASSUME NEW S, NEW s \in Seq(S), NEW v \in S
  PROVE  LET g == Append(s, v)
         IN /\ g \in Seq(S) /\ Len(g) = Len(s) + 1 /\ g[Len(s) + 1] = v
            /\ \A k \in 1 .. Len(s) : g[k] = s[k]
OBVIOUS

LEMMA MovedIs ==
  ASSUME NEW S, NEW s \in Seq(S), NEW d \in 1 .. Len(s), NEW v \in S,
         NEW w \in S
  PROVE  LET g == Append([s EXCEPT ![d] = v], w)
         IN /\ g \in Seq(S) /\ Len(g) = Len(s) + 1 /\ g[Len(s) + 1] = w
            /\ g[d] = v /\ Len(s) + 1 # d
            /\ \A k \in 1 .. Len(s) : k # d => g[k] = s[k]
            /\ \A k \in 1 .. Len(g) : k \in 1 .. Len(s) \/ k = Len(s) + 1
<1> DEFINE h == [s EXCEPT ![d] = v]
           g == Append(h, w)
<1>1. /\ h \in Seq(S) /\ Len(h) = Len(s) /\ h[d] = v
      /\ \A k \in 1 .. Len(s) : k # d => h[k] = s[k]
  BY ChangedIs
<1> HIDE DEF h
<1>2. /\ g \in Seq(S) /\ Len(g) = Len(h) + 1 /\ g[Len(h) + 1] = w
      /\ \A k \in 1 .. Len(h) : g[k] = h[k]
  BY <1>1, LongerIs
<1> HIDE DEF g
<1>3. Len(s) \in Nat
  BY LenProperties
<1>4. g[d] = v /\ Len(s) + 1 # d
  BY <1>1, <1>2, <1>3
<1>5. \A k \in 1 .. Len(s) : k # d => g[k] = s[k]
  BY <1>1, <1>2
<1>6. \A k \in 1 .. Len(g) : k \in 1 .. Len(s) \/ k = Len(s) + 1
  BY <1>1, <1>2, <1>3
<1> QED
  BY <1>1, <1>2, <1>4, <1>5, <1>6 DEF g, h

(* A message that is open for rewriting is live, and its slot says where.  *)
LEMMA HandleIs ==
  ASSUME Inv, NEW p \in Procs, msgh[p].mode \in {"over", "write"}
  PROVE  LET a == area[p]
             c == msgh[p]
             e == Slot(c.at, c.hdr, c.copy)
         IN /\ p \in Editors /\ kill[p] = NoKill /\ a.read /\ a.open
            /\ c.num \in 1 .. a.num /\ a.table[c.num] = e
            /\ DOMAIN a.table = 1 .. a.num
            /\ e \in SlotType /\ SlotIn(e, idx, hdrs, txt)
            /\ SlotLive(e, idx, hdrs)
            /\ e.at = c.at /\ e.hdr = c.hdr /\ e.copy = c.copy
            /\ c.copy.at = c.at /\ stored[c.at] = c.copy.txt
            /\ c.copy.txt \in 1 .. Len(txt)
<1> DEFINE a == area[p]
           c == msgh[p]
           e == Slot(c.at, c.hdr, c.copy)
<1>1. /\ p \in Rewriters /\ kill[p] = NoKill /\ a.read
      /\ c.num \in 1 .. a.num /\ a.table[c.num] = e /\ a.open
  BY ProcIs DEF HandleOK, TableOK
<1>2. /\ DOMAIN a.table = 1 .. a.num /\ e \in SlotType
      /\ SlotIn(e, idx, hdrs, txt) /\ SlotLive(e, idx, hdrs)
  BY <1>1, ProcIs, SlotIs DEF Editors, TableLive
<1>3. e.at = c.at /\ e.hdr = c.hdr /\ e.copy = c.copy
  BY DEF Slot
<1> HIDE DEF e
<1>4. c.copy.at = c.at /\ c.copy.txt \in 1 .. Len(txt)
  BY <1>2, <1>3 DEF SlotIn
<1>5. stored[c.at] = c.copy.txt
  <2>1. c.at \in 1 .. Len(idx) /\ idx[c.at] = c.hdr /\ hdrs[c.hdr] = c.copy
    BY <1>2, <1>3 DEF SlotIn, SlotLive
  <2>2. c.hdr # Gone
    BY <1>2, <1>3 DEF SlotType, Gone
  <2> QED
    BY <2>1, <2>2 DEF Inv, FilesInv, FilesOK
<1> QED
  BY <1>1, <1>2, <1>3, <1>4, <1>5 DEF Editors, e

(* The message of the handle has its header at i and its text at j now.    *)
LEMMA RewriteKeeps ==
  ASSUME SoleEditor, Inv, NEW p \in Procs, msgh[p].mode \in {"over", "write"},
         NEW i, NEW j, NEW c \in MsghType,
         FileTypes(idx', hdrs', txt', stored'), FilesInv',
         Grown(idx, hdrs, txt, idx', hdrs', txt'),
         LET d == Slot(msgh[p].at, i, Header(msgh[p].at, j))
         IN /\ d \in SlotType /\ SlotIn(d, idx', hdrs', txt')
            /\ SlotLive(d, idx', hdrs')
            /\ area' = [area EXCEPT ![p] = [area[p] EXCEPT
                           !.modified = TRUE, !.table[msgh[p].num] = d]]
            /\ c.mode \in {"over", "write"} =>
                 c.num = msgh[p].num /\ Slot(c.at, c.hdr, c.copy) = d,
         \A d \in SlotType :
           SlotIn(d, idx, hdrs, txt) /\ SlotLive(d, idx, hdrs)
             /\ d.at # msgh[p].at => SlotLive(d, idx', hdrs'),
         msgh' = [msgh EXCEPT ![p] = c],
         owner \in {Nobody, p}, owner' = Unlocked(p),
         UNCHANGED <<active, kill, wild>>
  PROVE  Inv'
<1> DEFINE a == area[p]
           n == msgh[p].num
           d == Slot(msgh[p].at, i, Header(msgh[p].at, j))
           t == [a.table EXCEPT ![n] = d]
           b == [a EXCEPT !.modified = TRUE, !.table = t]
<1>1. /\ p \in Editors /\ kill[p] = NoKill /\ a.read /\ a.open
      /\ n \in 1 .. a.num /\ DOMAIN a.table = 1 .. a.num
      /\ a.table[n].at = msgh[p].at
      /\ a \in AreaType /\ a.num \in Nat
  BY HandleIs, ProcIs
<1>2. /\ d \in SlotType /\ SlotIn(d, idx', hdrs', txt')
      /\ SlotLive(d, idx', hdrs') /\ d.at = msgh[p].at
      /\ c.mode \in {"over", "write"} =>
           c.num = n /\ Slot(c.at, c.hdr, c.copy) = d
  BY DEF Slot
<1>3. area' = [area EXCEPT ![p] = b]
  BY <1>1 DEF AreaType
<1> HIDE DEF d, n
<1>4. /\ a.table \in Seq(SlotType) /\ Len(a.table) = a.num
      /\ Ascends(a)
  BY <1>1, ProcIs DEF AreaType, TableOK
<1>5. /\ t \in Seq(SlotType) /\ Len(t) = a.num /\ t[n] = d
      /\ \A k \in 1 .. a.num : k # n => t[k] = a.table[k]
  BY <1>1, <1>2, <1>4, ChangedIs
<1> HIDE DEF t
<1>6. /\ b \in AreaType /\ b.read = TRUE /\ b.num = a.num /\ b.table = t
      /\ b.open = TRUE /\ b.locked = a.locked
  BY <1>1, <1>5 DEF AreaType
<1> HIDE DEF b
<1>7. \A k \in 1 .. a.num : t[k].at = a.table[k].at
  BY <1>1, <1>2, <1>5
<1>8. \A k \in 1 .. a.num : k # n => a.table[k].at # a.table[n].at
  <2> SUFFICES ASSUME NEW k \in 1 .. a.num, k # n
               PROVE  a.table[k].at # a.table[n].at
    OBVIOUS
  <2>1. a.table[k].at \in Int /\ a.table[n].at \in Int
    <3>1. a.table[k] \in SlotType /\ a.table[n] \in SlotType
      BY <1>1, <1>4, ElementOfSeq
    <3> QED
      BY <3>1 DEF SlotType, Ids
  <2>2. k < n \/ n < k
    BY <1>1
  <2> QED
    BY <1>1, <1>4, <2>1, <2>2 DEF Ascends
<1>9. /\ Len(idx) \in Nat /\ Len(hdrs) \in Nat /\ Len(txt) \in Nat
      /\ Len(idx') \in Nat /\ Len(hdrs') \in Nat /\ Len(txt') \in Nat
  <2>1. /\ idx \in Seq(0 .. MaxHdr) /\ hdrs \in Seq(HeaderType)
        /\ txt \in Seq(Ids)
        /\ idx' \in Seq(0 .. MaxHdr) /\ hdrs' \in Seq(HeaderType)
        /\ txt' \in Seq(Ids)
    BY DEF Inv, TypeOK, FileTypes
  <2> QED
    BY <2>1, LenProperties
<1>10. ASSUME NEW k \in 1 .. a.num
       PROVE  SlotIn(t[k], idx', hdrs', txt') /\ SlotLive(t[k], idx', hdrs')
  <2>1. CASE k = n
    BY <1>2, <1>5, <2>1
  <2>2. CASE k # n
    <3>1. /\ a.table[k] \in SlotType /\ SlotIn(a.table[k], idx, hdrs, txt)
          /\ SlotLive(a.table[k], idx, hdrs)
      BY <1>1, ProcIs, SlotIs DEF TableLive
    <3>2. a.table[k].at # msgh[p].at
      BY <1>1, <1>8, <2>2
    <3>3. SlotIn(a.table[k], idx', hdrs', txt')
      BY <1>9, <3>1, SlotStays
    <3> QED
      BY <1>5, <2>2, <3>1, <3>2, <3>3
  <2> QED
    BY <2>1, <2>2
<1>11. Ascends(b)
  BY <1>4, <1>6, <1>7 DEF Ascends
<1>12. TableOK(b, idx', hdrs', txt') /\ TableLive(b, idx', hdrs')
  BY <1>5, <1>6, <1>10, <1>11 DEF TableOK, TableLive
<1>13. HandleOK(p, b, c, kill[p])
  <2>1. c.mode \in {"over", "write"} => p \in Rewriters
    BY ProcIs DEF HandleOK
  <2> QED
    BY <1>1, <1>2, <1>5, <1>6, <2>1 DEF HandleOK
<1>14. KillOK(p, b, kill[p])
  BY <1>1 DEF KillOK
<1> HIDE DEF a
<1>15. /\ area' \in [Procs -> AreaType] /\ msgh' \in [Procs -> MsghType]
       /\ kill' \in [Procs -> KillType]
       /\ area'[p] = b /\ msgh'[p] = c /\ kill'[p] = kill[p]
       /\ \A q \in Procs \ {p} : area'[q] = area[q] /\ msgh'[q] = msgh[q]
                                 /\ kill'[q] = kill[q]
  BY <1>3, <1>6 DEF Inv, TypeOK
<1>16. ProcInv(p)'
  BY <1>12, <1>13, <1>14, <1>15 DEF ProcInv
<1>17. /\ area'[p].locked => owner' = p
       /\ owner' = owner \/ (owner \in {Nobody, p} /\ owner' \in {Nobody, p})
  BY <1>6, <1>15, ProcIs DEF Unlocked, a
<1>18. wild' \in BOOLEAN /\ active' \in 0 .. MaxIdx
  BY ProcIs
<1>19. area'[p].num <= Len(idx')
  <2>1. a.num <= Len(idx) /\ area'[p].num = a.num
    BY <1>6, <1>15, ProcIs DEF a
  <2>2. Len(idx) <= Len(idx')
    BY DEF Grown
  <2> QED
    BY <1>1, <1>9, <2>1, <2>2
<1> QED
  BY <1>1, <1>15, <1>16, <1>17, <1>18, <1>19, OneStep

(* What RewrittenFiles says of the message of a handle.                    *)
LEMMA HandleRewritten ==
  ASSUME Inv, NEW p \in Procs, msgh[p].mode \in {"over", "write"},
         FileTypes(idx', hdrs', txt', stored'), NEW i, NEW j,
         Rewritten(idx, hdrs, txt, stored, idx', hdrs', txt', stored',
                   Slot(msgh[p].at, msgh[p].hdr, msgh[p].copy), i, j)
  PROVE  /\ FilesInv' /\ Grown(idx, hdrs, txt, idx', hdrs', txt')
         /\ LET d == Slot(msgh[p].at, i, Header(msgh[p].at, j))
            IN /\ d \in SlotType /\ SlotIn(d, idx', hdrs', txt')
               /\ SlotLive(d, idx', hdrs')
         /\ \A d \in SlotType :
              SlotIn(d, idx, hdrs, txt) /\ SlotLive(d, idx, hdrs)
                /\ d.at # msgh[p].at => SlotLive(d, idx', hdrs')
<1> DEFINE e == Slot(msgh[p].at, msgh[p].hdr, msgh[p].copy)
<1>1. /\ e \in SlotType /\ SlotIn(e, idx, hdrs, txt) /\ SlotLive(e, idx, hdrs)
      /\ e.at = msgh[p].at
  BY HandleIs
<1>2. FileTypes(idx, hdrs, txt, stored) /\ FilesOK(idx, hdrs, txt, stored)
  BY FilesTyped DEF Inv, FilesInv
<1>3. Rewritten(idx, hdrs, txt, stored, idx', hdrs', txt', stored', e, i, j)
  OBVIOUS
<1> HIDE DEF e
<1>4. /\ FilesOK(idx', hdrs', txt', stored')
      /\ Grown(idx, hdrs, txt, idx', hdrs', txt')
      /\ LET f == Slot(e.at, i, Header(e.at, j))
         IN /\ f \in SlotType /\ SlotIn(f, idx', hdrs', txt')
            /\ SlotLive(f, idx', hdrs')
      /\ \A f \in SlotType :
           SlotIn(f, idx, hdrs, txt) /\ SlotLive(f, idx, hdrs) /\ f.at # e.at
             => SlotLive(f, idx', hdrs')
  BY <1>1, <1>2, <1>3, RewrittenFiles
<1> QED
  BY <1>1, <1>4 DEF FilesInv

LEMMA WriteOverKeeps ==
  ASSUME SoleEditor, Inv, NEW p \in Procs, WriteOver(p) PROVE Inv'
<1> DEFINE a == area[p]
           c == msgh[p]
           e == Slot(c.at, c.hdr, c.copy)
           i == Len(hdrs) + 1
           j == Len(txt) + 1
           r == Header(c.at, j)
           d == Slot(c.at, i, r)
           b == [c EXCEPT !.mode = "done", !.hdr = i]
<1>1. /\ owner \in {Nobody, p} /\ owner' = Unlocked(p) /\ c.mode = "over"
      /\ i <= MaxHdr /\ Len(txt) < MaxTxt
      /\ UNCHANGED <<active, kill>>
  BY DEF WriteOver, MayWrite
<1>2. /\ p \in Editors /\ c.num \in 1 .. a.num /\ a.table[c.num] = e
      /\ DOMAIN a.table = 1 .. a.num
      /\ e \in SlotType /\ SlotIn(e, idx, hdrs, txt) /\ SlotLive(e, idx, hdrs)
      /\ e.at = c.at /\ e.hdr = c.hdr /\ e.copy = c.copy
      /\ c.copy.at = c.at /\ stored[c.at] = c.copy.txt
      /\ c.copy.txt \in 1 .. Len(txt)
  BY <1>1, HandleIs
<1>3. FileTypes(idx, hdrs, txt, stored) /\ FilesOK(idx, hdrs, txt, stored)
  BY FilesTyped DEF Inv, FilesInv
<1>4. /\ idx \in Seq(0 .. MaxHdr) /\ hdrs \in Seq(HeaderType)
      /\ txt \in Seq(Ids)
      /\ Len(idx) \in Nat /\ Len(hdrs) \in Nat /\ Len(txt) \in Nat
      /\ stored \in [Ids -> 0 .. MaxTxt]
      /\ Len(idx) <= MaxIdx
  BY <1>3, LenProperties DEF FileTypes
<1>5. /\ c.at \in 1 .. Len(idx) /\ c.hdr \in 1 .. Len(hdrs) /\ c.at \in Ids
      /\ c.copy \in HeaderType
  BY <1>2 DEF SlotIn, SlotType
<1>6. /\ i \in 1 .. MaxHdr /\ j \in 1 .. MaxTxt /\ c.at \in 0 .. MaxIdx
      /\ i \in 0 .. MaxHdr /\ j \in 0 .. MaxTxt
  BY <1>1, <1>4, <1>5, JamAssumption DEF Ids
<1>7. r \in HeaderType /\ Deleted(c.copy) \in HeaderType
  BY <1>5, <1>6, HeaderIs, DeletedIs
<1>8. /\ txt' = Append(txt, c.at) /\ idx' = [idx EXCEPT ![c.at] = i]
      /\ hdrs' = Append([hdrs EXCEPT ![c.hdr] = Deleted(c.copy)], r)
      /\ stored' = [stored EXCEPT ![c.at] = j]
      /\ area' = [area EXCEPT ![p] = [a EXCEPT !.modified = TRUE,
                                              !.table[c.num] = d]]
      /\ msgh' = [msgh EXCEPT ![p] = b]
      /\ wild' = wild
  <2>1. txt' = Append(txt, c.at) /\ idx' = [idx EXCEPT ![c.at] = i]
        /\ hdrs' = Append([hdrs EXCEPT ![c.hdr] = Deleted(c.copy)], r)
    BY <1>2 DEF WriteOver
  <2>2. stored' = [stored EXCEPT ![c.at] = j]
    <3>1. stored' = [stored EXCEPT ![c.at] =
                       IF stored[c.at] = NoText THEN stored[c.at] ELSE j]
      BY <1>4, <1>5 DEF WriteOver, Restored
    <3>2. stored[c.at] # NoText
      BY <1>2, <1>4 DEF NoText
    <3> QED
      BY <3>1, <3>2
  <2>3. /\ area' = [area EXCEPT ![p] = [a EXCEPT !.modified = TRUE,
                                                !.table[c.num] = d]]
        /\ wild' = wild
    <3>1. [a EXCEPT !.modified = TRUE].table = a.table
      BY ProcIs DEF AreaType
    <3>2. [[a EXCEPT !.modified = TRUE] EXCEPT !.table[c.num] = d]
            = [a EXCEPT !.modified = TRUE, !.table[c.num] = d]
      BY ProcIs DEF AreaType
    <3>3. PutSlot(p, [a EXCEPT !.modified = TRUE], c.num, d)
      BY <1>2 DEF WriteOver
    <3> HIDE DEF d
    <3> QED
      BY <1>2, <3>1, <3>2, <3>3 DEF PutSlot
  <2>4. msgh' = [msgh EXCEPT ![p] = b]
    BY ProcIs DEF WriteOver
  <2> QED
    BY <2>1, <2>2, <2>3, <2>4
<1> HIDE DEF e
<1>9. /\ txt' \in Seq(Ids) /\ Len(txt') = j /\ txt'[j] = c.at
      /\ \A k \in 1 .. Len(txt) : txt'[k] = txt[k]
  BY <1>4, <1>5, <1>8, LongerIs
<1>10. /\ idx' \in Seq(0 .. MaxHdr) /\ Len(idx') = Len(idx) /\ idx'[c.at] = i
       /\ \A k \in 1 .. Len(idx) : k # c.at => idx'[k] = idx[k]
  BY <1>4, <1>5, <1>6, <1>8, ChangedIs
<1>11. /\ hdrs' \in Seq(HeaderType) /\ Len(hdrs') = i /\ hdrs'[i] = r
       /\ hdrs'[c.hdr] = Deleted(c.copy) /\ i # c.hdr
       /\ \A k \in 1 .. Len(hdrs) : k # c.hdr => hdrs'[k] = hdrs[k]
       /\ \A k \in 1 .. Len(hdrs') : k \in 1 .. Len(hdrs) \/ k = i
  <2>1. hdrs' = Append([hdrs EXCEPT ![c.hdr] = Deleted(c.copy)], r)
    BY <1>8
  <2> HIDE DEF r
  <2> QED
    BY <1>4, <1>5, <1>7, <2>1, MovedIs
<1> HIDE DEF r
<1>12. /\ stored' \in [Ids -> 0 .. MaxTxt] /\ stored'[c.at] = j
       /\ \A k \in Ids \ {c.at} : stored'[k] = stored[k]
  BY <1>4, <1>5, <1>6, <1>8
<1>13. FileTypes(idx', hdrs', txt', stored')
  BY <1>4, <1>6, <1>9, <1>10, <1>12, <1>11 DEF FileTypes
<1>14. /\ i \in 1 .. Len(hdrs') /\ j \in 1 .. Len(txt')
       /\ Len(txt) <= Len(txt') /\ Len(hdrs) <= Len(hdrs')
  BY <1>4, <1>9, <1>11
<1>15. /\ FilesInv'
       /\ Grown(idx, hdrs, txt, idx', hdrs', txt')
       /\ d \in SlotType /\ SlotIn(d, idx', hdrs', txt')
       /\ SlotLive(d, idx', hdrs')
       /\ \A f \in SlotType :
            SlotIn(f, idx, hdrs, txt) /\ SlotLive(f, idx, hdrs) /\ f.at # c.at
              => SlotLive(f, idx', hdrs')
  <2>1. hdrs'[i] = Header(e.at, j) /\ d = Slot(c.at, i, Header(c.at, j))
    BY <1>2, <1>11 DEF r
  <2>2. Len(txt) <= Len(txt') /\ Len(hdrs) <= Len(hdrs') /\ i = Len(hdrs) + 1
    BY <1>14
  <2> HIDE DEF i, j, d
  <2>3. Rewritten(idx, hdrs, txt, stored, idx', hdrs', txt', stored', e, i, j)
    BY <1>2, <1>9, <1>10, <1>11, <1>12, <1>14, <2>1, <2>2 DEF Rewritten
  <2> QED
    BY <1>1, <1>13, <2>1, <2>3, HandleRewritten DEF e
<1>16. b \in MsghType /\ b.mode = "done"
  BY <1>6, ProcIs DEF MsghType
<1> HIDE DEF b, i, j
<1> QED
  BY <1>1, <1>8, <1>13, <1>15, <1>16, RewriteKeeps DEF r

LEMMA UpdateKeeps ==
  ASSUME SoleEditor, Inv, NEW p \in Procs, NEW retexted \in BOOLEAN,
         NEW grown \in BOOLEAN, NEW readdressed \in BOOLEAN,
         Update(p, retexted, grown, readdressed)
  PROVE  Inv'
<1> DEFINE a == area[p]
           c == msgh[p]
           e == Slot(c.at, c.hdr, c.copy)
           i == IF grown THEN Len(hdrs) + 1 ELSE c.hdr
           j == IF retexted THEN Len(txt) + 1 ELSE c.copy.txt
           r == Header(c.at, j)
           d == Slot(c.at, i, r)
           b == [c EXCEPT !.hdr = i, !.copy = r]
<1>1. /\ owner \in {Nobody, p} /\ owner' = Unlocked(p) /\ c.mode = "write"
      /\ i <= MaxHdr /\ (retexted => Len(txt) < MaxTxt)
      /\ UNCHANGED <<active, kill>>
  BY DEF Update, MayWrite
<1>2. /\ p \in Editors /\ c.num \in 1 .. a.num /\ a.table[c.num] = e
      /\ DOMAIN a.table = 1 .. a.num
      /\ e \in SlotType /\ SlotIn(e, idx, hdrs, txt) /\ SlotLive(e, idx, hdrs)
      /\ e.at = c.at /\ e.hdr = c.hdr /\ e.copy = c.copy
      /\ c.copy.at = c.at /\ stored[c.at] = c.copy.txt
      /\ c.copy.txt \in 1 .. Len(txt)
  BY <1>1, HandleIs
<1>3. FileTypes(idx, hdrs, txt, stored) /\ FilesOK(idx, hdrs, txt, stored)
  BY FilesTyped DEF Inv, FilesInv
<1>4. /\ idx \in Seq(0 .. MaxHdr) /\ hdrs \in Seq(HeaderType)
      /\ txt \in Seq(Ids)
      /\ Len(idx) \in Nat /\ Len(hdrs) \in Nat /\ Len(txt) \in Nat
      /\ stored \in [Ids -> 0 .. MaxTxt]
      /\ Len(idx) <= MaxIdx /\ Len(hdrs) <= MaxHdr /\ Len(txt) <= MaxTxt
  BY <1>3, LenProperties DEF FileTypes
<1>5. /\ c.at \in 1 .. Len(idx) /\ c.hdr \in 1 .. Len(hdrs) /\ c.at \in Ids
      /\ c.copy \in HeaderType /\ idx[c.at] = c.hdr
  BY <1>2 DEF SlotIn, SlotLive, SlotType
<1>6. /\ i \in 1 .. MaxHdr /\ j \in 1 .. MaxTxt /\ c.at \in 0 .. MaxIdx
      /\ i \in 0 .. MaxHdr /\ j \in 0 .. MaxTxt
  <2>1. i \in 1 .. MaxHdr
    BY <1>1, <1>4, <1>5, JamAssumption
  <2>2. c.copy.txt \in 1 .. Len(txt)
    BY <1>2
  <2>3. j \in 1 .. MaxTxt
    BY <1>1, <1>4, <2>2, JamAssumption
  <2> HIDE DEF i, j
  <2> QED
    BY <1>5, <2>1, <2>3, JamAssumption DEF Ids
<1>7. r \in HeaderType /\ Deleted(c.copy) \in HeaderType
  BY <1>5, <1>6, HeaderIs, DeletedIs
<1>8. /\ txt' = IF retexted THEN Append(txt, c.at) ELSE txt
      /\ hdrs' = IF grown
                 THEN Append([hdrs EXCEPT ![c.hdr] = Deleted(c.copy)], r)
                 ELSE [hdrs EXCEPT ![c.hdr] = r]
      /\ stored' = IF retexted THEN [stored EXCEPT ![c.at] = j] ELSE stored
  <2>1. stored[c.at] # NoText
    BY <1>2, <1>4 DEF NoText
  <2>2. IF retexted THEN Restored(c.at) ELSE UNCHANGED stored
    BY DEF Update
  <2>3. stored' = IF retexted THEN [stored EXCEPT ![c.at] = j] ELSE stored
    BY <1>4, <1>5, <2>1, <2>2 DEF Restored
  <2> QED
    BY <1>2, <2>3 DEF Update
<1>9. idx' = [idx EXCEPT ![c.at] = i]
  <2>1. NeedsIndex(p, i, readdressed) => idx' = [idx EXCEPT ![c.at] = i]
    BY DEF Update
  <2>2. ~NeedsIndex(p, i, readdressed) => idx' = idx /\ i = c.hdr
    BY <1>2 DEF Update, NeedsIndex
  <2> HIDE DEF i
  <2> QED
    BY <1>4, <1>5, <2>1, <2>2
<1>10. /\ area' = [area EXCEPT ![p] = [a EXCEPT !.modified = TRUE,
                                               !.table[c.num] = d]]
       /\ wild' = wild
  <2>1. [a EXCEPT !.modified = TRUE].table = a.table
    BY ProcIs DEF AreaType
  <2>2. [[a EXCEPT !.modified = TRUE] EXCEPT !.table[c.num] = d]
          = [a EXCEPT !.modified = TRUE, !.table[c.num] = d]
    BY ProcIs DEF AreaType
  <2>3. PutSlot(p, [a EXCEPT !.modified = TRUE], c.num, d)
    BY <1>2 DEF Update
  <2> HIDE DEF d
  <2> QED
    BY <1>2, <2>1, <2>2, <2>3 DEF PutSlot
<1>11. msgh' = [msgh EXCEPT ![p] = b]
  BY <1>2, ProcIs DEF Update
<1> HIDE DEF e, r
<1>12. /\ txt' \in Seq(Ids) /\ j \in 1 .. Len(txt') /\ txt'[j] = c.at
       /\ Len(txt) <= Len(txt') /\ Len(txt') <= MaxTxt
       /\ \A k \in 1 .. Len(txt) : txt'[k] = txt[k]
  <2>1. CASE retexted
    <3>1. txt' = Append(txt, c.at) /\ j = Len(txt) + 1 /\ Len(txt) < MaxTxt
      BY <1>1, <1>8, <2>1
    <3>2. /\ txt' \in Seq(Ids) /\ Len(txt') = Len(txt) + 1
          /\ txt'[Len(txt) + 1] = c.at
          /\ \A k \in 1 .. Len(txt) : txt'[k] = txt[k]
      BY <1>4, <1>5, <3>1, LongerIs
    <3> HIDE DEF j
    <3> QED
      BY <1>4, <3>1, <3>2, JamAssumption
  <2>2. CASE ~retexted
    BY <1>2, <1>4, <1>8, <2>2 DEF SlotIn
  <2> QED
    BY <2>1, <2>2
<1>13. /\ hdrs' \in Seq(HeaderType) /\ i \in 1 .. Len(hdrs') /\ hdrs'[i] = r
       /\ Len(hdrs) <= Len(hdrs') /\ Len(hdrs') <= MaxHdr
       /\ i # c.hdr => hdrs'[c.hdr] = Deleted(c.copy)
       /\ \A k \in 1 .. Len(hdrs) : k # c.hdr => hdrs'[k] = hdrs[k]
       /\ \A k \in 1 .. Len(hdrs') : k \in 1 .. Len(hdrs) \/ k = i
  <2>1. CASE grown
    <3>1. hdrs' = Append([hdrs EXCEPT ![c.hdr] = Deleted(c.copy)], r)
          /\ i = Len(hdrs) + 1
      BY <1>8, <2>1
    <3>2. /\ hdrs' \in Seq(HeaderType) /\ Len(hdrs') = i /\ hdrs'[i] = r
          /\ hdrs'[c.hdr] = Deleted(c.copy)
          /\ \A k \in 1 .. Len(hdrs) : k # c.hdr => hdrs'[k] = hdrs[k]
          /\ \A k \in 1 .. Len(hdrs') : k \in 1 .. Len(hdrs) \/ k = i
      BY <1>4, <1>5, <1>7, <3>1, MovedIs
    <3> HIDE DEF i
    <3> QED
      BY <1>1, <1>4, <3>1, <3>2
  <2>2. CASE ~grown
    <3>1. /\ hdrs' \in Seq(HeaderType) /\ Len(hdrs') = Len(hdrs)
          /\ hdrs'[c.hdr] = r
          /\ \A k \in 1 .. Len(hdrs) : k # c.hdr => hdrs'[k] = hdrs[k]
      <4>1. hdrs' = [hdrs EXCEPT ![c.hdr] = r]
        BY <1>8, <2>2
      <4> QED
        BY <1>4, <1>5, <1>7, <4>1, ChangedIs
    <3> QED
      BY <1>4, <1>5, <2>2, <3>1
  <2> QED
    BY <2>1, <2>2
<1>14. /\ stored' \in [Ids -> 0 .. MaxTxt] /\ stored'[c.at] = j
       /\ \A k \in Ids \ {c.at} : stored'[k] = stored[k]
  <2>1. CASE retexted
    <3> HIDE DEF j
    <3> QED
      BY <1>4, <1>5, <1>6, <1>8, <2>1
  <2>2. CASE ~retexted
    BY <1>2, <1>4, <1>8, <2>2
  <2> QED
    BY <2>1, <2>2
<1> HIDE DEF i, j
<1>15. /\ idx' \in Seq(0 .. MaxHdr) /\ Len(idx') = Len(idx) /\ idx'[c.at] = i
       /\ \A k \in 1 .. Len(idx) : k # c.at => idx'[k] = idx[k]
  BY <1>4, <1>5, <1>6, <1>9, ChangedIs
<1>16. FileTypes(idx', hdrs', txt', stored')
  BY <1>4, <1>12, <1>13, <1>14, <1>15 DEF FileTypes
<1>17. /\ FilesInv' /\ Grown(idx, hdrs, txt, idx', hdrs', txt')
       /\ d \in SlotType /\ SlotIn(d, idx', hdrs', txt')
       /\ SlotLive(d, idx', hdrs')
       /\ \A f \in SlotType :
            SlotIn(f, idx, hdrs, txt) /\ SlotLive(f, idx, hdrs) /\ f.at # c.at
              => SlotLive(f, idx', hdrs')
  <2>1. hdrs'[i] = Header(e.at, j) /\ d = Slot(c.at, i, Header(c.at, j))
    BY <1>2, <1>13 DEF r
  <2>2. (i = c.hdr \/ i = Len(hdrs) + 1) /\ c.mode = "write"
    BY <1>1 DEF i
  <2> HIDE DEF d
  <2>3. Rewritten(idx, hdrs, txt, stored, idx', hdrs', txt', stored', e, i, j)
    BY <1>2, <1>12, <1>13, <1>14, <1>15, <2>1, <2>2 DEF Rewritten
  <2> QED
    BY <1>16, <2>1, <2>2, <2>3, HandleRewritten DEF e
<1>18. b \in MsghType /\ b.num = c.num /\ Slot(b.at, b.hdr, b.copy) = d
  BY <1>6, <1>7, ProcIs DEF MsghType
<1> HIDE DEF b
<1> QED
  BY <1>1, <1>8, <1>10, <1>11, <1>16, <1>17, <1>18, RewriteKeeps DEF r

---------------------------------------------------------------------------
(***************************************************************************)
(* The theorems.                                                           *)
(***************************************************************************)
LEMMA StutterKeeps == ASSUME Inv, UNCHANGED vars PROVE Inv'
<1>1. /\ UNCHANGED <<idx, hdrs, txt, active, owner, area>>
      /\ UNCHANGED <<msgh, kill, stored, wild>>
  BY DEF vars
<1>2. TypeOK'
  BY <1>1 DEF Inv, TypeOK
<1>3. FilesInv'
  BY <1>1 DEF Inv, FilesInv
<1>4. \A p \in Procs : ProcInv(p)'
  BY <1>1 DEF Inv, ProcInv
<1> QED
  BY <1>2, <1>3, <1>4 DEF Inv

LEMMA NextKeeps ==
  ASSUME SoleEditor, Polite, Inv, Next PROVE Inv'
<1> SUFFICES ASSUME ~Undefined PROVE Inv'
  BY StutterKeeps DEF Undefined
<1>1. PICK p \in Procs :
        \/ Open(p) \/ Close(p) \/ LockArea(p) \/ UnlockArea(p)
        \/ NewMsg(p) \/ CloseMsg(p)
        \/ \E stage \in Stages : WriteNewFails(p, stage)
        \/ KillBusy(p) \/ KillUnderLock(p)
        \/ \E n \in Ids :
             \/ KillMsg(p, n)
             \/ \E mode \in {"read", "over", "write"} : OpenMsg(p, n, mode)
        \/ WriteNew(p) \/ WriteOver(p)
        \/ \E retexted, grown, readdressed \in BOOLEAN :
             Update(p, retexted, grown, readdressed)
  BY DEF Next
<1>2. CASE Open(p)
  BY <1>2, OpenKeeps
<1>3. CASE Close(p)
  BY <1>3, CloseKeeps
<1>4. CASE LockArea(p) \/ UnlockArea(p)
  BY <1>4, LockKeeps
<1>5. CASE NewMsg(p) \/ CloseMsg(p)
  BY <1>5, HandleKeeps
<1>6. CASE \E stage \in Stages : WriteNewFails(p, stage)
  BY <1>6, WriteNewFailsKeeps
<1>7. CASE KillBusy(p)
  BY <1>7, KillBusyKeeps
<1>8. CASE KillUnderLock(p)
  BY <1>8, KillUnderLockKeeps
<1>9. CASE \E n \in Ids : KillMsg(p, n)
  BY <1>9, KillMsgKeeps
<1>10. CASE \E n \in Ids : \E mode \in {"read", "over", "write"} :
              OpenMsg(p, n, mode)
  BY <1>10, OpenMsgKeeps
<1>11. CASE WriteNew(p)
  BY <1>11, WriteNewKeeps
<1>12. CASE WriteOver(p)
  BY <1>12, WriteOverKeeps
<1>13. CASE \E retexted, grown, readdressed \in BOOLEAN :
              Update(p, retexted, grown, readdressed)
  BY <1>13, UpdateKeeps
<1> QED
  BY <1>1, <1>2, <1>3, <1>4, <1>5, <1>6, <1>7, <1>8, <1>9, <1>10, <1>11,
     <1>12, <1>13

LEMMA InvAlways ==
  ASSUME SoleEditor, Polite PROVE Spec => []Inv
<1>1. Inv /\ [Next]_vars => Inv'
  BY NextKeeps, StutterKeeps
<1> QED
  BY <1>1, InitInv, PTL DEF Spec

(* Every variable keeps its type, the number of messages a process knows   *)
(* never exceeds the index, and who has locked the area holds the byte.    *)
THEOREM JamTypeCorrect ==
  ASSUME SoleEditor, Polite PROVE Spec => []TypeOK
<1>1. Inv => TypeOK
  BY DEF Inv
<1> QED
  BY <1>1, InvAlways, PTL

(* For any number of processes that append while one rewrites and deletes: *)
(* what was written is there until it is deleted, with the text it was     *)
(* last given, and what was deleted does not come back.                    *)
THEOREM IndexMatchesHolds ==
  ASSUME SoleEditor, Polite PROVE Spec => []IndexMatchesMessages
<1>1. Inv => IndexMatchesMessages
  <2> SUFFICES ASSUME Inv PROVE IndexMatchesMessages
    OBVIOUS
  <2>1. /\ idx \in Seq(0 .. MaxHdr) /\ hdrs \in Seq(HeaderType)
        /\ txt \in Seq(Ids) /\ FilesOK(idx, hdrs, txt, stored)
    BY DEF Inv, FilesInv, TypeOK
  <2>2. /\ DOMAIN idx = 1 .. Len(idx) /\ DOMAIN txt = 1 .. Len(txt)
        /\ Len(idx) \in Nat /\ Len(hdrs) \in Nat /\ Len(txt) \in Nat
    BY <2>1, LenProperties
  <2>3. ASSUME NEW m \in Ids, stored[m] = NoText, m \in DOMAIN idx
        PROVE  ~Live(m)
    BY <2>1, <2>2, <2>3 DEF FilesOK, Live, NoText
  <2>4. ASSUME NEW m \in Ids, stored[m] # NoText
        PROVE  /\ m \in DOMAIN idx /\ Live(m)
               /\ hdrs[idx[m]].at = m /\ hdrs[idx[m]].txt = stored[m]
               /\ stored[m] \in DOMAIN txt /\ txt[stored[m]] = m
    <3>1. m \in 1 .. Len(idx) /\ idx[m] # Gone
      BY <2>1, <2>4 DEF FilesOK
    <3>2. /\ idx[m] \in 1 .. Len(hdrs) /\ ~hdrs[idx[m]].del
          /\ hdrs[idx[m]].at = m
          /\ hdrs[idx[m]].txt \in 1 .. Len(txt) /\ txt[hdrs[idx[m]].txt] = m
          /\ stored[m] = hdrs[idx[m]].txt
      BY <2>1, <3>1 DEF FilesOK
    <3>3. idx[m] <= Len(hdrs)
      BY <2>2, <3>2
    <3> QED
      BY <2>2, <3>1, <3>2, <3>3 DEF Live
  <2> QED
    BY <2>3, <2>4 DEF IndexMatchesMessages
<1> QED
  BY <1>1, InvAlways, PTL

(* No failed write, replacement or deletion leaves a header that is not    *)
(* deleted and that no index record names.                                 *)
THEOREM HeadersNamedHolds ==
  ASSUME SoleEditor, Polite PROVE Spec => []HeadersNamed
<1>1. Inv => HeadersNamed
  <2> SUFFICES ASSUME Inv PROVE HeadersNamed
    OBVIOUS
  <2>1. /\ idx \in Seq(0 .. MaxHdr) /\ hdrs \in Seq(HeaderType)
        /\ FilesOK(idx, hdrs, txt, stored)
    BY DEF Inv, FilesInv, TypeOK
  <2>2. DOMAIN idx = 1 .. Len(idx) /\ DOMAIN hdrs = 1 .. Len(hdrs)
    BY <2>1
  <2> QED
    BY <2>1, <2>2 DEF HeadersNamed, FilesOK
<1> QED
  BY <1>1, InvAlways, PTL

(* However old a process's table of active messages is, it is in order and *)
(* every slot names a header and a text of the slot's own message.         *)
THEOREM TableSoundHolds ==
  ASSUME SoleEditor, Polite PROVE Spec => []TableSound
<1>1. Inv => TableSound
  <2> SUFFICES ASSUME Inv, NEW p \in Procs, area[p].read
               PROVE  LET a == area[p]
                      IN /\ Len(a.table) = a.num
                         /\ \A n \in DOMAIN a.table :
                              LET e == a.table[n]
                              IN /\ n > 1 => a.table[n - 1].at < e.at
                                 /\ e.copy.at = e.at /\ hdrs[e.hdr].at = e.at
                                 /\ e.copy.txt \in DOMAIN txt
                                 /\ txt[e.copy.txt] = e.at
    BY DEF TableSound
  <2> DEFINE a == area[p]
  <2>1. /\ a.table \in Seq(SlotType) /\ Len(a.table) = a.num /\ Ascends(a)
        /\ a.num \in Nat
        /\ \A n \in 1 .. a.num : SlotIn(a.table[n], idx, hdrs, txt)
    BY ProcIs DEF AreaType, TableOK
  <2>2. txt \in Seq(Ids)
    BY DEF Inv, TypeOK
  <2>3. DOMAIN a.table = 1 .. a.num /\ DOMAIN txt = 1 .. Len(txt)
    BY <2>1, <2>2
  <2>4. \A n \in 1 .. a.num : n > 1 => a.table[n - 1].at < a.table[n].at
    BY <2>1 DEF Ascends
  <2> QED
    BY <2>1, <2>3, <2>4 DEF SlotIn
<1> QED
  BY <1>1, InvAlways, PTL

(* The number a handle is written with is one of its table.                *)
LEMMA PutSlotIsTame ==
  ASSUME Inv, NEW p \in Procs, msgh[p].mode \in {"over", "write"},
         NEW e, PutSlot(p, [area[p] EXCEPT !.modified = TRUE], msgh[p].num, e)
  PROVE  wild' = wild
<1> DEFINE a == area[p]
           b == [a EXCEPT !.modified = TRUE]
<1>1. a \in AreaType /\ a.read /\ msgh[p].num \in 1 .. a.num
      /\ TableOK(a, idx, hdrs, txt)
  BY ProcIs DEF HandleOK
<1>2. b.table = a.table
  BY <1>1 DEF AreaType
<1>3. DOMAIN a.table = 1 .. a.num
  <2>1. a.table \in Seq(SlotType) /\ Len(a.table) = a.num
    BY <1>1 DEF AreaType, TableOK
  <2> QED
    BY <2>1
<1> HIDE DEF a, b
<1> QED
  BY <1>1, <1>2, <1>3 DEF PutSlot, b, a

(* However old the table and num_msg are, no number reaches behind the     *)
(* table but that of a JamKillMsg before the table is read.                *)
THEOREM OnlyKillGoesWildHolds ==
  ASSUME SoleEditor, Polite PROVE Spec => OnlyKillGoesWild
<1>1. ASSUME Inv, Next, wild' # wild
      PROVE  \E p \in Procs, n \in Ids : ~area[p].read /\ KillMsg(p, n)
  <2>1. PICK p \in Procs :
          \/ \E n \in Ids :
               \/ KillMsg(p, n)
               \/ \E mode \in {"read", "over", "write"} : OpenMsg(p, n, mode)
          \/ WriteOver(p)
          \/ \E retexted, grown, readdressed \in BOOLEAN :
               Update(p, retexted, grown, readdressed)
    BY <1>1 DEF Next, Open, Close, LockArea, UnlockArea, NewMsg, CloseMsg,
                WriteNewFails, KillBusy, KillUnderLock, WriteNew, Undefined,
                vars
  <2>2. ~WriteOver(p)
    BY <1>1, PutSlotIsTame DEF WriteOver
  <2>3. ASSUME NEW retexted \in BOOLEAN, NEW grown \in BOOLEAN,
               NEW readdressed \in BOOLEAN
        PROVE  ~Update(p, retexted, grown, readdressed)
    BY <1>1, PutSlotIsTame DEF Update
  <2>4. ASSUME NEW n \in Ids, NEW mode \in {"read", "over", "write"}
        PROVE  ~OpenMsg(p, n, mode)
    <3> SUFFICES ASSUME OpenMsg(p, n, mode) PROVE FALSE
      OBVIOUS
    <3>1. PICK a : a = Table(area[p])
      OBVIOUS
    <3>2. a.table \in Seq(SlotType) /\ Len(a.table) = a.num
      BY <1>1, <3>1, TableIs DEF OpenMsg, Idle, AreaType, TableOK
    <3>3. DOMAIN a.table = 1 .. a.num
      BY <3>2
    <3>4. wild' = (wild \/ (Checked(a, n) /\ n \notin DOMAIN a.table))
      BY <3>1 DEF OpenMsg
    <3>5. wild \in BOOLEAN
      BY <1>1, ProcIs
    <3> QED
      BY <1>1, <3>3, <3>4, <3>5 DEF Checked
  <2>5. PICK n \in Ids : KillMsg(p, n)
    BY <2>1, <2>2, <2>3, <2>4
  <2>6. ~area[p].read
    <3> SUFFICES ASSUME area[p].read PROVE FALSE
      OBVIOUS
    <3>1. area[p].num \in Nat /\ DOMAIN area[p].table = 1 .. area[p].num
      <4>1. /\ area[p] \in AreaType /\ TableOK(area[p], idx, hdrs, txt)
            /\ area[p].num \in Nat
        BY <1>1, ProcIs
      <4>2. area[p].table \in Seq(SlotType)
            /\ Len(area[p].table) = area[p].num
        BY <4>1 DEF AreaType, TableOK
      <4> QED
        BY <4>1, <4>2
    <3>2. n \in DOMAIN area[p].table
      BY <2>5, <3>1, JamAssumption DEF KillMsg, Ids
    <3> QED
      BY <1>1, <2>5, <3>2 DEF KillMsg, Table
  <2> QED
    BY <2>5, <2>6
<1>2. Inv /\ [Next]_vars
      => [wild' # wild => \E p \in Procs, n \in Ids :
                            ~area[p].read /\ KillMsg(p, n)]_vars
  BY <1>1
<1> QED
  BY <1>2, InvAlways, PTL DEF Spec, OnlyKillGoesWild

---------------------------------------------------------------------------
(***************************************************************************)
(* The binary search.                                                      *)
(***************************************************************************)
(* What the search answers for an id when the first k messages of an area  *)
(* have an id that is not greater, and found when the last of them has it. *)
Answer(a, k, found, type) ==
  IF found THEN k ELSE Missed(a, k + 1, k, type)

(* What it answers when it only looks at the messages l .. r.              *)
Within(a, k, found, l, r, type) ==
  IF l > r THEN Missed(a, l, r, type)
  ELSE IF k < l THEN Missed(a, l, l - 1, type)
  ELSE IF k > r THEN Missed(a, r + 1, r, type)
  ELSE Answer(a, k, found, type)

(* One look at the middle of l .. r: u is the id that is looked for, and   *)
(* s what the search of a part answers.                                    *)
Look(a, u, type, s) ==
  [range \in (1 .. a.num + 1) \X (0 .. a.num) |->
     LET left  == range[1]
         right == range[2]
         cur   == (left + right) \div 2
         id    == MsgnToUid(a, cur)
     IN IF left > right THEN Missed(a, left, right, type)
        ELSE IF id < u THEN s[<<cur + 1, right>>]
        ELSE IF id > u THEN s[<<left, cur - 1>>]
        ELSE cur]

LEMMA SearchIs ==
  ASSUME NEW a, NEW u, NEW type, NEW g, g = Look(a, u, type, g)
  PROVE  \E s : s = Look(a, u, type, s) /\ UidToMsgn(a, u, type) = s[<<1, a.num>>]
<1> DEFINE s == CHOOSE f : f = Look(a, u, type, f)
<1>1. s = Look(a, u, type, s)
  BY Zenon
<1>2. UidToMsgn(a, u, type) = s[<<1, a.num>>]
  BY Zenon DEF UidToMsgn, Look
<1> QED
  BY <1>1, <1>2

(* The messages of an area are in the order of their ids, the first k are  *)
(* those whose id is not greater than u, and found says that u is one.     *)
Splits(a, id, u, k, found) ==
  /\ a.num \in Nat /\ id \in [1 .. a.num -> Nat] /\ u \in Nat
  /\ \A n \in 1 .. a.num : a.table[n].at = id[n]
  /\ \A m, n \in 1 .. a.num : m < n => id[m] < id[n]
  /\ k \in 0 .. a.num
  /\ \A n \in 1 .. a.num : n <= k <=> id[n] <= u
  /\ found <=> \E n \in 1 .. a.num : id[n] = u

LEMMA Middle ==
  ASSUME NEW l \in Nat, NEW r \in Nat, l <= r
  PROVE  (l + r) \div 2 \in l .. r
OBVIOUS

(* Where the search goes on from message cur: with the answer of the later *)
(* messages, with that of the earlier ones, or nowhere.                    *)
Turn(id, u, cur, later, earlier) ==
  IF id[cur] < u THEN later ELSE IF id[cur] > u THEN earlier ELSE cur

(* The answers of Within are what the search asks of itself.               *)
LEMMA WithinSteps ==
  ASSUME NEW a, NEW id, NEW u, NEW k, NEW found, Splits(a, id, u, k, found),
         NEW type, NEW l \in 1 .. a.num, NEW r \in 1 .. a.num,
         NEW cur \in l .. r
  PROVE  Within(a, k, found, l, r, type) =
           Turn(id, u, cur, Within(a, k, found, cur + 1, r, type),
                            Within(a, k, found, l, cur - 1, type))
<1>1. /\ a.num \in Nat /\ l \in Nat /\ r \in Nat /\ cur \in 1 .. a.num
      /\ id[cur] \in Nat /\ u \in Nat /\ k \in Nat /\ k <= a.num
      /\ (cur <= k <=> id[cur] <= u)
  BY DEF Splits
<1>2. found => k \in 1 .. a.num /\ id[k] = u
  <2> SUFFICES ASSUME found PROVE k \in 1 .. a.num /\ id[k] = u
    OBVIOUS
  <2>1. PICK n \in 1 .. a.num : id[n] = u
    BY DEF Splits
  <2>2. n <= k
    BY <2>1 DEF Splits
  <2>3. k \in 1 .. a.num
    BY <1>1, <2>2
  <2>4. id[k] <= u /\ id[k] \in Nat
    <3>1. /\ id \in [1 .. a.num -> Nat]
          /\ \A m \in 1 .. a.num : m <= k <=> id[m] <= u
      BY DEF Splits
    <3>2. k <= k
      BY <1>1
    <3> QED
      BY ONLY <2>3, <3>1, <3>2
  <2>5. ~ (n < k)
    BY <1>1, <2>1, <2>3, <2>4 DEF Splits
  <2> QED
    BY <1>1, <2>1, <2>2, <2>3, <2>5
<1>3. id[cur] = u => found /\ cur = k
  <2> SUFFICES ASSUME id[cur] = u PROVE found /\ cur = k
    OBVIOUS
  <2>1. found
    BY <1>1 DEF Splits
  <2>2. k \in 1 .. a.num /\ id[k] = u
    BY <1>2, <2>1
  <2>3. ~ (k < cur) /\ ~ (cur < k)
    BY <1>1, <2>2 DEF Splits
  <2> QED
    BY <1>1, <2>1, <2>2, <2>3
<1>4. CASE id[cur] < u
  <2>1. cur <= k /\ (found => cur # k) /\ l <= cur /\ cur <= r
    BY <1>1, <1>2, <1>4
  <2>2. CASE cur + 1 > r
    <3>1. cur = r
      BY <1>1, <2>1, <2>2
    <3>2. CASE k > r
      BY <1>1, <1>4, <2>1, <3>1, <3>2 DEF Turn, Within
    <3>3. CASE k = r
      BY <1>1, <1>4, <2>1, <3>1, <3>3 DEF Turn, Within, Answer
    <3> QED
      BY <1>1, <2>1, <3>1, <3>2, <3>3
  <2>3. CASE ~ (cur + 1 > r) /\ k < cur + 1
    <3>1. k = cur /\ k + 1 - 1 = k
      BY <1>1, <2>1, <2>3
    <3> QED
      BY <1>1, <1>4, <2>1, <2>3, <3>1 DEF Turn, Within, Answer
  <2>4. CASE ~ (cur + 1 > r) /\ ~ (k < cur + 1)
    BY <1>1, <1>4, <2>1, <2>4 DEF Turn, Within
  <2> QED
    BY <2>2, <2>3, <2>4
<1>5. CASE id[cur] > u
  <2>1. k < cur /\ l <= cur /\ cur <= r
    BY <1>1, <1>5
  <2>2. CASE l > cur - 1
    <3>1. cur = l /\ k < l
      BY <1>1, <2>1, <2>2
    <3> QED
      BY <1>1, <1>5, <2>1, <3>1 DEF Turn, Within
  <2>3. CASE ~ (l > cur - 1) /\ k < l
    BY <1>1, <1>5, <2>1, <2>3 DEF Turn, Within
  <2>4. CASE ~ (l > cur - 1) /\ ~ (k < l)
    BY <1>1, <1>5, <2>1, <2>4 DEF Turn, Within
  <2> QED
    BY <2>2, <2>3, <2>4
<1>6. CASE id[cur] = u
  BY <1>1, <1>3, <1>6 DEF Turn, Within, Answer
<1> QED
  BY <1>1, <1>4, <1>5, <1>6

(* The answer v for the messages l .. r comes from message cur.            *)
Turned(v, id, u, cur, s, l, r) ==
  v = Turn(id, u, cur, s[<<cur + 1, r>>], s[<<l, cur - 1>>])

(* What one look does.                                                     *)
LEMMA LookIs ==
  ASSUME NEW a, NEW id, NEW u, NEW k, NEW found, Splits(a, id, u, k, found),
         NEW type, NEW s, NEW l \in 1 .. a.num + 1, NEW r \in 0 .. a.num
  PROVE  /\ l > r => Look(a, u, type, s)[<<l, r>>] = Missed(a, l, r, type)
         /\ l <= r => \E cur \in l .. r :
              Turned(Look(a, u, type, s)[<<l, r>>], id, u, cur, s, l, r)
<1>1. PICK cur : cur = (l + r) \div 2
  OBVIOUS
<1>2. Look(a, u, type, s)[<<l, r>>] =
        IF l > r THEN Missed(a, l, r, type)
        ELSE IF MsgnToUid(a, cur) < u THEN s[<<cur + 1, r>>]
        ELSE IF MsgnToUid(a, cur) > u THEN s[<<l, cur - 1>>]
        ELSE cur
  <2>1. <<l, r>> \in (1 .. a.num + 1) \X (0 .. a.num)
        /\ <<l, r>>[1] = l /\ <<l, r>>[2] = r
    OBVIOUS
  <2> QED
    BY <1>1, <2>1, Zenon DEF Look
<1>3. l <= r => cur \in l .. r /\ MsgnToUid(a, cur) = id[cur]
  <2> SUFFICES ASSUME l <= r
               PROVE  cur \in l .. r /\ MsgnToUid(a, cur) = id[cur]
    OBVIOUS
  <2>1. a.num \in Nat /\ l \in Nat /\ r \in Nat
    BY DEF Splits
  <2>2. cur \in l .. r
    BY <1>1, <2>1, Middle
  <2>3. cur \in 1 .. a.num
    BY <2>1, <2>2
  <2> QED
    BY <2>2, <2>3 DEF Splits, MsgnToUid
<1>4. l \in Int /\ r \in Int
  BY DEF Splits
<1>5. l > r => Look(a, u, type, s)[<<l, r>>] = Missed(a, l, r, type)
  BY ONLY <1>2
<1>6. l <= r => Look(a, u, type, s)[<<l, r>>] =
                  Turn(id, u, cur, s[<<cur + 1, r>>], s[<<l, cur - 1>>])
  <2> SUFFICES ASSUME l <= r
               PROVE  Look(a, u, type, s)[<<l, r>>] =
                        Turn(id, u, cur, s[<<cur + 1, r>>], s[<<l, cur - 1>>])
    OBVIOUS
  <2>1. ~ (l > r)
    BY <1>4
  <2> QED
    BY ONLY <1>2, <1>3, <2>1, l <= r DEF Turn
<1> QED
  BY ONLY <1>3, <1>5, <1>6 DEF Turned

LEMMA WithinLooks ==
  ASSUME NEW a, NEW id, NEW u, NEW k, NEW found, Splits(a, id, u, k, found),
         NEW type
  PROVE  \E g : g = Look(a, u, type, g)
<1> DEFINE D == (1 .. a.num + 1) \X (0 .. a.num)
           g == [w \in D |-> Within(a, k, found, w[1], w[2], type)]
<1>0. a.num \in Nat
  BY DEF Splits
<1>1. ASSUME NEW l \in 1 .. a.num + 1, NEW r \in 0 .. a.num
      PROVE  g[<<l, r>>] = Within(a, k, found, l, r, type)
  OBVIOUS
<1> HIDE DEF g
<1>2. ASSUME NEW w \in D PROVE g[w] = Look(a, u, type, g)[w]
  <2>1. PICK l \in 1 .. a.num + 1, r \in 0 .. a.num : w = <<l, r>>
    OBVIOUS
  <2>2. g[w] = Within(a, k, found, l, r, type)
    BY <1>1, <2>1
  <2>3. CASE l > r
    <3>1. Within(a, k, found, l, r, type) = Missed(a, l, r, type)
      BY ONLY <2>3 DEF Within
    <3>2. Look(a, u, type, g)[<<l, r>>] = Missed(a, l, r, type)
      BY <2>3, LookIs
    <3> QED
      BY <2>1, <2>2, <3>1, <3>2
  <2>4. CASE l <= r
    <3>1. l \in 1 .. a.num /\ r \in 1 .. a.num
      BY <1>0, <2>4
    <3>2. PICK cur \in l .. r :
             Turned(Look(a, u, type, g)[<<l, r>>], id, u, cur, g, l, r)
      BY ONLY Splits(a, id, u, k, found), l \in 1 .. a.num + 1, r \in 0 .. a.num, <2>4, LookIs
    <3>3. Within(a, k, found, l, r, type) =
           Turn(id, u, cur, Within(a, k, found, cur + 1, r, type),
                            Within(a, k, found, l, cur - 1, type))
      BY <3>1, WithinSteps
    <3>4. cur + 1 \in 1 .. a.num + 1 /\ cur - 1 \in 0 .. a.num
      BY <1>0, <3>1
    <3>5. g[<<cur + 1, r>>] = Within(a, k, found, cur + 1, r, type)
      BY <1>1, <3>4
    <3>6. g[<<l, cur - 1>>] = Within(a, k, found, l, cur - 1, type)
      BY <1>1, <3>4
    <3> QED
      BY ONLY <2>1, <2>2, <3>2, <3>3, <3>5, <3>6 DEF Turned
  <2> QED
    BY <1>0, <2>3, <2>4
<1>3. g = [w \in D |-> g[w]]
  BY DEF g
<1>4. Look(a, u, type, g) = [w \in D |-> Look(a, u, type, g)[w]]
  BY Zenon DEF Look
<1> HIDE DEF D
<1>5. g = Look(a, u, type, g)
  BY ONLY <1>2, <1>3, <1>4
<1> QED
  BY <1>5

(* However the search is defined where it is not asked, it answers that.   *)
LEMMA SearchAnswers ==
  ASSUME NEW a, NEW id, NEW u, NEW k, NEW found, Splits(a, id, u, k, found),
         NEW type
  PROVE  UidToMsgn(a, u, type) = Answer(a, k, found, type)
<1> DEFINE Right(s, l, r) == s[<<l, r>>] = Within(a, k, found, l, r, type)
<1>0. a.num \in Nat /\ k \in 0 .. a.num
  BY DEF Splits
<1>1. PICK s : s = Look(a, u, type, s) /\ UidToMsgn(a, u, type) = s[<<1, a.num>>]
  BY WithinLooks, SearchIs
<1> DEFINE S == {d \in Nat : \A l \in 1 .. a.num + 1, r \in 0 .. a.num :
                   l <= r + 1 /\ r + 1 - l <= d => Right(s, l, r)}
<1>2. ASSUME NEW l \in 1 .. a.num + 1, NEW r \in 0 .. a.num, l > r
      PROVE  Right(s, l, r)
  <2>1. Look(a, u, type, s)[<<l, r>>] = Missed(a, l, r, type)
    BY <1>2, LookIs
  <2>2. Within(a, k, found, l, r, type) = Missed(a, l, r, type)
    BY ONLY <1>2 DEF Within
  <2> QED
    BY ONLY <1>1, <2>1, <2>2
<1>3. 0 \in S
  <2> SUFFICES ASSUME NEW l \in 1 .. a.num + 1, NEW r \in 0 .. a.num,
                      l <= r + 1, r + 1 - l <= 0
               PROVE  Right(s, l, r)
    OBVIOUS
  <2>1. l > r
    BY <1>0
  <2> QED
    BY <1>2, <2>1
<1>4. ASSUME NEW d \in Nat, d \in S PROVE d + 1 \in S
  <2> SUFFICES ASSUME NEW l \in 1 .. a.num + 1, NEW r \in 0 .. a.num,
                      l <= r + 1, r + 1 - l <= d + 1
               PROVE  Right(s, l, r)
    BY <1>4
  <2>1. CASE l > r
    BY <1>2, <2>1
  <2>2. CASE l <= r
    <3>1. l \in 1 .. a.num /\ r \in 1 .. a.num
      BY <1>0, <2>2
    <3>2. PICK cur \in l .. r :
             Turned(Look(a, u, type, s)[<<l, r>>], id, u, cur, s, l, r)
      BY ONLY Splits(a, id, u, k, found), l \in 1 .. a.num + 1,
              r \in 0 .. a.num, <2>2, LookIs
    <3>3. Within(a, k, found, l, r, type) =
           Turn(id, u, cur, Within(a, k, found, cur + 1, r, type),
                            Within(a, k, found, l, cur - 1, type))
      BY <3>1, WithinSteps
    <3>4. /\ cur + 1 \in 1 .. a.num + 1 /\ cur - 1 \in 0 .. a.num
          /\ cur + 1 <= r + 1 /\ r + 1 - (cur + 1) <= d
          /\ l <= cur - 1 + 1 /\ cur - 1 + 1 - l <= d
      BY <1>0, <3>1
    <3>5. Right(s, cur + 1, r) /\ Right(s, l, cur - 1)
      BY ONLY <1>4, <3>4, l \in 1 .. a.num + 1, r \in 0 .. a.num
    <3> QED
      BY ONLY <1>1, <3>2, <3>3, <3>5 DEF Turned
  <2> QED
    BY <1>0, <2>1, <2>2
<1>5. a.num \in S
  <2> HIDE DEF S
  <2> QED
    BY <1>0, <1>3, <1>4, Induction
<1>6. Right(s, 1, a.num)
  BY <1>0, <1>5
<1>7. Within(a, k, found, 1, a.num, type) = Answer(a, k, found, type)
  <2>1. CASE k = 0
    <3>1. ~ found
      BY <2>1 DEF Splits
    <3>2. a.num > 0 \/ a.num = 0
      BY <1>0
    <3> QED
      BY <1>0, <2>1, <3>1, <3>2 DEF Within, Answer
  <2>2. CASE k # 0
    BY <1>0, <2>2 DEF Within
  <2> QED
    BY <2>1, <2>2
<1> QED
  BY ONLY <1>1, <1>6, <1>7

(* The messages whose id is not greater than u, and whether one has it.    *)
NotAfter(a, id, u) == {n \in 1 .. a.num : id[n] <= u}
Has(a, id, u)  == \E n \in 1 .. a.num : id[n] = u

(* Ids in order split at any id.                                           *)
LEMMA SplitsSomewhere ==
  ASSUME NEW a, a.num \in Nat, NEW id \in [1 .. a.num -> Nat], NEW u \in Nat,
         \A n \in 1 .. a.num : a.table[n].at = id[n],
         \A m, n \in 1 .. a.num : m < n => id[m] < id[n]
  PROVE  \E k \in 0 .. a.num, f \in BOOLEAN :
           /\ Splits(a, id, u, k, f) /\ NotAfter(a, id, u) = 1 .. k
           /\ f <=> Has(a, id, u)
<1> DEFINE T == {n \in 1 .. a.num + 1 : n \in 1 .. a.num => id[n] > u}
<1>1. T \in SUBSET Nat /\ a.num + 1 \in T
  OBVIOUS
<1>2. PICK m \in T : \A n \in T : m <= n
  BY <1>1, LeastNumber
<1>3. PICK k \in 0 .. a.num : k = m - 1
  OBVIOUS
<1>4. ASSUME NEW n \in 1 .. a.num PROVE n <= k <=> id[n] <= u
  <2>1. CASE n <= k
    <3>1. ~ (m <= n) /\ n \in 1 .. a.num + 1
      BY <1>3, <2>1
    <3>2. ~ (id[n] > u)
      BY <1>2, <3>1
    <3> QED
      BY <2>1, <3>2
  <2>2. CASE ~ (n <= k)
    <3>1. m <= n /\ m \in 1 .. a.num /\ id[m] > u
      BY <1>3, <2>2
    <3>2. m = n \/ id[m] < id[n]
      BY <3>1
    <3> QED
      BY <2>2, <3>1, <3>2
  <2> QED
    BY <2>1, <2>2
<1>5. {n \in 1 .. a.num : id[n] <= u} = 1 .. k
  <2>1. 1 .. k \subseteq 1 .. a.num
    OBVIOUS
  <2>2. \A n \in 1 .. a.num : n \in 1 .. k <=> n <= k
    OBVIOUS
  <2> QED
    BY ONLY <1>4, <2>1, <2>2
<1>6. PICK f \in BOOLEAN : f <=> Has(a, id, u)
  OBVIOUS
<1>7. Splits(a, id, u, k, f)
  BY <1>4, <1>6 DEF Splits, Has
<1>8. NotAfter(a, id, u) = 1 .. k
  BY ONLY <1>5 DEF NotAfter
<1> QED
  BY ONLY <1>6, <1>7, <1>8, k \in 0 .. a.num

(* The table of a process that has read it is one to search in.            *)
LEMMA SearchIn ==
  ASSUME NEW a, a.num \in Nat, NEW id \in [1 .. a.num -> Nat], NEW u \in Nat,
         \A n \in 1 .. a.num : a.table[n].at = id[n],
         \A m, n \in 1 .. a.num : m < n => id[m] < id[n]
  PROVE  Finds(a, u)
<1>1. PICK k \in 0 .. a.num, f \in BOOLEAN :
         /\ Splits(a, id, u, k, f) /\ NotAfter(a, id, u) = 1 .. k
         /\ f <=> Has(a, id, u)
  BY SplitsSomewhere
<1>2. Cardinality(1 .. k) = k
  BY FS_Interval
<1>3. {n \in 1 .. a.num : a.table[n].at <= u} = NotAfter(a, id, u)
  BY DEF NotAfter
<1>4. (\E n \in 1 .. a.num : a.table[n].at = u) <=> f
  BY <1>1 DEF Has
<1>7. /\ UidToMsgn(a, u, "exact") = Answer(a, k, f, "exact")
      /\ UidToMsgn(a, u, "prev")  = Answer(a, k, f, "prev")
      /\ UidToMsgn(a, u, "next")  = Answer(a, k, f, "next")
  BY ONLY <1>1, SearchAnswers
<1>8. /\ Answer(a, k, f, "exact") = IF f THEN k ELSE 0
      /\ Answer(a, k, f, "prev")  = k
      /\ f \/ k < a.num =>
           Answer(a, k, f, "next") = IF f THEN k ELSE k + 1
  BY DEF Answer, Missed
<1>9. Cardinality({n \in 1 .. a.num : a.table[n].at <= u}) = k
  BY ONLY <1>1, <1>2, <1>3
<1> QED
  BY ONLY <1>4, <1>7, <1>8, <1>9 DEF Finds

(* In every table that a process has read, JamUidToMsgn finds the message  *)
(* of an id, and for an id that is gone the message before it, or the one  *)
(* behind it when there is one.                                            *)
THEOREM SearchFindsHolds ==
  ASSUME SoleEditor, Polite PROVE Spec => []SearchFinds
<1>1. Inv => SearchFinds
  <2> SUFFICES ASSUME Inv, NEW p \in Procs, area[p].read, NEW u \in Ids
               PROVE  Finds(area[p], u)
    BY DEF SearchFinds
  <2>1. PICK a : a = area[p]
    OBVIOUS
  <2>2. /\ a.table \in Seq(SlotType) /\ Len(a.table) = a.num /\ Ascends(a)
        /\ a.num \in Nat
    BY <2>1, ProcIs DEF AreaType, TableOK
  <2>3. \A n \in 1 .. a.num : a.table[n].at \in Nat
    <3>1. \A n \in 1 .. a.num : a.table[n] \in SlotType
      BY ONLY <2>2
    <3>2. Ids \subseteq Nat
      BY JamAssumption DEF Ids
    <3> QED
      BY ONLY <3>1, <3>2 DEF SlotType
  <2>4. PICK id : id = [n \in 1 .. a.num |-> a.table[n].at]
    OBVIOUS
  <2>5. /\ id \in [1 .. a.num -> Nat]
        /\ \A n \in 1 .. a.num : a.table[n].at = id[n]
    BY <2>3, <2>4
  <2>6. \A m, n \in 1 .. a.num : m < n => id[m] < id[n]
    BY <2>2, <2>5 DEF Ascends
  <2>7. u \in Nat
    BY DEF Ids
  <2> QED
    BY ONLY <2>1, <2>2, <2>5, <2>6, <2>7, SearchIn
<1> QED
  BY <1>1, InvAlways, PTL
=============================================================================
