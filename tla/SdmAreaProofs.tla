--------------------------- MODULE SdmAreaProofs ---------------------------
(* Proofs about a *.MSG area, for any number of processes, ids and files.  *)
EXTENDS SdmArea, AscendingProofs, SequenceTheorems

---------------------------------------------------------------------------
(***************************************************************************)
(* The table.                                                              *)
(***************************************************************************)
(* Without entry n, the entries behind it move down.                       *)
LEMMA MovedOverIs ==
  ASSUME NEW S, NEW s \in Seq(S), NEW n \in 1 .. Len(s)
  PROVE  /\ MovedOver(s, n) \in Seq(S)
         /\ Len(MovedOver(s, n)) = Len(s)
         /\ \A k \in 1 .. Len(s) :
              MovedOver(s, n)[k] = IF k >= n /\ k < Len(s) THEN s[k + 1] ELSE s[k]
<1>1. Len(s) \in Nat /\ DOMAIN s = 1 .. Len(s)
  OBVIOUS
<1>2. \A k \in 1 .. Len(s) :
        (IF k >= n /\ k < Len(s) THEN s[k + 1] ELSE s[k]) \in S
  BY <1>1
<1> QED
  BY <1>1, <1>2 DEF MovedOver

LEMMA WithoutIs ==
  ASSUME NEW S, NEW s \in Seq(S), NEW n \in 1 .. Len(s)
  PROVE  /\ Without(s, n) \in Seq(S)
         /\ Len(Without(s, n)) = Len(s) - 1
         /\ \A k \in 1 .. Len(s) - 1 :
              Without(s, n)[k] = IF k >= n THEN s[k + 1] ELSE s[k]
<1> DEFINE r == MovedOver(s, n)
           t == SubSeq(r, 1, Len(s) - 1)
<1>1. Len(s) \in Nat /\ Len(s) >= 1
  OBVIOUS
<1>2. /\ r \in Seq(S) /\ Len(r) = Len(s)
      /\ \A k \in 1 .. Len(s) :
           r[k] = IF k >= n /\ k < Len(s) THEN s[k + 1] ELSE s[k]
  BY MovedOverIs
<1> HIDE DEF r
<1>3. /\ t \in Seq(S)
      /\ Len(t) = Len(s) - 1
      /\ \A k \in 1 .. Len(s) - 1 : t[k] = r[k]
  BY <1>1, <1>2
<1>4. \A k \in 1 .. Len(s) - 1 : t[k] = IF k >= n THEN s[k + 1] ELSE s[k]
  BY <1>1, <1>2, <1>3
<1> QED
  BY <1>3, <1>4 DEF r, Without

Present == {u \in Ids : disk[u] # NoFile}

(* A scan finds the ids that have a file, in ascending order.              *)
LEMMA ListedIs ==
  /\ Listed \in Seq(Ids)
  /\ Len(Listed) = Cardinality(Present)
  /\ \A n \in 1 .. Len(Listed) : Listed[n] \in Present
  /\ \A m, n \in 1 .. Len(Listed) : m < n => Listed[m] < Listed[n]
  /\ \A u \in Present : /\ Len(Listed) >= 1
                        /\ Listed[1] <= u /\ u <= Listed[Len(Listed)]
<1>1. Present \in SUBSET Ids /\ Present \in SUBSET Int /\ IsFiniteSet(Present)
  <2>1. IsFiniteSet(Ids)
    BY SdmAssumption, FS_Interval DEF Ids
  <2>2. Present \in SUBSET Ids /\ Present \in SUBSET Int
    BY DEF Present, Ids
  <2> QED
    BY <2>1, <2>2, FS_Subset
<1>2. Listed = InOrder(Present)
  BY DEF Listed, Present
<1>3. /\ Listed \in Seq(Present) /\ Len(Listed) = Cardinality(Present)
      /\ Cardinality(Present) \in Nat
  BY <1>1, <1>2, InOrderIsSequence
<1>4. \A m, n \in 1 .. Len(Listed) : m < n => Listed[m] < Listed[n]
  BY <1>1, <1>2, <1>3, InOrderAscends
<1>5. \A u \in Present : /\ Len(Listed) >= 1
                         /\ Listed[1] <= u /\ u <= Listed[Len(Listed)]
  BY <1>1, <1>2, <1>3, InOrderEnds
<1>6. Listed \in Seq(Ids)
  BY <1>1, <1>3, SeqMonotonic
<1>7. \A n \in 1 .. Len(Listed) : Listed[n] \in Present
  BY <1>3
<1> QED
  BY <1>3, <1>4, <1>5, <1>6, <1>7

Counted(a) == Len(a.table) = a.num /\ Len(a.saw) = a.num

(* What a scan leaves in memory.                                           *)
LEMMA RescanIs ==
  ASSUME TypeOK, NEW a \in AreaType
  PROVE  LET r == RescanArea(a)
         IN /\ r \in AreaType
            /\ Counted(r)
            /\ r.table = Listed
            /\ \A n \in 1 .. Len(Listed) : r.saw[n] = disk[Listed[n]]
            /\ r.open = a.open /\ r.mark = a.mark /\ r.chgd = a.chgd
            /\ r.cur = a.cur
            /\ r.high = Most(a.high, IF Listed = <<>> THEN 0
                                     ELSE Listed[Len(Listed)])
            /\ \A u \in Ids : u > r.high => disk[u] = NoFile
<1> DEFINE t == Listed
           saw == [n \in DOMAIN t |-> disk[t[n]]]
           last == IF t = <<>> THEN 0 ELSE t[Len(t)]
           r == RescanArea(a)
<1>1. /\ t \in Seq(Ids) /\ Len(t) \in Nat /\ DOMAIN t = 1 .. Len(t)
      /\ t = <<>> <=> Len(t) = 0
  BY ListedIs
<1>2. saw \in Seq(0 .. MaxFile) /\ Len(saw) = Len(t)
  <2>1. \A n \in 1 .. Len(t) : disk[t[n]] \in 0 .. MaxFile
    BY <1>1 DEF TypeOK
  <2> QED
    BY <1>1, <2>1
<1>3. last \in 0 .. MaxId
  BY <1>1, SdmAssumption DEF Ids
<1>4. t \in Seq(0 .. MaxId)
  BY <1>1, SdmAssumption DEF Ids
<1>5. r = [a EXCEPT !.num = Len(t), !.table = t, !.saw = saw,
                    !.high = Most(a.high, last)]
  BY DEF RescanArea, AreaType
<1>6. Most(a.high, last) \in 0 .. MaxId
  BY <1>3, SdmAssumption DEF Most, AreaType
<1> HIDE DEF saw, last, r, t
<1>7. r \in AreaType
  BY <1>1, <1>2, <1>4, <1>5, <1>6 DEF AreaType
<1>8. \A u \in Ids : u > r.high => disk[u] = NoFile
  <2> SUFFICES ASSUME NEW u \in Ids, disk[u] # NoFile
               PROVE  u <= r.high
    BY <1>7, SdmAssumption DEF AreaType, Ids
  <2>1. Len(t) >= 1 /\ u <= t[Len(t)]
    BY ListedIs DEF Present, t
  <2>2. last = t[Len(t)] /\ last \in Int
    BY <1>1, <1>3, <2>1 DEF last
  <2>3. r.high = Most(a.high, last) /\ a.high \in Int /\ u \in Int
    BY <1>5 DEF AreaType, Ids
  <2> QED
    BY <2>1, <2>2, <2>3 DEF Most
<1> QED
  BY <1>1, <1>2, <1>5, <1>7, <1>8 DEF AreaType, Counted, t, saw, last, r

---------------------------------------------------------------------------
(***************************************************************************)
(* The high water mark.                                                    *)
(***************************************************************************)
(* Fetching the mark changes the mark and the current message at most.     *)
LEMMA FetchedIs ==
  ASSUME TypeOK, NEW a \in AreaType, NEW d \in [Ids -> 0 .. MaxFile]
  PROVE  LET f == Fetched(a, d)
         IN /\ f \in AreaType
            /\ f.open = a.open /\ f.num = a.num /\ f.high = a.high
            /\ f.table = a.table /\ f.saw = a.saw /\ f.chgd = a.chgd
            /\ a.mark # NotRead => f.mark = a.mark
            /\ f.cur # a.cur => f.cur = 1 /\ a.num # 0
            /\ f.mark # a.mark =>
                 /\ a.num # 0 /\ a.table[1] \in Ids /\ d[a.table[1]] # NoFile
                 /\ f.mark = IF body[d[a.table[1]]].is = "mark"
                             THEN body[d[a.table[1]]].n ELSE 0
<1> DEFINE u == MsgnToUid(a, 1)
           f == Fetched(a, d)
<1>1. CASE a.mark # NotRead \/ a.num = 0 \/ u \notin Ids \/ d[u] = NoFile
  BY <1>1 DEF Fetched
<1>2. CASE a.mark = NotRead /\ a.num # 0 /\ u \in Ids /\ d[u] # NoFile
  <2> DEFINE m == IF body[d[u]].is = "mark" THEN body[d[u]].n ELSE 0
  <2>1. f = [a EXCEPT !.cur = 1, !.mark = m]
    BY <1>2 DEF Fetched
  <2>2. d[u] \in Files
    BY <1>2, SdmAssumption DEF Files, NoFile
  <2>3. m \in 0 .. MaxId
    <3>1. body[d[u]] \in Content
      BY <2>2 DEF TypeOK
    <3> QED
      BY <3>1, SdmAssumption DEF Content
  <2>4. u = a.table[1]
    BY DEF MsgnToUid
  <2> HIDE DEF f, m, u
  <2>5. f \in AreaType
    BY <2>1, <2>3 DEF AreaType
  <2> QED
    BY <2>1, <2>4, <2>5, <1>2 DEF AreaType, f, m
<1> QED
  BY <1>1, <1>2

(* Lowering it changes the mark at most, one that is not 0, and says so.   *)
LEMMA LowerMarkIs ==
  ASSUME NEW a \in AreaType, NEW n \in Ids
  PROVE  LET b == LowerMark(a, n)
         IN /\ b \in AreaType
            /\ b.open = a.open /\ b.num = a.num /\ b.high = a.high
            /\ b.table = a.table /\ b.saw = a.saw /\ b.cur = a.cur
            /\ b # a => /\ a.mark # NotRead /\ a.mark # 0
                        /\ b.mark = n - 1
                        /\ b.chgd = (a.chgd \/ n - 1 # a.mark)
<1>1. CASE ~(HighWater(a) >= n)
  BY <1>1 DEF LowerMark
<1>2. CASE HighWater(a) >= n
  <2>1. a.mark # NotRead /\ a.mark # 0
    BY <1>2 DEF HighWater, UidToPrev, NoId, Ids
  <2>2. LowerMark(a, n) = [a EXCEPT !.mark = n - 1, !.chgd = @ \/ (n - 1 # a.mark)]
    BY <1>2 DEF LowerMark, SetMark
  <2>3. n - 1 \in 0 .. MaxId
    BY SdmAssumption DEF Ids
  <2> QED
    BY <2>1, <2>2, <2>3 DEF AreaType
<1> QED
  BY <1>1, <1>2

---------------------------------------------------------------------------
(***************************************************************************)
(* Types.                                                                  *)
(***************************************************************************)
TypedProc(a, w) ==
  /\ Len(a.table) = a.num - (IF w = NoNew THEN 0 ELSE 1)
  /\ Len(a.saw) = Len(a.table)
  /\ a.chgd => a.mark # NotRead
  /\ w # NoNew => a.open

LEMMA InitTypes == Init => TypeOK
<1> SUFFICES ASSUME Init PROVE TypeOK
  OBVIOUS
<1>1. PICK marked \in BOOLEAN :
        /\ disk = [u \in Ids |-> IF marked /\ u = 1 THEN 1 ELSE NoFile]
        /\ body = [i \in Files |-> IF marked /\ i = 1 THEN Mark(0) ELSE Empty]
        /\ born = IF marked THEN 1 ELSE 0
        /\ wanted = [mark |-> 0, born |-> born]
  BY DEF Init
<1>2. Shut \in AreaType /\ Len(Shut.table) = 0 /\ Len(Shut.saw) = 0
  BY SdmAssumption DEF Shut, AreaType
<1>3. disk \in [Ids -> 0 .. MaxFile] /\ born \in 0 .. MaxFile
  BY <1>1, SdmAssumption DEF NoFile
<1>4. body \in [Files -> Content]
  <2>1. Mark(0) \in Content /\ Empty \in Content
    BY SdmAssumption DEF Mark, Empty, Content
  <2> QED
    BY <1>1, <2>1
<1>5. wanted \in [mark : 0 .. MaxId, born : 0 .. MaxFile]
  BY <1>1, <1>3, SdmAssumption
<1>6. /\ area = [p \in Procs |-> Shut]
      /\ new = [p \in Procs |-> NoNew]
      /\ msgh = [p \in Procs |-> NoMsg]
      /\ home = [b \in Files |-> NoId]
  BY DEF Init
<1>7. /\ area \in [Procs -> AreaType]
      /\ new \in [Procs -> NewType]
      /\ msgh \in [Procs -> MsghType]
      /\ home \in [Files -> 0 .. MaxId]
  BY <1>2, <1>6, SdmAssumption
     DEF NoNew, NoMsg, NoFile, NoId, NewType, MsghType
<1>8. \A p \in Procs : TypedProc(area[p], new[p])
  BY <1>2, <1>6 DEF Shut, TypedProc
<1> QED
  BY <1>3, <1>4, <1>5, <1>7, <1>8 DEF TypeOK, TypedProc

(* A step of one process: the other processes' tables stay as they are.    *)
LEMMA ProcTypes ==
  ASSUME TypeOK, NEW p \in Procs, NEW a \in AreaType, NEW w \in NewType,
         TypedProc(a, w),
         area' = [area EXCEPT ![p] = a], new' = [new EXCEPT ![p] = w]
  PROVE  /\ area' \in [Procs -> AreaType] /\ new' \in [Procs -> NewType]
         /\ \A q \in Procs : TypedProc(area'[q], new'[q])
<1>1. /\ area' \in [Procs -> AreaType] /\ new' \in [Procs -> NewType]
      /\ area'[p] = a /\ new'[p] = w
      /\ \A q \in Procs \ {p} : area'[q] = area[q] /\ new'[q] = new[q]
  BY DEF TypeOK
<1>2. \A q \in Procs : TypedProc(area[q], new[q])
  BY DEF TypeOK, TypedProc
<1> QED
  BY <1>1, <1>2

(* The same when no message is being created, before or after it.          *)
LEMMA AreaTypes ==
  ASSUME TypeOK, NEW p \in Procs, NEW a \in AreaType, Counted(a),
         a.chgd => a.mark # NotRead, new[p] = NoNew,
         area' = [area EXCEPT ![p] = a], new' = new
  PROVE  /\ area' \in [Procs -> AreaType] /\ new' \in [Procs -> NewType]
         /\ \A q \in Procs : TypedProc(area'[q], new'[q])
<1>1. new' = [new EXCEPT ![p] = new[p]] /\ new[p] \in NewType
  BY DEF TypeOK
<1>2. TypedProc(a, new[p])
  BY DEF TypedProc, Counted, AreaType
<1> QED
  BY <1>1, <1>2, ProcTypes

LEMMA OpenAreaTypes ==
  ASSUME TypeOK, NEW p \in Procs, OpenArea(p) PROVE TypeOK'
<1>1. Shut \in AreaType
  BY SdmAssumption DEF Shut, AreaType
<1> DEFINE s == [Shut EXCEPT !.open = TRUE]
           r == RescanArea(s)
<1>2. s \in AreaType /\ s.chgd = FALSE
  BY <1>1 DEF Shut, AreaType
<1> HIDE DEF s
<1>3. r \in AreaType /\ Counted(r) /\ r.chgd = FALSE
  BY <1>2, RescanIs
<1>4. area' = [area EXCEPT ![p] = r]
  BY DEF OpenArea, s
<1> HIDE DEF r
<1>5. new[p] = NoNew
  BY DEF OpenArea, TypeOK
<1> QED
  BY <1>3, <1>4, <1>5, AreaTypes DEF TypeOK, OpenArea, TypedProc

(* Between two calls the table has num_msg entries.                        *)
LEMMA IdleIs ==
  ASSUME TypeOK, NEW p \in Procs, Idle(p)
  PROVE  /\ area[p] \in AreaType /\ Counted(area[p])
         /\ new[p] = NoNew /\ area[p].open
         /\ area[p].chgd => area[p].mark # NotRead
BY DEF TypeOK, Idle, Counted, AreaType

LEMMA CloseAreaTypes ==
  ASSUME TypeOK, NEW p \in Procs, CloseArea(p) PROVE TypeOK'
<1> DEFINE a == area[p]
           b == IF msgh[p].mode = "closed" THEN Shut
                ELSE IF a.chgd THEN [a EXCEPT !.cur = 1] ELSE a
<1>1. /\ a \in AreaType /\ Counted(a) /\ new[p] = NoNew
      /\ a.chgd => a.mark # NotRead
  BY IdleIs DEF CloseArea
<1>2. Shut \in AreaType /\ Counted(Shut) /\ ~Shut.chgd
  BY SdmAssumption DEF Shut, AreaType, Counted
<1>3. b \in AreaType /\ Counted(b) /\ (b.chgd => b.mark # NotRead)
  BY <1>1, <1>2 DEF AreaType, Counted
<1>4. area' = [area EXCEPT ![p] = b] /\ new' = new
  BY DEF CloseArea
<1> HIDE DEF b
<1>5. body' \in [Files -> Content]
  <2>1. CASE a.chgd
    <3>1. Mark(a.mark) \in Content
      BY <1>1, <2>1 DEF AreaType, Mark, Content
    <3> QED
      BY <2>1, <3>1 DEF CloseArea, Marked, TypeOK
  <2>2. CASE ~a.chgd
    BY <2>2 DEF CloseArea, TypeOK
  <2> QED
    BY <2>1, <2>2
<1> QED
  BY <1>1, <1>3, <1>4, <1>5, AreaTypes DEF TypeOK, CloseArea, TypedProc

LEMMA OpenMsgTypes ==
  ASSUME TypeOK, NEW p \in Procs, NEW n \in Ids, OpenMsg(p, n) PROVE TypeOK'
<1> DEFINE b == [area[p] EXCEPT !.cur = n]
<1>1. /\ area[p] \in AreaType /\ Counted(area[p]) /\ new[p] = NoNew
      /\ area[p].chgd => area[p].mark # NotRead
  BY IdleIs DEF OpenMsg
<1>2. b \in AreaType /\ Counted(b) /\ (b.chgd => b.mark # NotRead)
  BY <1>1 DEF AreaType, Counted, Ids
<1>3. area' = [area EXCEPT ![p] = b] /\ new' = new
  BY DEF OpenMsg
<1> HIDE DEF b
<1>4. msgh' \in [Procs -> MsghType]
  <2>1. msgh \in [Procs -> MsghType]
    BY DEF TypeOK
  <2>2. [msgh[p] EXCEPT !.mode = "read"] \in MsghType
    <3>1. msgh[p] \in MsghType /\ msgh[p].mode = "closed"
      BY <2>1 DEF OpenMsg
    <3>2. msgh[p] = [mode |-> "closed", ino |-> NoFile, b |-> 0, id |-> NoId]
      BY ONLY <3>1 DEF MsghType
    <3>3. [msgh[p] EXCEPT !.mode = "read"]
            = [mode |-> "read", ino |-> NoFile, b |-> 0, id |-> NoId]
      BY ONLY <3>2
    <3> QED
      BY ONLY <3>3 DEF MsghType
  <2>3. msgh' = [msgh EXCEPT ![p] = [msgh[p] EXCEPT !.mode = "read"]]
    BY ONLY OpenMsg(p, n) DEF OpenMsg
  <2> QED
    BY ONLY <2>1, <2>2, <2>3, p \in Procs
<1>5. /\ area' \in [Procs -> AreaType] /\ new' \in [Procs -> NewType]
      /\ \A q \in Procs : TypedProc(area'[q], new'[q])
  BY <1>1, <1>2, <1>3, AreaTypes
<1>6. UNCHANGED <<disk, body, born, home, wanted>>
  BY DEF OpenMsg
<1> QED
  BY <1>4, <1>5, <1>6 DEF TypeOK, TypedProc

LEMMA CloseMsgTypes ==
  ASSUME TypeOK, NEW p \in Procs, CloseMsg(p) PROVE TypeOK'
<1>1. NoMsg \in MsghType
  BY SdmAssumption DEF NoMsg, MsghType, NoFile, NoId
<1> QED
  BY <1>1 DEF TypeOK, CloseMsg

LEMMA NextIdTypes ==
  ASSUME TypeOK, NEW p \in Procs, NextId(p) PROVE TypeOK'
<1> DEFINE a == area[p]
           b == IF FreeId(a) \in Ids /\ disk[FreeId(a)] # NoFile
                THEN RescanArea(a) ELSE a
           first == IsEcho /\ b.num = 0
           n == b.num + 1
           high == IF first THEN 2 ELSE FreeId(b)
           c == [b EXCEPT !.num = n, !.high = high]
           w == [num |-> IF first THEN 2 ELSE b.num + 1, id |-> FreeId(b)]
<1>1. /\ a \in AreaType /\ Counted(a) /\ new[p] = NoNew /\ a.open
      /\ a.chgd => a.mark # NotRead
  BY IdleIs DEF NextId
<1>2. /\ b \in AreaType /\ Counted(b) /\ b.open
      /\ b.chgd => b.mark # NotRead
  BY <1>1, RescanIs
<1>3. /\ FreeId(b) \in Ids
      /\ area' = [area EXCEPT ![p] = c] /\ new' = [new EXCEPT ![p] = w]
      /\ UNCHANGED <<disk, body, born, msgh, home, wanted>>
  BY DEF NextId
<1> HIDE DEF b
<1>4. w \in NewType /\ w # NoNew
  BY <1>2, <1>3, SdmAssumption DEF AreaType, NewType, Ids, NoNew
<1>5. b.num \in Nat /\ n \in Nat /\ n = b.num + 1 /\ high \in 0 .. MaxId
  BY <1>2, <1>3, SdmAssumption DEF AreaType, Ids
<1> HIDE DEF n, high
<1>6. c \in AreaType
  BY <1>2, <1>5 DEF AreaType
<1>7. /\ c.num = b.num + 1 /\ c.table = b.table /\ c.saw = b.saw
      /\ c.mark = b.mark /\ c.chgd = b.chgd /\ c.open = b.open
  BY <1>2, <1>5 DEF AreaType
<1> HIDE DEF c, w
<1>8. TypedProc(c, w)
  BY <1>2, <1>4, <1>5, <1>7 DEF TypedProc, Counted
<1> QED
  BY <1>3, <1>4, <1>6, <1>8, ProcTypes DEF TypeOK, TypedProc

(* While a message is being created the table is one entry short.          *)
LEMMA CreatingIs ==
  ASSUME TypeOK, NEW p \in Procs, new[p] # NoNew
  PROVE  /\ area[p] \in AreaType /\ area[p].open
         /\ area[p].num = Len(area[p].table) + 1
         /\ Len(area[p].saw) = Len(area[p].table)
         /\ area[p].chgd => area[p].mark # NotRead
         /\ new[p].id \in Ids /\ new[p].num \in Nat
BY DEF TypeOK, AreaType, NewType

LEMMA MakeFileTypes ==
  ASSUME TypeOK, NEW p \in Procs, MakeFile(p) PROVE TypeOK'
<1> DEFINE a == area[p]
           u == new[p].id
           b == born + 1
           i == IF disk[u] = NoFile THEN b ELSE disk[u]
<1>1. /\ a \in AreaType /\ a.num = Len(a.table) + 1
      /\ Len(a.saw) = Len(a.table) /\ a.open
      /\ a.chgd => a.mark # NotRead
  BY CreatingIs DEF MakeFile
<1>2. u \in Ids /\ b \in Files /\ b = born + 1 /\ new[p].num \in Nat
  BY CreatingIs DEF MakeFile
<1>3. i \in Files
  BY <1>2, SdmAssumption DEF TypeOK, Files, NoFile
<1>4. PICK junk \in Garbage :
        area' = [area EXCEPT ![p].cur = new[p].num, ![p].num = @ + 1,
                             ![p].table = @ \o <<junk, u>>,
                             ![p].saw = @ \o <<NoFile, i>>]
  BY DEF MakeFile
<1> DEFINE c == [a EXCEPT !.cur = new[p].num, !.num = @ + 1,
                          !.table = @ \o <<junk, u>>, !.saw = @ \o <<NoFile, i>>]
           m == [mode |-> "new", ino |-> i, b |-> b, id |-> u]
<1>5. area' = [area EXCEPT ![p] = c] /\ msgh' = [msgh EXCEPT ![p] = m]
  <2>1. area' = [area EXCEPT ![p] = c]
    BY ONLY <1>4
  <2>2. msgh' = [msgh EXCEPT ![p] = m]
    BY ONLY MakeFile(p) DEF MakeFile
  <2> QED
    BY <2>1, <2>2
<1>6. /\ disk' = [disk EXCEPT ![u] = i] /\ body' = [body EXCEPT ![i] = Empty]
      /\ born' = b /\ new' = [new EXCEPT ![p] = NoNew]
      /\ UNCHANGED <<home, wanted>>
  BY DEF MakeFile
<1> HIDE DEF i, b
<1>7. c \in AreaType /\ TypedProc(c, NoNew)
  <2>1. <<junk, u>> \in Seq(0 .. MaxId) /\ <<NoFile, i>> \in Seq(0 .. MaxFile)
    BY <1>2, <1>3, SdmAssumption DEF Ids, Files, NoFile
  <2>2. a.table \in Seq(0 .. MaxId) /\ a.saw \in Seq(0 .. MaxFile)
    BY <1>1 DEF AreaType
  <2>3. /\ a.table \o <<junk, u>> \in Seq(0 .. MaxId)
        /\ Len(a.table \o <<junk, u>>) = Len(a.table) + 2
        /\ a.saw \o <<NoFile, i>> \in Seq(0 .. MaxFile)
        /\ Len(a.saw \o <<NoFile, i>>) = Len(a.saw) + 2
    BY <2>1, <2>2
  <2>4. a.num \in Nat /\ Len(a.table) \in Nat
    BY <1>1 DEF AreaType
  <2> DEFINE t == a.table \o <<junk, u>>
             saw == a.saw \o <<NoFile, i>>
             n == a.num + 1
  <2>5. c = [a EXCEPT !.cur = new[p].num, !.num = n, !.table = t, !.saw = saw]
    OBVIOUS
  <2>6. n \in Nat /\ t \in Seq(0 .. MaxId) /\ saw \in Seq(0 .. MaxFile)
    BY <2>3, <2>4
  <2> HIDE DEF c, n, t, saw
  <2>7. c \in AreaType
    BY <1>1, <1>2, <2>5, <2>6 DEF AreaType
  <2> USE DEF c, n, t, saw
  <2>8. /\ c.table = a.table \o <<junk, u>> /\ c.saw = a.saw \o <<NoFile, i>>
        /\ c.num = a.num + 1 /\ c.chgd = a.chgd /\ c.mark = a.mark
    BY <1>1 DEF AreaType
  <2> HIDE DEF c
  <2> QED
    BY <1>1, <2>3, <2>4, <2>7, <2>8 DEF TypedProc
<1>8. m \in MsghType /\ NoNew \in NewType /\ Empty \in Content
  BY <1>2, <1>3 DEF MsghType, NewType, Empty, Content
<1> HIDE DEF c, m
<1>9. /\ disk' \in [Ids -> 0 .. MaxFile] /\ body' \in [Files -> Content]
      /\ born' \in 0 .. MaxFile /\ msgh' \in [Procs -> MsghType]
  BY <1>2, <1>3, <1>5, <1>6, <1>8, SdmAssumption DEF TypeOK, Files
<1> QED
  BY <1>5, <1>6, <1>7, <1>8, <1>9, ProcTypes DEF TypeOK, TypedProc

LEMMA MakeFileFailsTypes ==
  ASSUME TypeOK, NEW p \in Procs, MakeFileFails(p) PROVE TypeOK'
<1> DEFINE a == area[p]
<1>1. /\ a \in AreaType /\ a.num = Len(a.table) + 1
      /\ Len(a.saw) = Len(a.table) /\ a.open
      /\ a.chgd => a.mark # NotRead
  BY CreatingIs DEF MakeFileFails
<1>2. PICK junk \in Garbage :
        area' = [area EXCEPT ![p].table = Append(@, junk),
                             ![p].saw = Append(@, NoFile)]
  BY DEF MakeFileFails
<1> DEFINE c == [a EXCEPT !.table = Append(@, junk), !.saw = Append(@, NoFile)]
<1>3. area' = [area EXCEPT ![p] = c]
  BY <1>2
<1>4. c \in AreaType /\ TypedProc(c, NoNew)
  <2>1. junk \in 0 .. MaxId /\ NoFile \in 0 .. MaxFile
    BY SdmAssumption DEF NoFile
  <2>2. a.table \in Seq(0 .. MaxId) /\ a.saw \in Seq(0 .. MaxFile)
    BY <1>1 DEF AreaType
  <2>3. /\ Append(a.table, junk) \in Seq(0 .. MaxId)
        /\ Len(Append(a.table, junk)) = Len(a.table) + 1
        /\ Append(a.saw, NoFile) \in Seq(0 .. MaxFile)
        /\ Len(Append(a.saw, NoFile)) = Len(a.saw) + 1
    BY <2>1, <2>2
  <2>4. c \in AreaType
    BY <1>1, <2>3 DEF AreaType
  <2> QED
    BY <1>1, <2>3, <2>4 DEF TypedProc, AreaType
<1> HIDE DEF c
<1>5. NoNew \in NewType /\ new' = [new EXCEPT ![p] = NoNew]
  BY DEF NewType, MakeFileFails
<1> QED
  BY <1>3, <1>4, <1>5, ProcTypes DEF TypeOK, MakeFileFails, TypedProc

LEMMA WriteMsgTypes ==
  ASSUME TypeOK, NEW p \in Procs, WriteMsg(p) PROVE TypeOK'
<1> DEFINE c == msgh[p]
<1>1. c.b \in Files /\ c.id \in Ids
  BY DEF WriteMsg, TypeOK, MsghType
<1>2. Msg(c.b) \in Content
  BY <1>1 DEF Msg, Content
<1>3. body' \in [Files -> Content]
  BY <1>2 DEF WriteMsg, TypeOK
<1>4. home' \in [Files -> 0 .. MaxId]
  BY <1>1, SdmAssumption DEF WriteMsg, TypeOK, Ids
<1> QED
  BY <1>3, <1>4 DEF TypeOK, WriteMsg

(* KillMsg takes the message off the table, fetches the mark, lowers it.   *)
Short(p, n)   == LowerHigh(Taken(area[p], n), area[p].table[n])
Unlinked(p, n) == [disk EXCEPT ![area[p].table[n]] = NoFile]
Marks(p, n)   == Fetched(Short(p, n), Unlinked(p, n))
Lower(p, n)   == LowerMark(Marks(p, n), n)
Killed(p, n)  == [Lower(p, n) EXCEPT !.cur = IF @ >= n THEN @ - 1 ELSE @]

LEMMA ShortIs ==
  ASSUME TypeOK, NEW p \in Procs, NEW n \in Ids, Idle(p), n <= area[p].num
  PROVE  LET a == area[p]
             s == Short(p, n)
         IN /\ s \in AreaType /\ Counted(s) /\ s.num = a.num - 1
            /\ s.open = a.open /\ s.mark = a.mark /\ s.chgd = a.chgd
            /\ s.cur = a.cur
            /\ \A k \in 1 .. a.num - 1 :
                 /\ s.table[k] = IF k >= n THEN a.table[k + 1] ELSE a.table[k]
                 /\ s.saw[k] = IF k >= n THEN a.saw[k + 1] ELSE a.saw[k]
            /\ s.high = IF a.table[n] = a.high THEN MsgnToUid(s, s.num) ELSE a.high
<1> DEFINE a == area[p]
           m == a.num - 1
           table == Without(a.table, n)
           saw == Without(a.saw, n)
           t == Taken(a, n)
<1>1. /\ a \in AreaType /\ Len(a.table) = a.num /\ Len(a.saw) = a.num
      /\ a.num \in Nat /\ n \in 1 .. a.num /\ m \in Nat
  BY IdleIs, SdmAssumption DEF Counted, AreaType, Ids
<1>2. /\ a.table \in Seq(0 .. MaxId) /\ a.saw \in Seq(0 .. MaxFile)
      /\ m = Len(a.table) - 1 /\ m = Len(a.saw) - 1
  BY <1>1 DEF AreaType
<1> HIDE DEF a, m
<1>3. /\ table \in Seq(0 .. MaxId) /\ Len(table) = m
      /\ \A k \in 1 .. m :
           table[k] = IF k >= n THEN a.table[k + 1] ELSE a.table[k]
  BY <1>1, <1>2, WithoutIs
<1>4. /\ saw \in Seq(0 .. MaxFile) /\ Len(saw) = m
      /\ \A k \in 1 .. m : saw[k] = IF k >= n THEN a.saw[k + 1] ELSE a.saw[k]
  BY <1>1, <1>2, WithoutIs
<1>5. t = [a EXCEPT !.num = m, !.table = table, !.saw = saw]
  BY DEF Taken, a, m
<1> HIDE DEF table, saw, t
<1>6. t \in AreaType
  BY <1>1, <1>3, <1>4, <1>5 DEF AreaType
<1>7. /\ t.num = m /\ t.table = table /\ t.saw = saw /\ t.high = a.high
      /\ t.open = a.open /\ t.mark = a.mark /\ t.chgd = a.chgd /\ t.cur = a.cur
  BY <1>1, <1>5 DEF AreaType
<1> DEFINE last == MsgnToUid(t, t.num)
           s == Short(p, n)
<1>8. last \in 0 .. MaxId
  <2>1. CASE m = 0
    BY <2>1, <1>7, SdmAssumption DEF MsgnToUid, NoId
  <2>2. CASE m # 0
    <3>1. m \in 1 .. Len(table)
      BY <2>2, <1>1, <1>3
    <3>2. table[m] \in 0 .. MaxId
      BY <3>1, <1>3, ElementOfSeq
    <3>3. last = table[m]
      BY <2>2, <1>7 DEF MsgnToUid
    <3> QED
      BY <3>2, <3>3
  <2> QED
    BY <2>1, <2>2
<1>9. s = IF a.table[n] = t.high THEN [t EXCEPT !.high = last] ELSE t
  BY DEF Short, LowerHigh, a, t
<1> HIDE DEF last, s
<1>10. s \in AreaType
  BY <1>6, <1>8, <1>9 DEF AreaType
<1>11. /\ s.num = m /\ s.table = table /\ s.saw = saw
       /\ s.open = a.open /\ s.mark = a.mark /\ s.chgd = a.chgd /\ s.cur = a.cur
       /\ s.high = IF a.table[n] = a.high THEN last ELSE a.high
  BY <1>6, <1>7, <1>9 DEF AreaType
<1>12. last = MsgnToUid(s, s.num)
  BY <1>7, <1>11 DEF last, MsgnToUid
<1>13. Counted(s)
  BY <1>3, <1>4, <1>11 DEF Counted
<1> QED
  BY <1>3, <1>4, <1>10, <1>11, <1>12, <1>13 DEF a, m, s

LEMMA KilledIs ==
  ASSUME TypeOK, NEW p \in Procs, NEW n \in Ids, Idle(p), n <= area[p].num,
         area[p].table[n] \in Ids
  PROVE  LET a == area[p]
             s == Short(p, n)
             f == Marks(p, n)
             k == Killed(p, n)
         IN /\ k \in AreaType /\ Counted(k)
            /\ k.open = s.open /\ k.num = s.num /\ k.high = s.high
            /\ k.table = s.table /\ k.saw = s.saw
            /\ k.cur = (IF f.cur >= n THEN f.cur - 1 ELSE f.cur)
            /\ f.cur # a.cur => f.cur = 1 /\ s.num # 0
            /\ f.chgd = a.chgd
            /\ a.mark # NotRead => f.mark = a.mark
            /\ f.mark # a.mark =>
                 /\ s.num # 0 /\ s.table[1] \in Ids
                 /\ Unlinked(p, n)[s.table[1]] # NoFile
                 /\ f.mark = IF body[Unlinked(p, n)[s.table[1]]].is = "mark"
                             THEN body[Unlinked(p, n)[s.table[1]]].n ELSE 0
            /\ Lower(p, n) = f => k.mark = f.mark /\ k.chgd = f.chgd
            /\ Lower(p, n) # f => /\ f.mark # NotRead /\ f.mark # 0
                                  /\ k.mark = n - 1
                                  /\ k.chgd = (f.chgd \/ n - 1 # f.mark)
<1> DEFINE a == area[p]
           s == Short(p, n)
           d == Unlinked(p, n)
           f == Marks(p, n)
           b == Lower(p, n)
           k == Killed(p, n)
           cur == IF b.cur >= n THEN b.cur - 1 ELSE b.cur
<1>1. /\ s \in AreaType /\ Counted(s)
      /\ s.open = a.open /\ s.mark = a.mark /\ s.chgd = a.chgd /\ s.cur = a.cur
  BY ShortIs
<1>2. d \in [Ids -> 0 .. MaxFile]
  BY SdmAssumption DEF TypeOK, Unlinked, NoFile
<1>3. f = Fetched(s, d)
  BY DEF Marks
<1> HIDE DEF s, d, f
<1>4. /\ f \in AreaType
      /\ f.open = s.open /\ f.num = s.num /\ f.high = s.high
      /\ f.table = s.table /\ f.saw = s.saw /\ f.chgd = s.chgd
      /\ s.mark # NotRead => f.mark = s.mark
      /\ f.cur # s.cur => f.cur = 1 /\ s.num # 0
      /\ f.mark # s.mark =>
           /\ s.num # 0 /\ s.table[1] \in Ids /\ d[s.table[1]] # NoFile
           /\ f.mark = IF body[d[s.table[1]]].is = "mark"
                       THEN body[d[s.table[1]]].n ELSE 0
  BY <1>1, <1>2, <1>3, FetchedIs
<1>5. b = LowerMark(f, n)
  BY DEF Lower, f
<1> HIDE DEF b
<1>6. /\ b \in AreaType
      /\ b.open = f.open /\ b.num = f.num /\ b.high = f.high
      /\ b.table = f.table /\ b.saw = f.saw /\ b.cur = f.cur
      /\ b # f => /\ f.mark # NotRead /\ f.mark # 0
                  /\ b.mark = n - 1
                  /\ b.chgd = (f.chgd \/ n - 1 # f.mark)
  BY <1>4, <1>5, LowerMarkIs
<1>7. k = [b EXCEPT !.cur = cur]
  BY DEF Killed, b
<1>8. cur \in Nat
  BY <1>6, SdmAssumption DEF AreaType, Ids
<1>9. cur = IF f.cur >= n THEN f.cur - 1 ELSE f.cur
  BY <1>6
<1> HIDE DEF k, cur
<1>10. k \in AreaType
  BY <1>6, <1>7, <1>8 DEF AreaType
<1>11. /\ k.open = b.open /\ k.num = b.num /\ k.high = b.high
       /\ k.table = b.table /\ k.saw = b.saw /\ k.mark = b.mark
       /\ k.chgd = b.chgd /\ k.cur = cur
  BY <1>6, <1>7 DEF AreaType
<1>12. Counted(k)
  BY <1>1, <1>4, <1>6, <1>11 DEF Counted
<1> QED
  BY <1>1, <1>4, <1>6, <1>9, <1>10, <1>11, <1>12 DEF s, d, f, b, k

(* What a step that kills is.                                              *)
LEMMA KillMsgIs ==
  ASSUME NEW p \in Procs, NEW n \in Ids, KillMsg(p, n)
  PROVE  LET a == area[p]
             u == a.table[n]
         IN /\ Idle(p) /\ n <= a.num /\ MayKill(p, n) /\ u \in Ids
            /\ UNCHANGED <<body, born, new, msgh>>
            /\ \/ /\ disk[u] # NoFile
                  /\ disk' = Unlinked(p, n)
                  /\ area' = [area EXCEPT ![p] = Killed(p, n)]
                  /\ home' = [m \in Files |-> IF home[m] = u THEN NoId ELSE home[m]]
                  /\ wanted' = IF Lower(p, n) = Marks(p, n) THEN wanted
                               ELSE [wanted EXCEPT !.mark = n - 1]
               \/ /\ disk[u] = NoFile
                  /\ area' = [area EXCEPT ![p].table = MovedOver(@, n),
                                          ![p].saw = MovedOver(@, n)]
                  /\ UNCHANGED <<disk, home, wanted>>
BY DEF KillMsg, Killed, Lower, Marks, Unlinked, Short

LEMMA KillMsgTypes ==
  ASSUME TypeOK, NEW p \in Procs, NEW n \in Ids, KillMsg(p, n) PROVE TypeOK'
<1> DEFINE a == area[p]
           u == a.table[n]
<1>1. /\ Idle(p) /\ n <= a.num /\ u \in Ids
      /\ UNCHANGED <<body, born, new, msgh>>
  BY KillMsgIs
<1>2. /\ a \in AreaType /\ Counted(a) /\ new[p] = NoNew
      /\ a.chgd => a.mark # NotRead
  BY <1>1, IdleIs
<1>3. CASE /\ disk' = Unlinked(p, n)
           /\ area' = [area EXCEPT ![p] = Killed(p, n)]
           /\ home' = [m \in Files |-> IF home[m] = u THEN NoId ELSE home[m]]
           /\ wanted' = IF Lower(p, n) = Marks(p, n) THEN wanted
                        ELSE [wanted EXCEPT !.mark = n - 1]
  <2>1. /\ Killed(p, n) \in AreaType /\ Counted(Killed(p, n))
        /\ Killed(p, n).chgd => Killed(p, n).mark # NotRead
    <3>1. n - 1 # NotRead
      BY SdmAssumption DEF Ids, NotRead
    <3> QED
      BY <3>1, <1>1, <1>2, KilledIs
  <2>2. /\ area' \in [Procs -> AreaType] /\ new' \in [Procs -> NewType]
        /\ \A q \in Procs : TypedProc(area'[q], new'[q])
    BY <2>1, <1>1, <1>2, <1>3, AreaTypes
  <2>3. disk' \in [Ids -> 0 .. MaxFile]
    <3>1. disk \in [Ids -> 0 .. MaxFile] /\ 0 \in 0 .. MaxFile
      BY SdmAssumption DEF TypeOK
    <3>2. disk' = [disk EXCEPT ![u] = 0]
      BY <1>3 DEF Unlinked, NoFile
    <3> QED
      BY <3>1, <3>2
  <2>4. home' \in [Files -> 0 .. MaxId]
    BY <1>3, SdmAssumption DEF TypeOK, NoId
  <2>5. wanted' \in [mark : 0 .. MaxId, born : 0 .. MaxFile]
    <3>1. n - 1 \in 0 .. MaxId
      BY SdmAssumption DEF Ids
    <3> QED
      BY <3>1, <1>3 DEF TypeOK
  <2> QED
    BY <1>1, <2>2, <2>3, <2>4, <2>5 DEF TypeOK, TypedProc
<1>4. CASE /\ area' = [area EXCEPT ![p].table = MovedOver(@, n),
                                   ![p].saw = MovedOver(@, n)]
           /\ UNCHANGED <<disk, home, wanted>>
  <2> DEFINE table == MovedOver(a.table, n)
             saw == MovedOver(a.saw, n)
             c == [a EXCEPT !.table = table, !.saw = saw]
  <2>1. /\ a.table \in Seq(0 .. MaxId) /\ a.saw \in Seq(0 .. MaxFile)
        /\ n \in 1 .. Len(a.table) /\ n \in 1 .. Len(a.saw)
    BY <1>1, <1>2, SdmAssumption DEF AreaType, Counted, Ids
  <2>2. /\ table \in Seq(0 .. MaxId) /\ saw \in Seq(0 .. MaxFile)
        /\ Len(table) = a.num /\ Len(saw) = a.num
    BY <1>2, <2>1, MovedOverIs DEF Counted
  <2>3. area' = [area EXCEPT ![p] = c]
    BY <1>4
  <2> HIDE DEF table, saw
  <2>4. c \in AreaType
    BY <1>2, <2>2 DEF AreaType
  <2>5. Counted(c) /\ c.chgd = a.chgd /\ c.mark = a.mark
    BY <1>2, <2>2 DEF AreaType, Counted
  <2> HIDE DEF c
  <2> QED
    BY <1>1, <1>2, <1>4, <2>3, <2>4, <2>5, AreaTypes DEF TypeOK, TypedProc
<1> QED
  BY <1>3, <1>4, KillMsgIs

LEMMA GetHighWaterTypes ==
  ASSUME TypeOK, NEW p \in Procs, GetHighWater(p) PROVE TypeOK'
<1> DEFINE a == area[p]
           f == Fetched(a, disk)
<1>1. /\ a \in AreaType /\ Counted(a) /\ new[p] = NoNew
      /\ a.chgd => a.mark # NotRead
  BY IdleIs DEF GetHighWater
<1>2. area' = [area EXCEPT ![p] = f] /\ new' = new
  BY DEF GetHighWater
<1>3. /\ f \in AreaType /\ f.chgd = a.chgd
      /\ f.num = a.num /\ f.table = a.table /\ f.saw = a.saw
      /\ a.mark # NotRead => f.mark = a.mark
  BY <1>1, FetchedIs DEF TypeOK
<1> HIDE DEF f
<1>4. Counted(f) /\ (f.chgd => f.mark # NotRead)
  BY <1>1, <1>3 DEF Counted
<1> QED
  BY <1>1, <1>2, <1>3, <1>4, AreaTypes DEF TypeOK, GetHighWater, TypedProc

LEMMA SetMarkIs ==
  ASSUME NEW a \in AreaType, NEW n \in Ids
  PROVE  LET b == SetMark(a, n)
         IN /\ b \in AreaType
            /\ b.open = a.open /\ b.num = a.num /\ b.high = a.high
            /\ b.table = a.table /\ b.saw = a.saw /\ b.cur = a.cur
            /\ b.mark = n /\ b.mark # NotRead
            /\ b.chgd = (a.chgd \/ n # a.mark)
<1>1. n \in 0 .. MaxId /\ n # NotRead
  BY SdmAssumption DEF Ids, NotRead
<1> QED
  BY <1>1 DEF SetMark, AreaType

LEMMA SetHighWaterTypes ==
  ASSUME TypeOK, NEW p \in Procs, NEW n \in Ids, SetHighWater(p, n) PROVE TypeOK'
<1> DEFINE a == area[p]
           b == SetMark(a, n)
<1>1. /\ a \in AreaType /\ Counted(a) /\ new[p] = NoNew
  BY IdleIs DEF SetHighWater
<1>2. area' = [area EXCEPT ![p] = b] /\ new' = new
  BY DEF SetHighWater
<1>3. /\ b \in AreaType /\ b.mark # NotRead
      /\ b.num = a.num /\ b.table = a.table /\ b.saw = a.saw
  BY <1>1, SetMarkIs
<1> HIDE DEF b
<1>4. Counted(b)
  BY <1>1, <1>3 DEF Counted
<1>5. wanted' \in [mark : 0 .. MaxId, born : 0 .. MaxFile]
  BY SdmAssumption DEF SetHighWater, TypeOK, Ids
<1> QED
  BY <1>1, <1>2, <1>3, <1>4, <1>5, AreaTypes
     DEF TypeOK, SetHighWater, TypedProc

LEMMA StepTypes == TypeOK /\ [Next]_vars => TypeOK'
<1> SUFFICES ASSUME TypeOK, [Next]_vars PROVE TypeOK'
  OBVIOUS
<1>1. CASE UNCHANGED vars
  BY <1>1 DEF TypeOK, vars
<1>2. CASE Next
  <2>1. PICK p \in Procs :
          \/ OpenArea(p) \/ CloseArea(p) \/ CloseMsg(p)
          \/ NextId(p) \/ MakeFile(p) \/ MakeFileFails(p) \/ WriteMsg(p)
          \/ GetHighWater(p)
          \/ \E n \in Ids : OpenMsg(p, n) \/ KillMsg(p, n) \/ SetHighWater(p, n)
    BY <1>2 DEF Next
  <2> QED
    BY <2>1, OpenAreaTypes, CloseAreaTypes, CloseMsgTypes, NextIdTypes,
       MakeFileTypes, MakeFileFailsTypes, WriteMsgTypes, GetHighWaterTypes,
       OpenMsgTypes, KillMsgTypes, SetHighWaterTypes
<1> QED
  BY <1>1, <1>2

(* Whatever the processes do, a table has as many entries as num_msg says, *)
(* and a mark that has to be written back has been read or set.            *)
THEOREM TypeCorrect == Spec => []TypeOK
BY InitTypes, StepTypes, PTL DEF Spec

---------------------------------------------------------------------------
(***************************************************************************)
(* With one process that creates, no message is lost.                      *)
(***************************************************************************)
OneCreator == \A p, q \in Creators : p = q

(* What is inductive: files have names of their own; a new id has no file  *)
(* until its creator, the only one, makes it; the inode a writer has open  *)
(* belongs to no other message; and the mark is always in message 1, which *)
(* every table lists first, so that writing it back meets no message.      *)
FilesApart ==
  /\ \A u \in Ids : disk[u] <= born
  /\ \A u, v \in Ids : disk[u] = disk[v] /\ disk[u] # NoFile => u = v
  /\ \A u \in Ids : IsMark(u) => u = 1

HomesBorn == \A b \in Files : home[b] # NoId => b <= born

NewIdFree ==
  \A p \in Procs :
    new[p] # NoNew => /\ p \in Creators
                      /\ disk[new[p].id] = NoFile
                      /\ msgh[p].mode # "new"

WriterAlone ==
  \A p \in Procs :
    msgh[p].mode = "new" =>
      /\ p \in Creators
      /\ msgh[p].ino <= born /\ msgh[p].b <= born
      /\ body[msgh[p].ino].is # "mark"
      /\ \A b \in Files : home[b] # NoId /\ disk[home[b]] = msgh[p].ino
                            => b = msgh[p].b

MarkListed ==
  \A p \in Procs :
    area[p].open /\ IsMark(1) => /\ Len(area[p].table) >= 1
                                 /\ area[p].table[1] = 1

MarkThere ==
  \A p \in Procs :
    area[p].chgd \/ area[p].mark \notin {NotRead, 0} => area[p].open /\ IsMark(1)

FilesInv == FilesApart /\ HomesBorn /\ NewIdFree /\ WriterAlone /\ MessagesKept
TablesInv == MarkListed /\ MarkThere
Inv == TypeOK /\ FilesInv /\ TablesInv

LEMMA InitInv == Init => Inv
<1> SUFFICES ASSUME Init PROVE Inv
  OBVIOUS
<1>1. PICK marked \in BOOLEAN :
        /\ disk = [u \in Ids |-> IF marked /\ u = 1 THEN 1 ELSE NoFile]
        /\ body = [i \in Files |-> IF marked /\ i = 1 THEN Mark(0) ELSE Empty]
        /\ born = IF marked THEN 1 ELSE 0
  BY DEF Init
<1>2. /\ area = [p \in Procs |-> Shut]
      /\ new = [p \in Procs |-> NoNew]
      /\ msgh = [p \in Procs |-> NoMsg]
      /\ home = [b \in Files |-> NoId]
  BY DEF Init
<1>3. FilesApart
  BY <1>1, SdmAssumption DEF FilesApart, IsMark, NoFile, Ids
<1>4. HomesBorn /\ NewIdFree /\ WriterAlone /\ MessagesKept
  BY <1>2 DEF HomesBorn, NewIdFree, WriterAlone, MessagesKept, NoMsg
<1>5. TablesInv
  BY <1>2 DEF TablesInv, MarkListed, MarkThere, Shut
<1> QED
  BY <1>3, <1>4, <1>5, InitTypes DEF Inv, FilesInv

(* A step that leaves the files alone, and changes one table at most.      *)
LEMMA TableStep ==
  ASSUME Inv, NEW p \in Procs, NEW a \in AreaType,
         area' = [area EXCEPT ![p] = a],
         UNCHANGED <<disk, body>>,
         a.open /\ IsMark(1) => Len(a.table) >= 1 /\ a.table[1] = 1,
         a.chgd \/ a.mark \notin {NotRead, 0} => a.open /\ IsMark(1)
  PROVE  TablesInv'
<1>1. IsMark(1)' <=> IsMark(1)
  BY DEF IsMark
<1>2. area'[p] = a /\ \A q \in Procs \ {p} : area'[q] = area[q]
  BY DEF Inv, TypeOK
<1> QED
  BY <1>1, <1>2 DEF Inv, TablesInv, MarkListed, MarkThere

LEMMA FilesStay ==
  ASSUME Inv, UNCHANGED <<disk, body, born, new, msgh, home>>
  PROVE  FilesInv'
BY DEF Inv, FilesInv, FilesApart, HomesBorn, NewIdFree, WriterAlone,
       MessagesKept, IsMark

(* The scan lists the mark first.                                          *)
LEMMA ScanListsMark ==
  ASSUME Inv, IsMark(1) PROVE Len(Listed) >= 1 /\ Listed[1] = 1
<1>1. 1 \in Present
  BY DEF Present, IsMark
<1>2. Len(Listed) >= 1 /\ Listed[1] <= 1
  BY <1>1, ListedIs
<1>3. Listed[1] \in Ids
  BY <1>2, ListedIs DEF Present
<1> QED
  BY <1>2, <1>3, SdmAssumption DEF Ids

LEMMA OpenAreaKeeps ==
  ASSUME Inv, NEW p \in Procs, OpenArea(p) PROVE FilesInv' /\ TablesInv'
<1>1. FilesInv'
  BY FilesStay DEF OpenArea
<1> DEFINE s == [Shut EXCEPT !.open = TRUE]
           r == RescanArea(s)
<1>2. s \in AreaType /\ s.chgd = FALSE /\ s.mark = NotRead
  <2>1. Shut \in AreaType
    BY SdmAssumption DEF Shut, AreaType
  <2> QED
    BY <2>1 DEF Shut, AreaType
<1>3. area' = [area EXCEPT ![p] = r] /\ UNCHANGED <<disk, body>>
  BY DEF OpenArea
<1> HIDE DEF s
<1>4. /\ r \in AreaType /\ r.chgd = FALSE /\ r.mark = NotRead
      /\ r.table = Listed
  BY <1>2, RescanIs DEF Inv
<1> HIDE DEF r
<1> QED
  BY <1>1, <1>3, <1>4, ScanListsMark, TableStep

LEMMA GetHighWaterKeeps ==
  ASSUME Inv, NEW p \in Procs, GetHighWater(p) PROVE FilesInv' /\ TablesInv'
<1>1. FilesInv'
  BY FilesStay DEF GetHighWater
<1> DEFINE a == area[p]
           f == Fetched(a, disk)
<1>2. a \in AreaType /\ a.open
  BY IdleIs DEF Inv, GetHighWater
<1>3. area' = [area EXCEPT ![p] = f] /\ UNCHANGED <<disk, body>>
  BY DEF GetHighWater
<1>4. disk \in [Ids -> 0 .. MaxFile] /\ TypeOK
  BY DEF Inv, TypeOK
<1>5. /\ f \in AreaType /\ f.open = a.open /\ f.table = a.table /\ f.chgd = a.chgd
      /\ f.mark # a.mark =>
           /\ a.table[1] \in Ids /\ disk[a.table[1]] # NoFile
           /\ f.mark = IF body[disk[a.table[1]]].is = "mark"
                       THEN body[disk[a.table[1]]].n ELSE 0
  <2>1. f = Fetched(a, disk)
    OBVIOUS
  <2> HIDE DEF f, a
  <2> QED
    BY ONLY <1>2, <1>4, <2>1, FetchedIs
<1> HIDE DEF f
<1>6. f.mark # a.mark => f.mark = 0 \/ IsMark(1)
  BY <1>5 DEF IsMark, Inv, FilesInv, FilesApart
<1>7. a.open /\ IsMark(1) => Len(a.table) >= 1 /\ a.table[1] = 1
  BY DEF Inv, TablesInv, MarkListed
<1>8. a.chgd \/ a.mark \notin {NotRead, 0} => a.open /\ IsMark(1)
  BY DEF Inv, TablesInv, MarkThere
<1> QED
  BY <1>1, <1>2, <1>3, <1>5, <1>6, <1>7, <1>8, TableStep

LEMMA SetHighWaterKeeps ==
  ASSUME Inv, NEW p \in Procs, NEW n \in Ids, SetHighWater(p, n)
  PROVE  FilesInv' /\ TablesInv'
<1>1. FilesInv'
  BY FilesStay DEF SetHighWater
<1> DEFINE a == area[p]
           b == SetMark(a, n)
<1>2. a \in AreaType /\ a.open
  BY IdleIs DEF Inv, SetHighWater
<1>3. area' = [area EXCEPT ![p] = b] /\ UNCHANGED <<disk, body>>
  BY DEF SetHighWater
<1>4. b \in AreaType /\ b.open = a.open /\ b.table = a.table
  BY <1>2, SetMarkIs
<1> HIDE DEF b
<1>5. IsMark(1)
  <2>1. IsMark(a.table[1]) /\ a.table[1] \in Ids
    BY DEF SetHighWater, MayMark, IsMark
  <2> QED
    BY <2>1 DEF Inv, FilesInv, FilesApart
<1>6. Len(a.table) >= 1 /\ a.table[1] = 1
  BY <1>2, <1>5 DEF Inv, TablesInv, MarkListed
<1> QED
  BY <1>1, <1>2, <1>3, <1>4, <1>5, <1>6, TableStep

LEMMA OpenMsgKeeps ==
  ASSUME Inv, NEW p \in Procs, NEW n \in Ids, OpenMsg(p, n)
  PROVE  FilesInv' /\ TablesInv'
<1> DEFINE a == area[p]
           b == [a EXCEPT !.cur = n]
<1>1. a \in AreaType /\ new[p] = NoNew
  BY IdleIs DEF Inv, OpenMsg
<1>2. area' = [area EXCEPT ![p] = b] /\ UNCHANGED <<disk, body, born, new, home>>
  BY DEF OpenMsg
<1>3. /\ b \in AreaType /\ b.open = a.open /\ b.table = a.table
      /\ b.chgd = a.chgd /\ b.mark = a.mark
  <2>1. n \in Nat /\ b = [a EXCEPT !.cur = n]
    BY DEF Ids
  <2> HIDE DEF a, b
  <2> QED
    BY ONLY <1>1, <2>1 DEF AreaType
<1> HIDE DEF b
<1>4. TablesInv'
  BY <1>2, <1>3, TableStep DEF Inv, TablesInv, MarkListed, MarkThere
<1>5. \A q \in Procs : msgh'[q].mode = "new" => msgh'[q] = msgh[q]
  BY DEF OpenMsg, Inv, TypeOK, MsghType
<1>6. \A q \in Procs : msgh[q].mode # "new" => msgh'[q].mode # "new"
  BY DEF OpenMsg, Inv, TypeOK, MsghType
<1> QED
  BY <1>2, <1>4, <1>5, <1>6
     DEF Inv, FilesInv, FilesApart, HomesBorn, NewIdFree, WriterAlone,
         MessagesKept, IsMark

LEMMA CloseMsgKeeps ==
  ASSUME Inv, NEW p \in Procs, CloseMsg(p) PROVE FilesInv' /\ TablesInv'
<1>1. \A q \in Procs : msgh'[q].mode = "new" => msgh'[q] = msgh[q]
  BY DEF CloseMsg, Inv, TypeOK, NoMsg
<1>2. \A q \in Procs : msgh[q].mode # "new" => msgh'[q].mode # "new"
  BY DEF CloseMsg, Inv, TypeOK, NoMsg
<1>3. UNCHANGED <<disk, body, born, new, home, area>>
  BY DEF CloseMsg
<1> QED
  BY <1>1, <1>2, <1>3
     DEF Inv, FilesInv, FilesApart, HomesBorn, NewIdFree, WriterAlone,
         MessagesKept, TablesInv, MarkListed, MarkThere, IsMark

(* A changed mark is written into the file of message 1.                   *)
LEMMA CloseAreaIs ==
  ASSUME Inv, NEW p \in Procs, CloseArea(p)
  PROVE  \/ ~area[p].chgd /\ body' = body
         \/ /\ area[p].chgd /\ area[p].open /\ IsMark(1) /\ disk[1] \in Files
            /\ body' = [body EXCEPT ![disk[1]] = Mark(area[p].mark)]
<1> DEFINE a == area[p]
<1>1. CASE ~a.chgd
  BY <1>1 DEF CloseArea
<1>2. CASE a.chgd
  <2>1. a \in AreaType /\ Counted(a)
    BY IdleIs DEF Inv, CloseArea
  <2>2. a.open /\ IsMark(1)
    BY <1>2 DEF Inv, TablesInv, MarkThere
  <2>3. Len(a.table) >= 1 /\ a.table[1] = 1
    BY <2>2 DEF Inv, TablesInv, MarkListed
  <2>4. MsgnToUid(a, 1) = 1
    BY <2>3 DEF MsgnToUid
  <2>5. disk[1] \in Files
    BY <2>2, SdmAssumption DEF IsMark, Inv, TypeOK, Files, NoFile
  <2> QED
    BY <1>2, <2>2, <2>4, <2>5 DEF CloseArea, Marked
<1> QED
  BY <1>1, <1>2

LEMMA CloseAreaKeeps ==
  ASSUME Inv, NEW p \in Procs, CloseArea(p) PROVE FilesInv' /\ TablesInv'
<1> DEFINE a == area[p]
           b == IF msgh[p].mode = "closed" THEN Shut
                ELSE IF a.chgd THEN [a EXCEPT !.cur = 1] ELSE a
<1>1. a \in AreaType
  BY DEF Inv, TypeOK
<1>2. /\ area' = [area EXCEPT ![p] = b]
      /\ UNCHANGED <<disk, born, new, msgh, home>>
  BY DEF CloseArea
<1>3. b = Shut \/ (/\ b.open = a.open /\ b.table = a.table
                   /\ b.chgd = a.chgd /\ b.mark = a.mark)
  BY <1>1 DEF AreaType
<1>4. \A u \in Ids : /\ IsMark(u)' <=> IsMark(u)
                     /\ disk[u] # NoFile /\ ~IsMark(u)
                          => body'[disk[u]] = body[disk[u]]
  <2> SUFFICES ASSUME NEW u \in Ids
               PROVE  /\ IsMark(u)' <=> IsMark(u)
                      /\ disk[u] # NoFile /\ ~IsMark(u)
                           => body'[disk[u]] = body[disk[u]]
    OBVIOUS
  <2>1. CASE body' = body
    BY <1>2, <2>1 DEF IsMark
  <2>2. CASE /\ IsMark(1) /\ disk[1] \in Files
             /\ body' = [body EXCEPT ![disk[1]] = Mark(a.mark)]
    <3>1. /\ body'[disk[1]].is = "mark"
          /\ \A i \in Files : i # disk[1] => body'[i] = body[i]
      BY <2>2 DEF Inv, TypeOK, Mark
    <3>2. disk[u] # NoFile => disk[u] \in Files
      BY SdmAssumption DEF Inv, TypeOK, Files, NoFile
    <3>3. u # 1 /\ disk[u] # NoFile => disk[u] # disk[1]
      BY <2>2 DEF Inv, FilesInv, FilesApart, IsMark
    <3> QED
      BY <1>2, <2>2, <3>1, <3>2, <3>3 DEF IsMark
  <2> QED
    BY <2>1, <2>2, CloseAreaIs
<1>5. IsMark(1)' <=> IsMark(1)
  BY <1>4, SdmAssumption DEF Ids
<1>6. TablesInv'
  <2>1. area'[p] = b /\ \A q \in Procs \ {p} : area'[q] = area[q]
    BY <1>2 DEF Inv, TypeOK
  <2> HIDE DEF b
  <2>2. CASE b = Shut
    BY <1>5, <2>1, <2>2 DEF Inv, TablesInv, MarkListed, MarkThere, Shut
  <2>3. CASE /\ b.open = a.open /\ b.table = a.table
             /\ b.chgd = a.chgd /\ b.mark = a.mark
    BY <1>5, <2>1, <2>3 DEF Inv, TablesInv, MarkListed, MarkThere
  <2> QED
    BY <1>3, <2>2, <2>3
<1>7. FilesApart' /\ HomesBorn' /\ NewIdFree'
  BY <1>2, <1>4 DEF Inv, FilesInv, FilesApart, HomesBorn, NewIdFree
<1>8. MessagesKept'
  <2> SUFFICES ASSUME NEW m \in Files, home[m] # NoId
               PROVE  disk[home[m]] # NoFile /\ body'[disk[home[m]]] = Msg(m)
    BY <1>2 DEF MessagesKept
  <2>1. disk[home[m]] # NoFile /\ body[disk[home[m]]] = Msg(m)
    BY DEF Inv, FilesInv, MessagesKept
  <2>2. home[m] \in Ids
    BY SdmAssumption DEF Inv, TypeOK, Ids, NoId
  <2>3. ~IsMark(home[m])
    BY <2>1 DEF IsMark, Msg
  <2> QED
    BY <1>4, <2>1, <2>2, <2>3
<1>9. WriterAlone'
  <2> SUFFICES ASSUME NEW q \in Procs, msgh[q].mode = "new"
               PROVE  body'[msgh[q].ino].is # "mark"
    BY <1>2 DEF WriterAlone, Inv, FilesInv
  <2>1. body[msgh[q].ino].is # "mark" /\ msgh[q].ino \in Files
    BY DEF Inv, FilesInv, WriterAlone, TypeOK, MsghType
  <2>2. CASE body' = body
    BY <2>1, <2>2
  <2>3. CASE /\ IsMark(1)
             /\ body' = [body EXCEPT ![disk[1]] = Mark(a.mark)]
    <3>1. msgh[q].ino # disk[1]
      BY <2>1, <2>3 DEF IsMark
    <3> QED
      BY <2>1, <2>3, <3>1 DEF Inv, TypeOK
  <2> QED
    BY <2>2, <2>3, CloseAreaIs
<1> QED
  BY <1>6, <1>7, <1>8, <1>9 DEF FilesInv

(* The id a message is going to be created under has no file.              *)
LEMMA NextIdKeeps ==
  ASSUME Inv, NEW p \in Procs, NextId(p) PROVE FilesInv' /\ TablesInv'
<1> DEFINE a == area[p]
           b == IF FreeId(a) \in Ids /\ disk[FreeId(a)] # NoFile
                THEN RescanArea(a) ELSE a
           first == IsEcho /\ b.num = 0
           n == b.num + 1
           high == IF first THEN 2 ELSE FreeId(b)
           c == [b EXCEPT !.num = n, !.high = high]
           w == [num |-> IF first THEN 2 ELSE b.num + 1, id |-> FreeId(b)]
<1>1. a \in AreaType /\ a.open
  BY IdleIs DEF Inv, NextId
<1>2. /\ FreeId(b) \in Ids /\ p \in Creators /\ msgh[p].mode = "closed"
      /\ area' = [area EXCEPT ![p] = c] /\ new' = [new EXCEPT ![p] = w]
      /\ UNCHANGED <<disk, body, born, msgh, home>>
  BY DEF NextId
<1>3. /\ b \in AreaType /\ b.open /\ b.chgd = a.chgd /\ b.mark = a.mark
      /\ b.table = a.table \/ b.table = Listed
  BY <1>1, RescanIs DEF Inv
<1>4. disk[FreeId(b)] = NoFile
  <2>1. CASE FreeId(a) \in Ids /\ disk[FreeId(a)] # NoFile
    <3>1. \A u \in Ids : u > RescanArea(a).high => disk[u] = NoFile
      BY <1>1, RescanIs DEF Inv
    <3>2. b = RescanArea(a)
      BY <2>1
    <3>3. FreeId(b) > b.high
      BY <1>3 DEF AreaType, FreeId
    <3> QED
      BY <1>2, <3>1, <3>2, <3>3
  <2>2. CASE ~(FreeId(a) \in Ids /\ disk[FreeId(a)] # NoFile)
    BY <1>2, <2>2
  <2> QED
    BY <2>1, <2>2
<1> HIDE DEF b
<1>5. n \in Nat /\ high \in 0 .. MaxId
  BY <1>2, <1>3, SdmAssumption DEF AreaType, Ids
<1> HIDE DEF n, high
<1>6. /\ c \in AreaType /\ c.open = b.open /\ c.table = b.table
      /\ c.chgd = b.chgd /\ c.mark = b.mark
  BY <1>3, <1>5 DEF AreaType
<1> HIDE DEF c
<1>7. TablesInv'
  <2>1. IsMark(1) => Len(c.table) >= 1 /\ c.table[1] = 1
    BY <1>1, <1>3, <1>6, ScanListsMark DEF Inv, TablesInv, MarkListed
  <2>2. c.chgd \/ c.mark \notin {NotRead, 0} => c.open /\ IsMark(1)
    BY <1>1, <1>3, <1>6 DEF Inv, TablesInv, MarkThere
  <2> QED
    BY <1>2, <1>6, <2>1, <2>2, TableStep
<1>8. NewIdFree'
  <2>1. new'[p].id = FreeId(b) /\ \A q \in Procs \ {p} : new'[q] = new[q]
    BY <1>2 DEF Inv, TypeOK
  <2> QED
    BY <1>2, <1>4, <2>1 DEF Inv, FilesInv, NewIdFree
<1> QED
  BY <1>2, <1>7, <1>8
     DEF Inv, FilesInv, FilesApart, HomesBorn, WriterAlone, MessagesKept, IsMark

(* The new file is an inode nobody has, under an id nobody uses.           *)
LEMMA MakeFileKeeps ==
  ASSUME Inv, OneCreator, NEW p \in Procs, MakeFile(p)
  PROVE  FilesInv' /\ TablesInv'
<1> DEFINE a == area[p]
           u == new[p].id
           i == born + 1
           m == [mode |-> "new", ino |-> i, b |-> i, id |-> u]
<1>1. /\ new[p] # NoNew /\ i \in Files /\ born' = i
      /\ new' = [new EXCEPT ![p] = NoNew]
      /\ UNCHANGED home
  BY DEF MakeFile
<1>2. /\ a \in AreaType /\ a.open /\ u \in Ids
  BY <1>1, CreatingIs DEF Inv
<1>3. disk[u] = NoFile /\ p \in Creators
  BY <1>1 DEF Inv, FilesInv, NewIdFree
<1>4. /\ disk' = [disk EXCEPT ![u] = i] /\ body' = [body EXCEPT ![i] = Empty]
      /\ msgh' = [msgh EXCEPT ![p] = m]
  BY <1>3 DEF MakeFile
<1>5. /\ disk'[u] = i /\ \A v \in Ids \ {u} : disk'[v] = disk[v]
      /\ body'[i] = Empty /\ \A j \in Files \ {i} : body'[j] = body[j]
  BY <1>1, <1>2, <1>4 DEF Inv, TypeOK
<1>6. /\ born \in Nat
      /\ \A v \in Ids : /\ disk[v] <= born /\ disk[v] \in Nat
                        /\ disk[v] # NoFile => disk[v] \in Files \ {i}
  BY SdmAssumption DEF Inv, FilesInv, FilesApart, TypeOK, Files, NoFile
<1>7. \A v \in Ids : IsMark(v)' <=> IsMark(v)
  BY <1>2, <1>3, <1>5, <1>6 DEF IsMark, Empty
<1>8. FilesApart'
  <2>1. \A v \in Ids : disk'[v] <= born'
    BY <1>1, <1>5, <1>6
  <2>2. \A v, w \in Ids : disk'[v] = disk'[w] /\ disk'[v] # NoFile => v = w
    BY <1>5, <1>6 DEF Inv, FilesInv, FilesApart
  <2> QED
    BY <2>1, <2>2, <1>7 DEF FilesApart, Inv, FilesInv
<1>9. \A b \in Files :
        home[b] # NoId => /\ b <= born /\ home[b] \in Ids \ {u}
                          /\ disk[home[b]] # NoFile
                          /\ disk[home[b]] \in Files \ {i}
                          /\ body[disk[home[b]]] = Msg(b)
  <2> SUFFICES ASSUME NEW b \in Files, home[b] # NoId
               PROVE  /\ b <= born /\ home[b] \in Ids \ {u}
                      /\ disk[home[b]] # NoFile
                      /\ disk[home[b]] \in Files \ {i}
                      /\ body[disk[home[b]]] = Msg(b)
    OBVIOUS
  <2>1. home[b] \in Ids
    BY SdmAssumption DEF Inv, TypeOK, Ids, NoId
  <2>2. b <= born /\ disk[home[b]] # NoFile /\ body[disk[home[b]]] = Msg(b)
    BY DEF Inv, FilesInv, HomesBorn, MessagesKept
  <2> QED
    BY <2>1, <2>2, <1>3, <1>6
<1>10. MessagesKept'
  BY <1>1, <1>5, <1>9 DEF MessagesKept
<1>11. HomesBorn'
  <2>1. \A b \in Files : b \in Nat
    BY DEF Files
  <2> QED
    BY <1>1, <1>6, <1>9, <2>1 DEF HomesBorn
<1>12. msgh'[p] = m /\ \A q \in Procs \ {p} : msgh'[q] = msgh[q]
  BY <1>4 DEF Inv, TypeOK
<1>13. new'[p] = NoNew /\ \A q \in Procs \ {p} : new'[q] = new[q]
  BY <1>1 DEF Inv, TypeOK
<1>14. \A q \in Procs \ {p} : new[q] = NoNew /\ msgh[q].mode # "new"
  BY <1>3, SdmAssumption DEF OneCreator, Inv, FilesInv, NewIdFree, WriterAlone
<1>15. NewIdFree'
  BY <1>13, <1>14 DEF NewIdFree
<1>16. WriterAlone'
  <2>1. m.ino = i /\ m.b = i /\ m.mode = "new"
    OBVIOUS
  <2>2. \A b \in Files : home[b] # NoId => disk'[home[b]] # i
    BY <1>5, <1>9
  <2>3. i <= born' /\ body'[i].is # "mark"
    BY <1>1, <1>5, <1>6 DEF Empty
  <2> HIDE DEF i, m
  <2> QED
    BY <1>1, <1>3, <1>12, <1>14, <2>1, <2>2, <2>3 DEF WriterAlone
<1>17. TablesInv'
  <2>1. IsMark(1)' <=> IsMark(1)
    BY <1>7, SdmAssumption DEF Ids
  <2>2. PICK junk \in Garbage :
          area' = [area EXCEPT ![p].cur = new[p].num, ![p].num = @ + 1,
                               ![p].table = @ \o <<junk, u>>,
                               ![p].saw = @ \o <<NoFile, i>>]
    BY <1>3 DEF MakeFile
  <2>3. \A q \in Procs \ {p} : area'[q] = area[q]
    BY <2>2 DEF Inv, TypeOK
  <2>4. /\ area'[p].open = a.open /\ area'[p].chgd = a.chgd
        /\ area'[p].mark = a.mark
        /\ area'[p].table = a.table \o <<junk, u>>
    BY <2>2, <1>2 DEF Inv, TypeOK, AreaType
  <2>5. Len(a.table) >= 1 /\ a.table[1] = 1
          => Len(area'[p].table) >= 1 /\ area'[p].table[1] = 1
    <3>1. a.table \in Seq(0 .. MaxId) /\ <<junk, u>> \in Seq(0 .. MaxId)
      BY <1>2, SdmAssumption DEF AreaType, Ids
    <3> QED
      BY <3>1, <2>4
  <2> QED
    BY <2>1, <2>3, <2>4, <2>5 DEF Inv, TablesInv, MarkListed, MarkThere
<1> QED
  BY <1>8, <1>10, <1>11, <1>15, <1>16, <1>17 DEF FilesInv

LEMMA MakeFileFailsKeeps ==
  ASSUME Inv, NEW p \in Procs, MakeFileFails(p) PROVE FilesInv' /\ TablesInv'
<1> DEFINE a == area[p]
<1>1. /\ new[p] # NoNew /\ new' = [new EXCEPT ![p] = NoNew]
      /\ UNCHANGED <<disk, body, born, msgh, home>>
  BY DEF MakeFileFails
<1>2. a \in AreaType
  BY <1>1, CreatingIs DEF Inv
<1>3. PICK junk \in Garbage :
        area' = [area EXCEPT ![p].table = Append(@, junk),
                             ![p].saw = Append(@, NoFile)]
  BY DEF MakeFileFails
<1>4. \A q \in Procs \ {p} : area'[q] = area[q]
  BY <1>3 DEF Inv, TypeOK
<1>5. /\ area'[p].open = a.open /\ area'[p].chgd = a.chgd
      /\ area'[p].mark = a.mark
      /\ area'[p].table = Append(a.table, junk)
  BY <1>2, <1>3 DEF Inv, TypeOK, AreaType
<1>6. Len(a.table) >= 1 /\ a.table[1] = 1
        => Len(area'[p].table) >= 1 /\ area'[p].table[1] = 1
  <2>1. a.table \in Seq(0 .. MaxId) /\ junk \in 0 .. MaxId
    BY <1>2, SdmAssumption DEF AreaType
  <2> QED
    BY <2>1, <1>5
<1>7. TablesInv'
  <2>1. IsMark(1)' <=> IsMark(1)
    BY <1>1 DEF IsMark
  <2> QED
    BY <2>1, <1>4, <1>5, <1>6 DEF Inv, TablesInv, MarkListed, MarkThere
<1>8. NewIdFree'
  <2>1. new'[p] = NoNew /\ \A q \in Procs \ {p} : new'[q] = new[q]
    BY <1>1 DEF Inv, TypeOK
  <2> QED
    BY <1>1, <2>1 DEF Inv, FilesInv, NewIdFree
<1> QED
  BY <1>1, <1>7, <1>8
     DEF Inv, FilesInv, FilesApart, HomesBorn, WriterAlone, MessagesKept, IsMark

(* The inode the writer has open is no other message's, and not the mark.  *)
LEMMA WriteMsgKeeps ==
  ASSUME Inv, OneCreator, NEW p \in Procs, WriteMsg(p)
  PROVE  FilesInv' /\ TablesInv'
<1> DEFINE c == msgh[p]
<1>1. /\ c.mode = "new" /\ new[p] = NoNew
      /\ body' = [body EXCEPT ![c.ino] = Msg(c.b)]
      /\ UNCHANGED <<disk, born, area, new, msgh>>
  BY DEF WriteMsg, Idle
<1>2. c.ino \in Files /\ c.b \in Files /\ c.id \in Ids
  BY <1>1 DEF Inv, TypeOK, MsghType
<1>3. /\ p \in Creators /\ c.ino <= born /\ c.b <= born
      /\ body[c.ino].is # "mark"
      /\ \A b \in Files : home[b] # NoId /\ disk[home[b]] = c.ino => b = c.b
  BY <1>1 DEF Inv, FilesInv, WriterAlone
<1>4. body'[c.ino] = Msg(c.b) /\ \A j \in Files \ {c.ino} : body'[j] = body[j]
  BY <1>1, <1>2 DEF Inv, TypeOK
<1>5. /\ \A b \in Files \ {c.b} : home'[b] = home[b]
      /\ \/ home'[c.b] = c.id /\ disk[c.id] = c.ino
         \/ home'[c.b] = home[c.b]
  BY <1>2 DEF WriteMsg, Inv, TypeOK
<1>6. \A v \in Ids : disk[v] # NoFile => disk[v] \in Files
  BY SdmAssumption DEF Inv, TypeOK, Files, NoFile
<1>7. \A v \in Ids : IsMark(v)' <=> IsMark(v)
  BY <1>1, <1>3, <1>4, <1>6 DEF IsMark, Msg
<1>8. \A b \in Files : home[b] # NoId =>
        /\ home[b] \in Ids /\ disk[home[b]] # NoFile
        /\ body[disk[home[b]]] = Msg(b) /\ b <= born
  BY SdmAssumption
     DEF Inv, FilesInv, MessagesKept, HomesBorn, TypeOK, Ids, NoId
<1>9. MessagesKept'
  <2> SUFFICES ASSUME NEW b \in Files, home'[b] # NoId
               PROVE  disk[home'[b]] # NoFile /\ body'[disk[home'[b]]] = Msg(b)
    BY <1>1 DEF MessagesKept
  <2>1. CASE b = c.b /\ home'[b] = c.id /\ disk[c.id] = c.ino
    BY <2>1, <1>2, <1>4 DEF Files, NoFile
  <2>2. CASE home'[b] = home[b]
    <3>1. disk[home[b]] \in Files /\ body[disk[home[b]]] = Msg(b)
      BY <2>2, <1>6, <1>8
    <3>2. CASE disk[home[b]] = c.ino
      BY <2>2, <3>1, <3>2, <1>2, <1>3, <1>4 DEF Files, NoFile
    <3>3. CASE disk[home[b]] # c.ino
      BY <2>2, <3>1, <3>3, <1>4 DEF Files, NoFile
    <3> QED
      BY <3>2, <3>3
  <2> QED
    BY <2>1, <2>2, <1>5
<1>10. HomesBorn'
  BY <1>1, <1>3, <1>5, <1>8 DEF HomesBorn
<1>11. WriterAlone'
  <2>1. \A q \in Procs : msgh[q].mode = "new" => q = p
    BY <1>3, SdmAssumption DEF OneCreator, Inv, FilesInv, WriterAlone
  <2>2. body'[c.ino].is # "mark"
    BY <1>4 DEF Msg
  <2>3. \A b \in Files : home'[b] # NoId /\ disk[home'[b]] = c.ino => b = c.b
    BY <1>3, <1>5
  <2> QED
    BY <1>1, <1>3, <2>1, <2>2, <2>3 DEF WriterAlone
<1>12. FilesApart' /\ NewIdFree'
  BY <1>1, <1>7 DEF Inv, FilesInv, FilesApart, NewIdFree
<1>13. TablesInv'
  <2>1. IsMark(1)' <=> IsMark(1)
    BY <1>7, SdmAssumption DEF Ids
  <2> QED
    BY <1>1, <2>1 DEF Inv, TablesInv, MarkListed, MarkThere
<1> QED
  BY <1>9, <1>10, <1>11, <1>12, <1>13 DEF FilesInv

(* Where the mark is first in the table, it is not what is killed.         *)
LEMMA KillNotMark ==
  ASSUME Inv, NEW p \in Procs, NEW n \in Ids, KillMsg(p, n), IsMark(1)
  PROVE  /\ area[p].table[n] # 1 /\ n >= 2 /\ area[p].num >= 2
         /\ area[p].table[1] = 1
<1>1. Idle(p) /\ n <= area[p].num /\ MayKill(p, n)
  BY KillMsgIs
<1>2. area[p].open /\ area[p].num \in Nat
  BY <1>1, IdleIs DEF Inv, AreaType
<1>3. area[p].table[1] = 1
  BY <1>2 DEF Inv, TablesInv, MarkListed
<1>4. area[p].table[n] # 1
  BY <1>1 DEF MayKill
<1> QED
  BY <1>1, <1>2, <1>3, <1>4 DEF Ids

LEMMA KillKeepsFiles ==
  ASSUME Inv, NEW p \in Procs, NEW n \in Ids, KillMsg(p, n)
  PROVE  FilesInv' /\ (IsMark(1)' <=> IsMark(1))
<1> DEFINE u == area[p].table[n]
<1>1. u \in Ids /\ UNCHANGED <<body, born, new, msgh>>
  BY KillMsgIs
<1>2. CASE UNCHANGED <<disk, home>>
  BY <1>1, <1>2, FilesStay DEF IsMark
<1>3. CASE /\ disk' = Unlinked(p, n)
           /\ home' = [m \in Files |-> IF home[m] = u THEN NoId ELSE home[m]]
  <2>1. disk'[u] = NoFile /\ \A v \in Ids \ {u} : disk'[v] = disk[v]
    BY <1>1, <1>3 DEF Unlinked, Inv, TypeOK
  <2>2. IsMark(1) => u # 1
    BY KillNotMark
  <2>3. \A v \in Ids : IsMark(v)' => IsMark(v)
    BY <1>1, <2>1 DEF IsMark
  <2>4. IsMark(1)' <=> IsMark(1)
    BY <1>1, <2>1, <2>2, <2>3, SdmAssumption DEF IsMark, Ids
  <2>5. \A b \in Files : home'[b] # NoId => home'[b] = home[b] /\ home[b] # u
    BY <1>3
  <2>6. \A b \in Files : home[b] # NoId => home[b] \in Ids
    BY SdmAssumption DEF Inv, TypeOK, Ids, NoId
  <2>7. FilesApart'
    <3>1. \A v \in Ids : disk'[v] <= born
      <4>1. born \in Nat /\ \A v \in Ids : disk[v] <= born
        BY SdmAssumption DEF Inv, FilesInv, FilesApart, TypeOK
      <4> QED
        BY ONLY <2>1, <4>1 DEF NoFile
    <3>2. \A v, w \in Ids : disk'[v] = disk'[w] /\ disk'[v] # NoFile => v = w
      BY <2>1 DEF Inv, FilesInv, FilesApart
    <3> QED
      BY <1>1, <2>3, <3>1, <3>2 DEF FilesApart, Inv, FilesInv
  <2>8. HomesBorn'
    BY <1>1, <2>5 DEF HomesBorn, Inv, FilesInv
  <2>9. MessagesKept'
    BY <1>1, <2>1, <2>5, <2>6 DEF MessagesKept, Inv, FilesInv
  <2>10. NewIdFree'
    BY <1>1, <2>1 DEF NewIdFree, Inv, FilesInv, TypeOK, NewType
  <2>11. WriterAlone'
    BY <1>1, <2>1, <2>5, <2>6 DEF WriterAlone, Inv, FilesInv
  <2> QED
    BY <2>4, <2>7, <2>8, <2>9, <2>10, <2>11 DEF FilesInv
<1> QED
  BY <1>2, <1>3, KillMsgIs

(* A mark that is fetched on the way is that of the message marked first.  *)
LEMMA KillFetches ==
  ASSUME Inv, NEW p \in Procs, NEW n \in Ids, KillMsg(p, n),
         disk[area[p].table[n]] # NoFile
  PROVE  LET f == Marks(p, n)
         IN /\ f.chgd = area[p].chgd
            /\ f.mark \notin {NotRead, 0} => IsMark(1)
            /\ f.mark # area[p].mark /\ IsMark(1) =>
                 area[p].mark = NotRead /\ f.mark = body[disk[1]].n
<1> DEFINE a == area[p]
           u == a.table[n]
           d == Unlinked(p, n)
           s == Short(p, n)
           f == Marks(p, n)
           t == s.table[1]
<1>1. Idle(p) /\ n <= a.num /\ u \in Ids
  BY KillMsgIs
<1>2. /\ f.chgd = a.chgd
      /\ a.mark # NotRead => f.mark = a.mark
      /\ f.mark # a.mark => /\ t \in Ids /\ d[t] # NoFile
                            /\ s.num # 0
                            /\ f.mark = IF body[d[t]].is = "mark"
                                        THEN body[d[t]].n ELSE 0
  BY <1>1, KilledIs DEF Inv
<1>3. \A v \in Ids : d[v] # NoFile => d[v] = disk[v] /\ v # u
  BY <1>1 DEF Unlinked, Inv, TypeOK
<1>4. a.mark \notin {NotRead, 0} => IsMark(1)
  BY DEF Inv, TablesInv, MarkThere
<1>5. IsMark(1) /\ s.num # 0 => t = 1 /\ d[1] = disk[1]
  <2> SUFFICES ASSUME IsMark(1), s.num # 0 PROVE t = 1 /\ d[1] = disk[1]
    OBVIOUS
  <2>1. /\ u # 1 /\ n >= 2 /\ a.num >= 2 /\ a.table[1] = 1
    BY KillNotMark
  <2>2. \A k \in 1 .. a.num - 1 :
          s.table[k] = IF k >= n THEN a.table[k + 1] ELSE a.table[k]
    BY <1>1, ShortIs DEF Inv
  <2>3. a.num \in Nat /\ n \in Nat
    BY <1>1, IdleIs DEF Inv, AreaType, Ids
  <2>4. t = 1
    BY <2>1, <2>2, <2>3
  <2>5. d[1] = disk[1]
    BY <1>1, <2>1, SdmAssumption DEF Unlinked, Inv, TypeOK, Ids
  <2> QED
    BY <2>4, <2>5
<1> HIDE DEF d, f, s, t
<1>6. ASSUME f.mark \notin {NotRead, 0} PROVE IsMark(1)
  <2>1. CASE f.mark = a.mark
    BY <1>4, <1>6, <2>1
  <2>2. CASE f.mark # a.mark
    <3>1. IsMark(t) /\ t \in Ids
      BY <1>2, <1>3, <1>6, <2>2 DEF IsMark
    <3> QED
      BY <3>1 DEF Inv, FilesInv, FilesApart
  <2> QED
    BY <2>1, <2>2
<1>7. ASSUME f.mark # a.mark, IsMark(1)
      PROVE  a.mark = NotRead /\ f.mark = body[disk[1]].n
  <2>1. body[disk[1]].is = "mark"
    BY <1>7 DEF IsMark
  <2> QED
    BY <1>2, <1>5, <1>7, <2>1
<1> QED
  BY <1>2, <1>6, <1>7 DEF f

LEMMA KillMsgKeeps ==
  ASSUME Inv, NEW p \in Procs, NEW n \in Ids, KillMsg(p, n)
  PROVE  FilesInv' /\ TablesInv'
<1> DEFINE a == area[p]
           u == a.table[n]
<1>1. Idle(p) /\ n <= a.num /\ u \in Ids
  BY KillMsgIs
<1>2. /\ a \in AreaType /\ Counted(a) /\ a.open /\ a.num \in Nat /\ n \in Nat
  BY <1>1, IdleIs DEF Inv, AreaType, Ids
<1>3. IsMark(1)' <=> IsMark(1)
  BY KillKeepsFiles
<1>4. CASE disk[u] # NoFile /\ area' = [area EXCEPT ![p] = Killed(p, n)]
  <2> DEFINE s == Short(p, n)
             f == Marks(p, n)
             k == Killed(p, n)
  <2>1. /\ k.open = s.open /\ k.table = s.table /\ k.num = s.num /\ Counted(k)
        /\ Lower(p, n) = f => k.mark = f.mark /\ k.chgd = f.chgd
        /\ Lower(p, n) # f => f.mark # NotRead /\ f.mark # 0
    BY <1>1, KilledIs DEF Inv
  <2>2. /\ s.open = a.open /\ s.num = a.num - 1
        /\ \A j \in 1 .. a.num - 1 :
             s.table[j] = IF j >= n THEN a.table[j + 1] ELSE a.table[j]
    BY <1>1, ShortIs DEF Inv
  <2>3. f.chgd = a.chgd /\ (f.mark \notin {NotRead, 0} => IsMark(1))
    BY <1>4, KillFetches
  <2>4. a.chgd => IsMark(1)
    BY DEF Inv, TablesInv, MarkThere
  <2>5. k.chgd \/ k.mark \notin {NotRead, 0} => k.open /\ IsMark(1)
    BY <1>2, <2>1, <2>2, <2>3, <2>4
  <2>6. IsMark(1) => Len(k.table) >= 1 /\ k.table[1] = 1
    <3> SUFFICES ASSUME IsMark(1) PROVE Len(k.table) >= 1 /\ k.table[1] = 1
      OBVIOUS
    <3>1. n >= 2 /\ a.num >= 2 /\ a.table[1] = 1
      BY KillNotMark
    <3>2. Len(k.table) = a.num - 1 /\ k.table[1] = s.table[1]
      BY <2>1, <2>2 DEF Counted
    <3> QED
      BY <1>2, <2>2, <3>1, <3>2
  <2>7. area'[p] = k /\ \A q \in Procs \ {p} : area'[q] = area[q]
    BY <1>4 DEF Inv, TypeOK
  <2> HIDE DEF k
  <2> QED
    BY <1>3, <2>5, <2>6, <2>7, KillKeepsFiles
       DEF Inv, TablesInv, MarkListed, MarkThere
<1>5. CASE area' = [area EXCEPT ![p].table = MovedOver(@, n),
                                ![p].saw = MovedOver(@, n)]
  <2>1. /\ area'[p].open = a.open /\ area'[p].chgd = a.chgd
        /\ area'[p].mark = a.mark
        /\ area'[p].table = MovedOver(a.table, n)
        /\ \A q \in Procs \ {p} : area'[q] = area[q]
    BY <1>2, <1>5 DEF Inv, TypeOK, AreaType
  <2>2. IsMark(1) => /\ Len(area'[p].table) >= 1 /\ area'[p].table[1] = 1
    <3> SUFFICES ASSUME IsMark(1)
                 PROVE  Len(area'[p].table) >= 1 /\ area'[p].table[1] = 1
      OBVIOUS
    <3>1. n >= 2 /\ a.num >= 2 /\ a.table[1] = 1
      BY KillNotMark
    <3>2. a.table \in Seq(0 .. MaxId) /\ Len(a.table) = a.num
          /\ n \in 1 .. Len(a.table)
      BY <1>1, <1>2 DEF AreaType, Counted, Ids
    <3>3. /\ Len(MovedOver(a.table, n)) = a.num
          /\ MovedOver(a.table, n)[1] = a.table[1]
      BY <1>2, <3>1, <3>2, MovedOverIs
    <3> QED
      BY <2>1, <3>1, <3>3
  <2> QED
    BY <1>3, <2>1, <2>2, KillKeepsFiles
       DEF Inv, TablesInv, MarkListed, MarkThere
<1> QED
  BY <1>4, <1>5, KillMsgIs

LEMMA StepInv == ASSUME OneCreator PROVE Inv /\ [Next]_vars => Inv'
<1> SUFFICES ASSUME Inv, [Next]_vars PROVE FilesInv' /\ TablesInv'
  BY StepTypes DEF Inv
<1>1. CASE UNCHANGED vars
  <2>1. TablesInv'
    BY <1>1 DEF Inv, TablesInv, MarkListed, MarkThere, IsMark, vars
  <2> QED
    BY <1>1, <2>1, FilesStay DEF vars
<1>2. CASE Next
  <2>1. PICK p \in Procs :
          \/ OpenArea(p) \/ CloseArea(p) \/ CloseMsg(p)
          \/ NextId(p) \/ MakeFile(p) \/ MakeFileFails(p) \/ WriteMsg(p)
          \/ GetHighWater(p)
          \/ \E n \in Ids : OpenMsg(p, n) \/ KillMsg(p, n) \/ SetHighWater(p, n)
    BY <1>2 DEF Next
  <2> QED
    BY <2>1, OpenAreaKeeps, CloseAreaKeeps, CloseMsgKeeps, NextIdKeeps,
       MakeFileKeeps, MakeFileFailsKeeps, WriteMsgKeeps, GetHighWaterKeeps,
       OpenMsgKeeps, KillMsgKeeps, SetHighWaterKeeps
<1> QED
  BY <1>1, <1>2

(* If at most one process creates, every message that was written stays in *)
(* its file, whole, until it is killed.                                    *)
THEOREM MessagesKeptHolds ==
  ASSUME OneCreator PROVE Spec => []MessagesKept
<1>1. Inv => MessagesKept
  BY DEF Inv, FilesInv
<1> QED
  BY <1>1, InitInv, StepInv, PTL DEF Spec

---------------------------------------------------------------------------
(***************************************************************************)
(* A reader's table.                                                       *)
(***************************************************************************)
SoleKiller == \A k \in Killers, r \in Readers : k = r

(* The order is kept between any two entries, since a removed one leaves   *)
(* others side by side.                                                    *)
TableInv(a) ==
  a.open =>
    /\ \A m, n \in 1 .. a.num : m < n => a.table[m] < a.table[n]
    /\ \A n \in 1 .. a.num : /\ a.table[n] \in Ids
                             /\ a.saw[n] # NoFile
                             /\ disk[a.table[n]] = a.saw[n]
    /\ a.high = MsgnToUid(a, a.num)
    /\ a.cur <= a.num

TablesTrue == \A r \in Readers : TableInv(area[r])

LEMMA ReaderIs ==
  ASSUME Inv, NEW r \in Readers
  PROVE  /\ r \in Procs /\ r \notin Creators /\ new[r] = NoNew
         /\ area[r] \in AreaType /\ Counted(area[r])
         /\ area[r].num \in Nat
<1>1. r \in Procs /\ r \notin Creators
  BY DEF Readers
<1>2. new[r] = NoNew
  BY <1>1 DEF Inv, FilesInv, NewIdFree
<1> QED
  BY <1>1, <1>2 DEF Inv, TypeOK, Counted, AreaType

(* A table that is the same, but for what is not the table, and whose      *)
(* files are where they were, stays true.                                  *)
LEMMA TableStays ==
  ASSUME NEW a \in AreaType, NEW b \in AreaType, TableInv(a),
         b.open => a.open,
         b.num = a.num, b.table = a.table, b.saw = a.saw, b.high = a.high,
         b.cur <= a.num \/ b.cur = a.cur,
         \A u \in Ids : disk[u] # NoFile => disk'[u] = disk[u]
  PROVE  b.open =>
           /\ \A m, n \in 1 .. b.num : m < n => b.table[m] < b.table[n]
           /\ \A n \in 1 .. b.num : /\ b.table[n] \in Ids
                                    /\ b.saw[n] # NoFile
                                    /\ disk'[b.table[n]] = b.saw[n]
           /\ b.high = MsgnToUid(b, b.num)
           /\ b.cur <= b.num
BY DEF TableInv, MsgnToUid

(* What the steps of a process do to its own table, when they neither      *)
(* create nor delete.                                                      *)
LEMMA QuietStep ==
  ASSUME Inv, NEW p \in Procs, NEW n \in Ids,
         CloseArea(p) \/ OpenMsg(p, n) \/ GetHighWater(p) \/ SetHighWater(p, n)
  PROVE  /\ UNCHANGED disk
         /\ \A q \in Procs \ {p} : area'[q] = area[q]
         /\ \/ area'[p] = Shut
            \/ LET a == area[p]
                   b == area'[p]
               IN /\ b.open = a.open /\ b.num = a.num /\ b.table = a.table
                  /\ b.saw = a.saw /\ b.high = a.high
                  /\ b.cur = a.cur \/ b.cur <= a.num
<1> DEFINE a == area[p]
<1>1. Idle(p)
  BY DEF CloseArea, OpenMsg, GetHighWater, SetHighWater
<1>2. a \in AreaType /\ Counted(a) /\ a.num \in Nat /\ a.open
  BY <1>1, IdleIs DEF Inv, AreaType
<1>3. CASE CloseArea(p)
  <2>1. a.chgd => 1 <= a.num
    <3>1. a.chgd => Len(a.table) >= 1
      BY DEF Inv, TablesInv, MarkListed, MarkThere
    <3> QED
      BY <1>2, <3>1 DEF Counted
  <2> QED
    BY <1>2, <1>3, <2>1 DEF CloseArea, Inv, TypeOK, AreaType
<1>4. CASE OpenMsg(p, n)
  BY <1>2, <1>4 DEF OpenMsg, Inv, TypeOK, AreaType
<1>5. CASE GetHighWater(p)
  <2> DEFINE f == Fetched(a, disk)
  <2>1. area' = [area EXCEPT ![p] = f] /\ UNCHANGED disk
    BY <1>5 DEF GetHighWater
  <2>2. disk \in [Ids -> 0 .. MaxFile]
    BY DEF Inv, TypeOK
  <2>3. /\ f.open = a.open /\ f.num = a.num /\ f.table = a.table
        /\ f.saw = a.saw /\ f.high = a.high
        /\ f.cur # a.cur => f.cur = 1 /\ a.num # 0
    BY <1>2, <2>2, FetchedIs DEF Inv
  <2> HIDE DEF f
  <2>4. area'[p] = f /\ \A q \in Procs \ {p} : area'[q] = area[q]
    BY <2>1 DEF Inv, TypeOK
  <2>5. f.cur = a.cur \/ f.cur <= a.num
    BY <1>2, <2>3
  <2> QED
    BY <2>1, <2>3, <2>4, <2>5
<1>6. CASE SetHighWater(p, n)
  <2> DEFINE b == SetMark(a, n)
  <2>1. area' = [area EXCEPT ![p] = b] /\ UNCHANGED disk
    BY <1>6 DEF SetHighWater
  <2>2. /\ b.open = a.open /\ b.num = a.num /\ b.table = a.table
        /\ b.saw = a.saw /\ b.high = a.high /\ b.cur = a.cur
    BY <1>2, SetMarkIs
  <2> HIDE DEF b
  <2>3. area'[p] = b /\ \A q \in Procs \ {p} : area'[q] = area[q]
    BY <2>1 DEF Inv, TypeOK
  <2> QED
    BY <2>1, <2>2, <2>3
<1> QED
  BY <1>3, <1>4, <1>5, <1>6

LEMMA QuietTables ==
  ASSUME Inv, Inv', TablesTrue, NEW p \in Procs, NEW n \in Ids,
         CloseArea(p) \/ OpenMsg(p, n) \/ GetHighWater(p) \/ SetHighWater(p, n)
  PROVE  TablesTrue'
<1> SUFFICES ASSUME NEW r \in Readers PROVE TableInv(area[r])'
  BY DEF TablesTrue
<1>1. r \in Procs /\ area[r] \in AreaType /\ area'[r] \in AreaType
  BY ReaderIs DEF Inv, TypeOK
<1>2. TableInv(area[r])
  BY DEF TablesTrue
<1>3. UNCHANGED disk
  BY QuietStep
<1>4. CASE area'[r] = Shut
  BY <1>4 DEF TableInv, Shut
<1>5. CASE area'[r] # Shut
  <2>1. LET a == area[r]
            b == area'[r]
        IN /\ b.open = a.open /\ b.num = a.num /\ b.table = a.table
           /\ b.saw = a.saw /\ b.high = a.high
           /\ b.cur = a.cur \/ b.cur <= a.num
    BY <1>1, <1>5, QuietStep
  <2> QED
    BY <1>1, <1>2, <1>3, <2>1, TableStays DEF TableInv
<1> QED
  BY <1>4, <1>5

LEMMA OpenTables ==
  ASSUME Inv, TablesTrue, NEW p \in Procs, OpenArea(p) PROVE TablesTrue'
<1> SUFFICES ASSUME NEW r \in Readers PROVE TableInv(area[r])'
  BY DEF TablesTrue
<1>1. r \in Procs /\ TableInv(area[r]) /\ UNCHANGED disk
  BY ReaderIs DEF TablesTrue, OpenArea
<1>2. CASE r # p
  BY <1>1, <1>2 DEF OpenArea, Inv, TypeOK, TableInv
<1>3. CASE r = p
  <2> DEFINE s == [Shut EXCEPT !.open = TRUE]
             b == RescanArea(s)
             t == Listed
  <2>1. s \in AreaType /\ s.high = 0 /\ s.cur = 0
    <3>1. Shut \in AreaType
      BY SdmAssumption DEF Shut, AreaType
    <3> QED
      BY <3>1 DEF Shut, AreaType
  <2>2. area'[r] = b
    BY <1>3 DEF OpenArea, Inv, TypeOK
  <2> HIDE DEF s
  <2>3. /\ b \in AreaType /\ Counted(b) /\ b.table = t /\ b.cur = 0
        /\ \A n \in 1 .. Len(t) : b.saw[n] = disk[t[n]]
        /\ b.high = Most(0, IF t = <<>> THEN 0 ELSE t[Len(t)])
    BY <2>1, RescanIs DEF Inv
  <2> HIDE DEF b
  <2>4. /\ t \in Seq(Ids)
        /\ \A n \in 1 .. Len(t) : t[n] \in Present
        /\ \A m, n \in 1 .. Len(t) : m < n => t[m] < t[n]
    BY ListedIs
  <2> HIDE DEF t
  <2>5. b.num = Len(t) /\ b.num \in Nat
    BY <2>3 DEF Counted, AreaType
  <2>6. b.high = MsgnToUid(b, b.num)
    <3>1. CASE t = <<>>
      BY <2>3, <2>5, <3>1 DEF Most, MsgnToUid, NoId
    <3>2. CASE t # <<>>
      <4>1. Len(t) # 0 /\ t[Len(t)] \in Ids
        BY <2>4, <2>5, <3>2
      <4>2. Most(0, t[Len(t)]) = t[Len(t)]
        BY <4>1, SdmAssumption DEF Most, Ids
      <4> QED
        BY <2>3, <2>5, <3>2, <4>1, <4>2 DEF MsgnToUid
    <3> QED
      BY <3>1, <3>2
  <2>7. \A n \in 1 .. b.num : /\ b.table[n] \in Ids
                              /\ b.saw[n] # NoFile
                              /\ disk[b.table[n]] = b.saw[n]
    BY <2>3, <2>4, <2>5 DEF Present
  <2> QED
    BY <1>1, <2>2, <2>3, <2>4, <2>5, <2>6, <2>7 DEF TableInv
<1> QED
  BY <1>2, <1>3

(* Creating does not touch a file that is in a table.                      *)
LEMMA CreateTables ==
  ASSUME Inv, Inv', TablesTrue, NEW p \in Procs,
         NextId(p) \/ MakeFile(p) \/ MakeFileFails(p)
         \/ WriteMsg(p) \/ CloseMsg(p)
  PROVE  TablesTrue'
<1> SUFFICES ASSUME NEW r \in Readers PROVE TableInv(area[r])'
  BY DEF TablesTrue
<1>1. /\ r \in Procs /\ r \notin Creators
      /\ area[r] \in AreaType /\ TableInv(area[r])
  BY ReaderIs DEF TablesTrue
<1>2. area'[r] = area[r]
  <2>1. new[p] # NoNew => p \in Creators
    BY DEF Inv, FilesInv, NewIdFree
  <2>2. CASE WriteMsg(p) \/ CloseMsg(p)
    BY <2>2 DEF WriteMsg, CloseMsg
  <2>3. CASE NextId(p)
    <3>1. p # r
      BY <1>1, <2>3 DEF NextId
    <3> QED
      BY <1>1, <2>3, <3>1 DEF NextId, Inv, TypeOK
  <2>4. CASE MakeFile(p)
    BY <1>1, <2>1, <2>4 DEF MakeFile, Inv, TypeOK
  <2>5. CASE MakeFileFails(p)
    BY <1>1, <2>1, <2>5 DEF MakeFileFails, Inv, TypeOK
  <2> QED
    BY <2>2, <2>3, <2>4, <2>5
<1>3. \A u \in Ids : disk[u] # NoFile => disk'[u] = disk[u]
  <2>1. CASE MakeFile(p)
    <3>1. disk[new[p].id] = NoFile
      BY <2>1 DEF MakeFile, Inv, FilesInv, NewIdFree
    <3> QED
      BY <2>1, <3>1 DEF MakeFile, Inv, TypeOK
  <2>2. CASE ~MakeFile(p)
    BY <2>2 DEF NextId, MakeFileFails, WriteMsg, CloseMsg
  <2> QED
    BY <2>1, <2>2
<1> QED
  BY <1>1, <1>2, <1>3, TableStays DEF TableInv

(* A kill takes the entry of the message it unlinks off the table, and     *)
(* never fails here: the file of an entry is there.                        *)
LEMMA KillTables ==
  ASSUME SoleKiller, Inv, Inv', TablesTrue, NEW p \in Procs, NEW n \in Ids,
         KillMsg(p, n)
  PROVE  TablesTrue'
<1> SUFFICES ASSUME NEW r \in Readers PROVE TableInv(area[r])'
  BY DEF TablesTrue
<1>1. /\ Idle(p) /\ n <= area[p].num /\ MayKill(p, n)
      /\ area[p].table[n] \in Ids
  BY KillMsgIs
<1>2. p = r
  BY <1>1 DEF MayKill, SoleKiller
<1> DEFINE a == area[p]
           u == a.table[n]
           s == Short(p, n)
           k == Killed(p, n)
<1>3. a.open /\ TableInv(a) /\ a.num \in Nat /\ n \in 1 .. a.num
  BY <1>1, <1>2, ReaderIs, IdleIs DEF TablesTrue, Inv, Ids
<1>4. /\ \A i, j \in 1 .. a.num : i < j => a.table[i] < a.table[j]
      /\ \A i \in 1 .. a.num : /\ a.table[i] \in Ids
                               /\ a.saw[i] # NoFile
                               /\ disk[a.table[i]] = a.saw[i]
      /\ a.high = MsgnToUid(a, a.num)
      /\ a.cur <= a.num
  BY <1>3 DEF TableInv
<1>5. disk[u] # NoFile
  BY <1>3, <1>4
<1>6. disk' = Unlinked(p, n) /\ area' = [area EXCEPT ![p] = k]
  BY <1>5, KillMsgIs
<1>7. area'[r] = k
  BY <1>2, <1>6 DEF Inv, TypeOK
<1>8. /\ k.num = a.num - 1 /\ k.high = s.high
      /\ k.table = s.table /\ k.saw = s.saw /\ s.num = a.num - 1
      /\ \A i \in 1 .. a.num - 1 :
           /\ s.table[i] = IF i >= n THEN a.table[i + 1] ELSE a.table[i]
           /\ s.saw[i] = IF i >= n THEN a.saw[i + 1] ELSE a.saw[i]
      /\ s.high = IF u = a.high THEN MsgnToUid(s, s.num) ELSE a.high
  BY <1>1, ShortIs, KilledIs DEF Inv
<1>9. /\ k.cur = (IF Marks(p, n).cur >= n THEN Marks(p, n).cur - 1
                  ELSE Marks(p, n).cur)
      /\ Marks(p, n).cur # a.cur => Marks(p, n).cur = 1 /\ s.num # 0
  BY <1>1, KilledIs DEF Inv
<1>10. a.cur \in Nat
  BY <1>1, IdleIs DEF Inv, AreaType
<1> HIDE DEF a, s, k
<1>11. \A i, j \in 1 .. k.num : i < j => k.table[i] < k.table[j]
  <2> SUFFICES ASSUME NEW i \in 1 .. k.num, NEW j \in 1 .. k.num, i < j
               PROVE  k.table[i] < k.table[j]
    OBVIOUS
  <2>1. PICK x \in 1 .. a.num : k.table[i] = a.table[x]
                                /\ x = IF i >= n THEN i + 1 ELSE i
    BY <1>3, <1>8
  <2>2. PICK y \in 1 .. a.num : k.table[j] = a.table[y]
                                /\ y = IF j >= n THEN j + 1 ELSE j
    BY <1>3, <1>8
  <2>3. x < y
    BY <1>3, <1>8, <2>1, <2>2
  <2> QED
    BY <1>4, <2>1, <2>2, <2>3
<1>12. \A i \in 1 .. k.num : /\ k.table[i] \in Ids
                             /\ k.saw[i] # NoFile
                             /\ disk'[k.table[i]] = k.saw[i]
  <2> SUFFICES ASSUME NEW i \in 1 .. k.num
               PROVE  /\ k.table[i] \in Ids /\ k.saw[i] # NoFile
                      /\ disk'[k.table[i]] = k.saw[i]
    OBVIOUS
  <2>1. PICK x \in 1 .. a.num : /\ k.table[i] = a.table[x]
                                /\ k.saw[i] = a.saw[x] /\ x # n
    BY <1>3, <1>8
  <2>2. a.table[x] # u
    <3>1. a.table[x] < a.table[n] \/ a.table[n] < a.table[x]
      BY <1>3, <1>4, <2>1
    <3>2. a.table[x] \in Int /\ a.table[n] \in Int
      BY <1>3, <1>4, SdmAssumption DEF Ids
    <3> QED
      BY <3>1, <3>2 DEF a
  <2>3. disk'[a.table[x]] = disk[a.table[x]]
    BY <1>4, <1>6, <2>2 DEF Unlinked, Inv, TypeOK, a
  <2> QED
    BY <1>4, <2>1, <2>3
<1>13. k.high = MsgnToUid(k, k.num)
  <2>1. CASE u = a.high
    BY <1>8, <2>1 DEF MsgnToUid
  <2>2. CASE u # a.high
    <3>1. n # a.num
      BY <1>3, <1>4, <2>2 DEF MsgnToUid, a
    <3>2. a.num - 1 \in 1 .. a.num - 1 /\ a.num - 1 >= n /\ a.num # 0
      BY <1>3, <3>1
    <3>3. k.table[a.num - 1] = a.table[a.num]
      BY <1>3, <1>8, <3>2
    <3> QED
      BY <1>3, <1>4, <1>8, <2>2, <3>2, <3>3 DEF MsgnToUid
  <2> QED
    BY <2>1, <2>2
<1>14. k.cur <= k.num
  BY <1>3, <1>4, <1>8, <1>9, <1>10
<1> QED
  BY <1>7, <1>11, <1>12, <1>13, <1>14 DEF TableInv

LEMMA StepTables ==
  ASSUME SoleKiller
  PROVE  Inv /\ Inv' /\ TablesTrue /\ [Next]_vars => TablesTrue'
<1> SUFFICES ASSUME Inv, Inv', TablesTrue, [Next]_vars PROVE TablesTrue'
  OBVIOUS
<1>1. CASE UNCHANGED vars
  BY <1>1 DEF vars, TablesTrue, TableInv, MsgnToUid
<1>2. CASE Next
  <2> PICK p \in Procs :
        \/ OpenArea(p) \/ CloseArea(p) \/ CloseMsg(p)
        \/ NextId(p) \/ MakeFile(p) \/ MakeFileFails(p) \/ WriteMsg(p)
        \/ GetHighWater(p)
        \/ \E n \in Ids : OpenMsg(p, n) \/ KillMsg(p, n) \/ SetHighWater(p, n)
    BY <1>2 DEF Next
  <2>1. 1 \in Ids
    BY SdmAssumption DEF Ids
  <2>2. CASE OpenArea(p)
    BY <2>2, OpenTables
  <2>3. CASE CloseArea(p) \/ GetHighWater(p)
    BY <2>1, <2>3, QuietTables
  <2>4. CASE NextId(p) \/ MakeFile(p) \/ MakeFileFails(p) \/ WriteMsg(p)
             \/ CloseMsg(p)
    BY <2>4, CreateTables
  <2>5. ASSUME NEW n \in Ids,
               OpenMsg(p, n) \/ KillMsg(p, n) \/ SetHighWater(p, n)
        PROVE  TablesTrue'
    BY <2>5, QuietTables, KillTables
  <2> QED
    BY <2>2, <2>3, <2>4, <2>5
<1> QED
  BY <1>1, <1>2

(* Where one process creates and the only process that deletes is the one  *)
(* that reads, a reader's table goes on naming the files it was read from, *)
(* although the ids of deleted messages are given out again                *)
(* (api_sdm.c 349-366, 833-858).                                           *)
THEOREM TableTrueHolds ==
  ASSUME OneCreator, SoleKiller PROVE Spec => []TableTrue
<1>1. Init => Inv /\ TablesTrue
  <2>1. Init => TablesTrue
    BY DEF Init, TablesTrue, TableInv, Shut, Readers
  <2> QED
    BY <2>1, InitInv
<1>2. Inv /\ TablesTrue /\ [Next]_vars => Inv' /\ TablesTrue'
  BY StepInv, StepTables
<1>3. Inv /\ TablesTrue => TableTrue
  <2> SUFFICES ASSUME Inv, TablesTrue, NEW r \in Readers, area[r].open
               PROVE  /\ \A n \in DOMAIN area[r].table :
                           /\ n > 1 => area[r].table[n - 1] < area[r].table[n]
                           /\ disk[area[r].table[n]] = area[r].saw[n]
                      /\ area[r].high = MsgnToUid(area[r], area[r].num)
                      /\ area[r].cur <= area[r].num
    BY DEF TableTrue
  <2>1. area[r].num \in Nat /\ DOMAIN area[r].table = 1 .. area[r].num
    BY ReaderIs DEF Counted, AreaType
  <2>2. TableInv(area[r])
    BY DEF TablesTrue
  <2> QED
    BY <2>1, <2>2 DEF TableInv
<1> QED
  BY <1>1, <1>2, <1>3, PTL DEF Spec

---------------------------------------------------------------------------
(***************************************************************************)
(* The high water mark.                                                    *)
(***************************************************************************)
OneMarker == \A p \in Markers, q \in Markers \cup Killers : p = q

(* Only those fetch the mark that set it or adjust it.                     *)
MarkFetched ==
  \A p \in Procs : area[p].mark # NotRead => p \in Markers \cup Killers

MarkInv == MarkFetched /\ MarkKept

(* What the steps that have nothing to do with the mark leave alone.       *)
LEMMA CalmIs ==
  ASSUME Inv, NEW p \in Procs, NEW n \in Ids,
         OpenMsg(p, n) \/ CloseMsg(p) \/ NextId(p) \/ MakeFile(p)
         \/ MakeFileFails(p) \/ WriteMsg(p)
  PROVE  /\ wanted' = wanted
         /\ \A q \in Procs : /\ area'[q].open = area[q].open
                             /\ area'[q].mark = area[q].mark
                             /\ area'[q].chgd = area[q].chgd
         /\ IsMark(1)' => IsMark(1) /\ disk'[1] = disk[1]
                          /\ body'[disk[1]] = body[disk[1]]
<1>1. 1 \in Ids
  BY SdmAssumption DEF Ids
<1>2. area[p] \in AreaType
  BY DEF Inv, TypeOK
<1>3. CASE OpenMsg(p, n)
  BY <1>2, <1>3 DEF OpenMsg, Inv, TypeOK, AreaType, IsMark
<1>4. CASE CloseMsg(p)
  BY <1>4 DEF CloseMsg, IsMark
<1>5. CASE NextId(p)
  <2> DEFINE a == area[p]
             b == IF FreeId(a) \in Ids /\ disk[FreeId(a)] # NoFile
                  THEN RescanArea(a) ELSE a
             m == b.num + 1
             h == IF IsEcho /\ b.num = 0 THEN 2 ELSE FreeId(b)
             c == [b EXCEPT !.num = m, !.high = h]
  <2>1. area' = [area EXCEPT ![p] = c] /\ UNCHANGED <<disk, body, wanted>>
    BY <1>5 DEF NextId
  <2>2. b \in AreaType /\ b.open = a.open /\ b.mark = a.mark /\ b.chgd = a.chgd
    BY <1>2, RescanIs DEF Inv
  <2> HIDE DEF b, m, h
  <2>3. c.open = a.open /\ c.mark = a.mark /\ c.chgd = a.chgd
    BY <2>2 DEF AreaType
  <2> HIDE DEF c
  <2>4. area'[p] = c /\ \A q \in Procs \ {p} : area'[q] = area[q]
    BY <2>1 DEF Inv, TypeOK
  <2> QED
    BY <2>1, <2>3, <2>4 DEF IsMark
<1>6. CASE MakeFile(p)
  <2> DEFINE u == new[p].id
             i == born + 1
  <2>1. disk[u] = NoFile /\ u \in Ids
    BY <1>6, CreatingIs DEF MakeFile, Inv, FilesInv, NewIdFree
  <2>2. /\ disk' = [disk EXCEPT ![u] = i] /\ body' = [body EXCEPT ![i] = Empty]
        /\ i \in Files /\ wanted' = wanted
    BY <1>6, <2>1 DEF MakeFile
  <2>3. \A q \in Procs : /\ area'[q].open = area[q].open
                         /\ area'[q].mark = area[q].mark
                         /\ area'[q].chgd = area[q].chgd
    <3> DEFINE a == area[p]
               x == new[p].num
               y == a.num + 1
               f == IF disk[u] = NoFile THEN i ELSE disk[u]
    <3>1. PICK junk \in Garbage :
            area' = [area EXCEPT ![p].cur = x, ![p].num = y,
                                 ![p].table = @ \o <<junk, u>>,
                                 ![p].saw = @ \o <<NoFile, f>>]
      BY <1>6 DEF MakeFile
    <3> DEFINE t == a.table \o <<junk, u>>
               w == a.saw \o <<NoFile, f>>
               c == [a EXCEPT !.cur = x, !.num = y, !.table = t, !.saw = w]
    <3>2. area' = [area EXCEPT ![p] = c]
      BY <3>1
    <3> HIDE DEF x, y, t, w
    <3>3. c.open = a.open /\ c.mark = a.mark /\ c.chgd = a.chgd
      BY <1>2 DEF AreaType
    <3> HIDE DEF c
    <3>4. area'[p] = c /\ \A q \in Procs \ {p} : area'[q] = area[q]
      BY <3>2 DEF Inv, TypeOK
    <3> QED
      BY <3>3, <3>4
  <2>4. ASSUME IsMark(1)'
        PROVE  IsMark(1) /\ disk'[1] = disk[1] /\ body'[disk[1]] = body[disk[1]]
    <3>1. disk[1] <= born /\ disk[1] \in 0 .. MaxFile /\ born \in 0 .. MaxFile
      BY <1>1 DEF Inv, FilesInv, FilesApart, TypeOK
    <3>2. disk[1] # i
      BY <3>1
    <3>3. body'[i] = Empty
      BY <2>2 DEF Inv, TypeOK
    <3>4. u # 1
      BY <1>1, <2>2, <2>4, <3>3 DEF IsMark, Empty, Inv, TypeOK
    <3>5. disk'[1] = disk[1]
      BY <1>1, <2>2, <3>4 DEF Inv, TypeOK
    <3>6. disk[1] \in Files
      BY <2>4, <3>1, <3>5, SdmAssumption DEF IsMark, NoFile, Files
    <3>7. body'[disk[1]] = body[disk[1]]
      BY <2>2, <3>2, <3>6 DEF Inv, TypeOK
    <3> QED
      BY <2>4, <3>5, <3>7 DEF IsMark
  <2> QED
    BY <2>2, <2>3, <2>4
<1>7. CASE MakeFileFails(p)
  <2>1. UNCHANGED <<disk, body, wanted>>
    BY <1>7 DEF MakeFileFails
  <2>2. \A q \in Procs : /\ area'[q].open = area[q].open
                         /\ area'[q].mark = area[q].mark
                         /\ area'[q].chgd = area[q].chgd
    <3> DEFINE a == area[p]
    <3>1. PICK junk \in Garbage :
            area' = [area EXCEPT ![p].table = Append(@, junk),
                                 ![p].saw = Append(@, NoFile)]
      BY <1>7 DEF MakeFileFails
    <3> DEFINE t == Append(a.table, junk)
               w == Append(a.saw, NoFile)
               c == [a EXCEPT !.table = t, !.saw = w]
    <3>2. area' = [area EXCEPT ![p] = c]
      BY <3>1
    <3> HIDE DEF t, w
    <3>3. c.open = a.open /\ c.mark = a.mark /\ c.chgd = a.chgd
      BY <1>2 DEF AreaType
    <3> HIDE DEF c
    <3>4. area'[p] = c /\ \A q \in Procs \ {p} : area'[q] = area[q]
      BY <3>2 DEF Inv, TypeOK
    <3> QED
      BY <3>3, <3>4
  <2> QED
    BY <2>1, <2>2 DEF IsMark
<1>8. CASE WriteMsg(p)
  <2>1. /\ UNCHANGED <<disk, area, wanted>> /\ msgh[p].ino \in Files
        /\ body' = [body EXCEPT ![msgh[p].ino] = Msg(msgh[p].b)]
    BY <1>8 DEF WriteMsg, Inv, TypeOK, MsghType
  <2>2. ASSUME IsMark(1)'
        PROVE  IsMark(1) /\ disk'[1] = disk[1] /\ body'[disk[1]] = body[disk[1]]
    <3>1. disk[1] \in Files
      BY <1>1, <2>1, <2>2, SdmAssumption
         DEF IsMark, NoFile, Files, Inv, TypeOK
    <3>2. body'[msgh[p].ino].is = "msg"
      BY <2>1 DEF Inv, TypeOK, Msg
    <3>3. disk[1] # msgh[p].ino
      BY <2>1, <2>2, <3>2 DEF IsMark
    <3>4. body'[disk[1]] = body[disk[1]]
      BY <2>1, <3>1, <3>3 DEF Inv, TypeOK
    <3> QED
      BY <2>1, <2>2, <3>4 DEF IsMark
  <2> QED
    BY <2>1, <2>2
<1> QED
  BY <1>3, <1>4, <1>5, <1>6, <1>7, <1>8

LEMMA CalmMarks ==
  ASSUME Inv, MarkInv, wanted' = wanted,
         \A q \in Procs : /\ area'[q].open = area[q].open
                          /\ area'[q].mark = area[q].mark
                          /\ area'[q].chgd = area[q].chgd,
         IsMark(1)' => IsMark(1) /\ disk'[1] = disk[1]
                       /\ body'[disk[1]] = body[disk[1]]
  PROVE  MarkInv'
<1>1. MarkFetched'
  BY DEF MarkInv, MarkFetched
<1>2. 1 \in Ids /\ Markers \subseteq Procs
  BY SdmAssumption DEF Ids
<1>3. MarkKept'
  BY <1>2 DEF MarkInv, MarkKept, IsMark
<1> QED
  BY <1>1, <1>3 DEF MarkInv

(* Where there is a mark, its owner has the last one, or it is written.    *)
MarkOf(a) ==
  IF a.open /\ a.mark # NotRead
  THEN a.mark = wanted.mark /\ (a.chgd \/ body[disk[1]] = Mark(wanted.mark))
  ELSE body[disk[1]] = Mark(wanted.mark)

LEMMA MarkKeptIs == MarkKept <=> (IsMark(1) => \A p \in Markers : MarkOf(area[p]))
BY SdmAssumption DEF MarkKept, MarkOf, IsMark, Ids

LEMMA MarkOwner ==
  ASSUME OneMarker, NEW p \in Markers \cup Killers, NEW q \in Markers PROVE q = p
BY DEF OneMarker

(* A step of the one that sets or adjusts the mark: every marker is it.    *)
LEMMA OwnStep ==
  ASSUME OneMarker, Inv, MarkInv, NEW p \in Markers \cup Killers,
         \A q \in Procs \ {p} : area'[q] = area[q],
         p \in Markers /\ IsMark(1)' => MarkOf(area[p])'
  PROVE  MarkInv'
<1>1. MarkFetched'
  BY DEF MarkInv, MarkFetched
<1>2. \A q \in Markers : q = p
  BY MarkOwner
<1>3. MarkKept'
  <2> SUFFICES ASSUME IsMark(1)', NEW q \in Markers PROVE MarkOf(area[q])'
    BY SdmAssumption DEF MarkKept, MarkOf, IsMark, Ids
  <2> QED
    BY <1>2
<1> QED
  BY <1>1, <1>3 DEF MarkInv

LEMMA OpenAreaMarks ==
  ASSUME Inv, MarkInv, NEW p \in Procs, OpenArea(p) PROVE MarkInv'
<1>1. UNCHANGED <<disk, body, wanted>> /\ ~area[p].open
  BY DEF OpenArea
<1>2. area'[p].mark = NotRead /\ \A q \in Procs \ {p} : area'[q] = area[q]
  <2> DEFINE s == [Shut EXCEPT !.open = TRUE]
             r == RescanArea(s)
  <2>1. s \in AreaType /\ s.mark = NotRead
    <3>1. Shut \in AreaType
      BY SdmAssumption DEF Shut, AreaType
    <3> QED
      BY <3>1 DEF Shut, AreaType
  <2>2. area' = [area EXCEPT ![p] = r]
    BY DEF OpenArea
  <2> HIDE DEF s
  <2>3. r.mark = NotRead
    BY <2>1, RescanIs DEF Inv
  <2> HIDE DEF r
  <2> QED
    BY <2>2, <2>3 DEF Inv, TypeOK
<1>3. MarkFetched'
  BY <1>2 DEF MarkInv, MarkFetched
<1>4. ASSUME IsMark(1)', NEW q \in Markers PROVE MarkOf(area[q])'
  <2>1. IsMark(1) /\ MarkOf(area[q]) /\ q \in Procs
    BY <1>1, <1>4, MarkKeptIs, SdmAssumption DEF MarkInv, IsMark
  <2>2. CASE q = p
    BY <1>1, <1>2, <2>1, <2>2 DEF MarkOf
  <2>3. CASE q # p
    BY <1>1, <1>2, <2>1, <2>3 DEF MarkOf
  <2> QED
    BY <2>2, <2>3
<1>5. MarkKept'
  BY <1>4, SdmAssumption DEF MarkKept, MarkOf, IsMark, Ids
<1> QED
  BY <1>3, <1>5 DEF MarkInv

(* A changed mark is that of the one who closes; an unchanged one is       *)
(* written already.                                                        *)
LEMMA CloseAreaMarks ==
  ASSUME OneMarker, Inv, MarkInv, NEW p \in Procs, CloseArea(p) PROVE MarkInv'
<1> DEFINE a == area[p]
           b == IF msgh[p].mode = "closed" THEN Shut
                ELSE IF a.chgd THEN [a EXCEPT !.cur = 1] ELSE a
<1>1. a \in AreaType /\ a.open /\ (a.chgd => a.mark # NotRead)
  BY IdleIs DEF Inv, CloseArea
<1>2. area' = [area EXCEPT ![p] = b] /\ UNCHANGED <<disk, wanted>>
  BY DEF CloseArea
<1>3. b = Shut \/ (b.open = a.open /\ b.mark = a.mark /\ b.chgd = a.chgd)
  BY <1>1 DEF AreaType
<1> HIDE DEF b
<1>4. area'[p] = b /\ \A q \in Procs \ {p} : area'[q] = area[q]
  BY <1>2 DEF Inv, TypeOK
<1>5. CASE ~a.chgd /\ body' = body
  <2>1. MarkFetched'
    BY <1>3, <1>4 DEF MarkInv, MarkFetched, Shut
  <2>2. ASSUME IsMark(1)', NEW q \in Markers PROVE MarkOf(area[q])'
    <3>1. IsMark(1) /\ MarkOf(area[q]) /\ q \in Procs
      BY <1>2, <1>5, <2>2, MarkKeptIs, SdmAssumption DEF MarkInv, IsMark
    <3>2. CASE q = p
      <4>1. MarkOf(a) /\ ~a.chgd
        BY <1>5, <3>1, <3>2
      <4>2. body[disk[1]] = Mark(wanted.mark)
        BY <1>1, <4>1 DEF MarkOf
      <4>3. b.mark # NotRead => b.mark = wanted.mark
        <5>1. a.mark # NotRead => a.mark = wanted.mark
          BY <1>1, <4>1 DEF MarkOf
        <5>2. b.mark = NotRead \/ b.mark = a.mark
          BY <1>3 DEF Shut
        <5> QED
          BY <5>1, <5>2
      <4> QED
        BY <1>2, <1>4, <1>5, <3>2, <4>2, <4>3 DEF MarkOf
    <3>3. CASE q # p
      BY <1>2, <1>4, <1>5, <3>1, <3>3 DEF MarkOf
    <3> QED
      BY <3>2, <3>3
  <2>3. MarkKept'
    BY <2>2, SdmAssumption DEF MarkKept, MarkOf, IsMark, Ids
  <2> QED
    BY <2>1, <2>3 DEF MarkInv
<1>6. CASE /\ a.chgd /\ a.open /\ IsMark(1) /\ disk[1] \in Files
           /\ body' = [body EXCEPT ![disk[1]] = Mark(a.mark)]
  <2>1. p \in Markers \cup Killers
    BY <1>1, <1>6 DEF MarkInv, MarkFetched
  <2>2. ASSUME p \in Markers PROVE MarkOf(area[p])'
    <3>1. MarkOf(a)
      BY <1>6, <2>2, MarkKeptIs DEF MarkInv
    <3>2. a.mark = wanted.mark
      BY <1>1, <1>6, <3>1 DEF MarkOf
    <3>3. body'[disk'[1]] = Mark(wanted'.mark)
      BY <1>2, <1>6, <3>2 DEF Inv, TypeOK
    <3> QED
      BY <1>2, <1>3, <1>4, <3>2, <3>3 DEF MarkOf, Shut
  <2> QED
    BY <1>4, <2>1, <2>2, OwnStep
<1> QED
  BY <1>5, <1>6, CloseAreaIs

LEMMA GetHighWaterMarks ==
  ASSUME OneMarker, Inv, MarkInv, NEW p \in Procs, GetHighWater(p)
  PROVE  MarkInv'
<1> DEFINE a == area[p]
           f == Fetched(a, disk)
<1>1. a \in AreaType /\ a.open /\ p \in Markers
  BY IdleIs DEF Inv, GetHighWater
<1>2. area' = [area EXCEPT ![p] = f] /\ UNCHANGED <<disk, body, wanted>>
  BY DEF GetHighWater
<1>3. disk \in [Ids -> 0 .. MaxFile]
  BY DEF Inv, TypeOK
<1>4. /\ f.open = a.open /\ f.chgd = a.chgd
      /\ a.mark # NotRead => f.mark = a.mark
      /\ f.mark # a.mark =>
           f.mark = IF body[disk[a.table[1]]].is = "mark"
                    THEN body[disk[a.table[1]]].n ELSE 0
  BY <1>1, <1>3, FetchedIs DEF Inv
<1> HIDE DEF f
<1>5. area'[p] = f /\ \A q \in Procs \ {p} : area'[q] = area[q]
  BY <1>2 DEF Inv, TypeOK
<1>6. ASSUME IsMark(1)' PROVE MarkOf(area[p])'
  <2>1. IsMark(1) /\ MarkOf(a)
    BY <1>1, <1>2, <1>6, MarkKeptIs DEF MarkInv, IsMark
  <2>2. CASE f.mark = a.mark
    BY <1>2, <1>4, <1>5, <2>1, <2>2 DEF MarkOf
  <2>3. CASE f.mark # a.mark
    <3>1. a.mark = NotRead /\ a.table[1] = 1
      BY <1>1, <1>4, <2>1, <2>3 DEF Inv, TablesInv, MarkListed
    <3>2. body[disk[1]] = Mark(wanted.mark)
      BY <2>1, <3>1 DEF MarkOf
    <3>3. f.mark = wanted.mark
      BY <1>4, <2>3, <3>1, <3>2 DEF Mark
    <3> QED
      BY <1>2, <1>5, <3>2, <3>3 DEF MarkOf
  <2> QED
    BY <2>2, <2>3
<1> QED
  BY <1>1, <1>5, <1>6, OwnStep

LEMMA SetHighWaterMarks ==
  ASSUME OneMarker, Inv, MarkInv, NEW p \in Procs, NEW n \in Ids,
         SetHighWater(p, n)
  PROVE  MarkInv'
<1> DEFINE a == area[p]
           b == SetMark(a, n)
<1>1. a \in AreaType /\ a.open /\ p \in Markers
  BY IdleIs DEF Inv, SetHighWater, MayMark
<1>2. /\ area' = [area EXCEPT ![p] = b] /\ UNCHANGED <<disk, body>>
      /\ wanted'.mark = n
  BY DEF SetHighWater
<1>3. b.open = a.open /\ b.mark = n /\ (a.chgd \/ n # a.mark => b.chgd)
  BY <1>1 DEF SetMark, AreaType
<1> HIDE DEF b
<1>4. area'[p] = b /\ \A q \in Procs \ {p} : area'[q] = area[q]
  BY <1>2 DEF Inv, TypeOK
<1>5. n # NotRead
  BY SdmAssumption DEF NotRead, Ids
<1>6. ASSUME IsMark(1)' PROVE MarkOf(area[p])'
  <2>1. IsMark(1) /\ MarkOf(a)
    BY <1>1, <1>2, <1>6, MarkKeptIs DEF MarkInv, IsMark
  <2>2. CASE n = a.mark
    <3>1. wanted'.mark = wanted.mark
      BY <1>1, <1>2, <1>5, <2>1, <2>2 DEF MarkOf
    <3> QED
      BY <1>1, <1>2, <1>3, <1>4, <1>5, <2>1, <2>2, <3>1 DEF MarkOf
  <2>3. CASE n # a.mark
    BY <1>1, <1>2, <1>3, <1>4, <1>5, <2>3 DEF MarkOf
  <2> QED
    BY <2>2, <2>3
<1> QED
  BY <1>1, <1>4, <1>6, OwnStep

(* The mark a kill lowers has been fetched, so it is the last one; and the *)
(* message it is kept in is not what is killed.                            *)
LEMMA KillMarks ==
  ASSUME OneMarker, Inv, MarkInv, NEW p \in Procs, NEW n \in Ids, KillMsg(p, n)
  PROVE  MarkInv'
<1> DEFINE a == area[p]
           u == a.table[n]
           f == Marks(p, n)
           k == Killed(p, n)
<1>1. /\ Idle(p) /\ n <= a.num /\ u \in Ids /\ p \in Killers
      /\ UNCHANGED body
  BY KillMsgIs DEF MayKill
<1>2. a \in AreaType /\ a.open
  BY <1>1, IdleIs DEF Inv
<1>3. CASE disk[u] = NoFile
  <2> DEFINE t == MovedOver(a.table, n)
             w == MovedOver(a.saw, n)
             c == [a EXCEPT !.table = t, !.saw = w]
  <2>1. area' = [area EXCEPT ![p] = c] /\ UNCHANGED <<disk, wanted>>
    <3>1. /\ area' = [area EXCEPT ![p].table = MovedOver(@, n),
                                  ![p].saw = MovedOver(@, n)]
          /\ UNCHANGED <<disk, wanted>>
      BY <1>3, KillMsgIs
    <3>2. area \in [Procs -> AreaType]
      BY DEF Inv, TypeOK
    <3> QED
      BY <3>1, <3>2
  <2> HIDE DEF t, w
  <2>2. c.open = a.open /\ c.mark = a.mark /\ c.chgd = a.chgd
    BY <1>2 DEF AreaType
  <2> HIDE DEF c
  <2>3. area'[p] = c /\ \A q \in Procs \ {p} : area'[q] = area[q]
    BY <2>1 DEF Inv, TypeOK
  <2> QED
    BY <1>1, <2>1, <2>2, <2>3, CalmMarks DEF IsMark
<1>4. CASE disk[u] # NoFile
  <2>1. /\ disk' = Unlinked(p, n) /\ area' = [area EXCEPT ![p] = k]
        /\ wanted' = IF Lower(p, n) = f THEN wanted
                     ELSE [wanted EXCEPT !.mark = n - 1]
    BY <1>4, KillMsgIs
  <2>2. area'[p] = k /\ \A q \in Procs \ {p} : area'[q] = area[q]
    BY <2>1 DEF Inv, TypeOK
  <2>3. /\ k.open = a.open
        /\ Lower(p, n) = f => k.mark = f.mark /\ k.chgd = f.chgd
        /\ Lower(p, n) # f => /\ f.mark # NotRead /\ k.mark = n - 1
                              /\ k.chgd = (f.chgd \/ n - 1 # f.mark)
    BY <1>1, ShortIs, KilledIs DEF Inv
  <2>4. /\ f.chgd = a.chgd
        /\ f.mark # a.mark /\ IsMark(1) =>
             a.mark = NotRead /\ f.mark = body[disk[1]].n
    BY <1>4, KillFetches
  <2> HIDE DEF f, k
  <2>5. ASSUME IsMark(1)', p \in Markers PROVE MarkOf(area[p])'
    <3>1. IsMark(1)
      BY <2>5, KillKeepsFiles
    <3>2. MarkOf(a)
      BY <2>5, <3>1, MarkKeptIs DEF MarkInv
    <3>3. u # 1
      BY <3>1, KillNotMark
    <3>4. disk'[1] = disk[1]
      BY <1>1, <2>1, <3>3, SdmAssumption DEF Unlinked, Inv, TypeOK, Ids
    <3>5. body[disk[1]] = Mark(wanted.mark) => body[disk[1]].n = wanted.mark
      BY DEF Mark
    <3>6. f.mark # NotRead =>
            /\ f.mark = wanted.mark
            /\ f.chgd \/ body[disk[1]] = Mark(wanted.mark)
      BY <1>2, <2>4, <3>1, <3>2, <3>5 DEF MarkOf
    <3>7. f.mark = NotRead => body[disk[1]] = Mark(wanted.mark)
      BY <1>2, <2>4, <3>1, <3>2, <3>5 DEF MarkOf, Inv, TypeOK
    <3>8. CASE Lower(p, n) = f
      BY <1>1, <1>2, <2>1, <2>2, <2>3, <3>4, <3>6, <3>7, <3>8 DEF MarkOf
    <3>9. CASE Lower(p, n) # f
      <4>1. wanted'.mark = n - 1
        BY <2>1, <3>9 DEF Inv, TypeOK
      <4>2. n - 1 # NotRead
        BY SdmAssumption DEF Ids, NotRead
      <4>3. k.chgd \/ body[disk[1]] = Mark(n - 1)
        BY <2>3, <3>6, <3>9
      <4> QED
        BY <1>1, <1>2, <2>2, <2>3, <3>4, <3>9, <4>1, <4>2, <4>3 DEF MarkOf
    <3> QED
      BY <3>8, <3>9
  <2> QED
    BY <1>1, <2>2, <2>5, OwnStep
<1> QED
  BY <1>3, <1>4

LEMMA StepMarks ==
  ASSUME OneMarker
  PROVE  Inv /\ MarkInv /\ [Next]_vars => MarkInv'
<1> SUFFICES ASSUME Inv, MarkInv, [Next]_vars PROVE MarkInv'
  OBVIOUS
<1>1. CASE UNCHANGED vars
  BY <1>1, CalmMarks DEF vars, IsMark
<1>2. CASE Next
  <2> PICK p \in Procs :
        \/ OpenArea(p) \/ CloseArea(p) \/ CloseMsg(p)
        \/ NextId(p) \/ MakeFile(p) \/ MakeFileFails(p) \/ WriteMsg(p)
        \/ GetHighWater(p)
        \/ \E n \in Ids : OpenMsg(p, n) \/ KillMsg(p, n) \/ SetHighWater(p, n)
    BY <1>2 DEF Next
  <2>1. 1 \in Ids
    BY SdmAssumption DEF Ids
  <2>2. CASE OpenArea(p)
    BY <2>2, OpenAreaMarks
  <2>3. CASE CloseArea(p)
    BY <2>3, CloseAreaMarks
  <2>4. CASE NextId(p) \/ MakeFile(p) \/ MakeFileFails(p) \/ WriteMsg(p)
             \/ CloseMsg(p)
    BY <2>1, <2>4, CalmIs, CalmMarks
  <2>5. CASE GetHighWater(p)
    BY <2>5, GetHighWaterMarks
  <2>6. ASSUME NEW n \in Ids, OpenMsg(p, n) PROVE MarkInv'
    BY <2>6, CalmIs, CalmMarks
  <2>7. ASSUME NEW n \in Ids, KillMsg(p, n) PROVE MarkInv'
    BY <2>7, KillMarks
  <2>8. ASSUME NEW n \in Ids, SetHighWater(p, n) PROVE MarkInv'
    BY <2>8, SetHighWaterMarks
  <2> QED
    BY <2>2, <2>3, <2>4, <2>5, <2>6, <2>7, <2>8
<1> QED
  BY <1>1, <1>2

(* Where one process creates, and one sets the mark and is the only one    *)
(* that deletes, the mark is never lost on its way between the memory of   *)
(* the area and its first message (api_sdm.c 231-257, 860-866).            *)
THEOREM MarkKeptHolds ==
  ASSUME OneCreator, OneMarker PROVE Spec => []MarkKept
<1>1. Init => Inv /\ MarkInv
  <2>1. Init => MarkFetched
    BY DEF Init, MarkFetched, Shut
  <2>2. Init => MarkKept
    <3> SUFFICES ASSUME Init, NEW p \in Markers, disk[1] # NoFile,
                        body[disk[1]].is = "mark"
                 PROVE  /\ ~area[p].open
                        /\ body[disk[1]] = Mark(wanted.mark)
      BY DEF MarkKept
    <3>1. PICK marked \in BOOLEAN :
            /\ disk = [v \in Ids |-> IF marked /\ v = 1 THEN 1 ELSE NoFile]
            /\ body = [i \in Files |-> IF marked /\ i = 1 THEN Mark(0) ELSE Empty]
      BY DEF Init
    <3>2. 1 \in Ids /\ 1 \in Files /\ p \in Procs
      BY SdmAssumption DEF Ids, Files
    <3>3. marked /\ disk[1] = 1 /\ body[1] = Mark(0)
      BY <3>1, <3>2 DEF NoFile
    <3>4. wanted.mark = 0 /\ area[p] = Shut
      BY <3>2 DEF Init
    <3> QED
      BY <3>3, <3>4 DEF Shut
  <2> QED
    BY <2>1, <2>2, InitInv DEF MarkInv
<1>2. Inv /\ MarkInv /\ [Next]_vars => Inv' /\ MarkInv'
  BY StepInv, StepMarks
<1>3. Inv /\ MarkInv => MarkKept
  BY DEF MarkInv
<1> QED
  BY <1>1, <1>2, <1>3, PTL DEF Spec
=============================================================================
