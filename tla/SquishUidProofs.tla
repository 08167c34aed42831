-------------------------- MODULE SquishUidProofs --------------------------
(* Proofs about the search for a message by its id, for an index of any    *)
(* length.                                                                 *)
EXTENDS SquishUid, TLAPS

(* The middle of a range lies in it.                                       *)
LEMMA MiddleInRange ==
  ASSUME low \in Nat, high \in Nat, low <= high
  PROVE  Middle \in low .. high
BY DEF Middle

(* As long as new messages are opened one after the other, at most one     *)
(* handle is open, and while it is no abandoned message's record is left   *)
(* behind num_msg: CreateMsg has overwritten the one there may have been.  *)
OneOpen ==
  /\ \A u, v \in Opened : u = v
  /\ Opened # {} => \A i \in 1 .. Len(idx) : i > num => idx[i] = Blank

(* The invariant of the search, the types and the handles together are     *)
(* inductive: the bounds stay near the index because the index is sorted   *)
(* and unchanged.                                                          *)
Inv == TypeOK /\ SearchSound /\ OneOpen

(* The ids, the bounds and what is asked for are numbers.                  *)
LEMMA Numbers ==
  ASSUME Inv
  PROVE  /\ MaxUid \in Nat /\ Blank = MaxUid + 1
         /\ Len(idx) \in Nat /\ Len(idx) <= MaxUid
         /\ num \in Nat /\ num <= Len(idx)
         /\ \A i \in 1 .. Len(idx) : idx[i] \in Stored /\ idx[i] \in Int
         /\ low \in Nat /\ high \in Nat /\ try \in Nat /\ rc \in Nat
         /\ uid \in Int /\ seen \in Int /\ uidNext \in Int
         /\ type \in Types
<1>1. Len(idx) \in Nat /\ Len(idx) <= MaxUid /\ num <= Len(idx)
  BY UidAssumption DEF Inv, TypeOK, SearchSound, Sorted
<1>2. \A i \in 1 .. Len(idx) : idx[i] \in Stored
  BY DEF Inv, TypeOK
<1> QED
  BY <1>1, <1>2, UidAssumption DEF Inv, TypeOK, Blank, Stored, Ids

(* The part of the invariant an action leaves that changes no more than    *)
(* the index, num_msg and the open handles.                                *)
LEMMA BetweenTypes ==
  ASSUME Inv, Between
  PROVE  /\ at' = "idle"
         /\ uid' \in 0 .. MaxUid /\ type' \in Types
         /\ low' \in 1 .. MaxUid + 1 /\ high' \in 0 .. MaxUid
         /\ try' \in 1 .. MaxUid + 1 /\ seen' \in 0 .. Blank
         /\ rc' \in 0 .. MaxUid + 1
BY UidAssumption DEF Between, Types, Blank

(* The invariant holds of the empty index and is kept by every action.     *)
LEMMA InitInv == Init => Inv
<1> SUFFICES ASSUME Init PROVE Inv
  OBVIOUS
<1>1. TypeOK
  <2>1. idx \in Seq(Stored)
    <3>1. idx = <<>>
      BY DEF Init
    <3> QED
      BY <3>1
  <2>3. framed \subseteq Ids /\ locked \in BOOLEAN
    BY DEF Init
  <2>2. msgn \in [Ids -> 0 .. MaxUid]
    BY UidAssumption DEF Init, NoMsgn
  <2> QED
    BY <2>1, <2>2, <2>3, UidAssumption DEF Init, TypeOK, Types, Blank
<1>2. SearchSound /\ OneOpen
  BY DEF Init, SearchSound, Sorted, OneOpen, Opened
<1> QED
  BY <1>1, <1>2 DEF Inv

(* A new id is above all others, and only blank records are behind the     *)
(* one it gets.                                                            *)
LEMMA CreateKeeps == ASSUME Inv, ~Several, CreateMsg PROVE Inv'
<1> DEFINE n == num + 1
<1>1. /\ n \in 1 .. MaxUid /\ uidNext \in Ids
      /\ Len(idx) \in Nat /\ num \in Nat /\ num <= Len(idx)
  BY Numbers, UidAssumption
  DEF Inv, TypeOK, SearchSound, Sorted, CreateMsg, Ids
<1>2. /\ idx' \in Seq(Stored)
      /\ Len(idx') = IF n <= Len(idx) THEN Len(idx) ELSE n
      /\ idx'[n] = uidNext
      /\ \A i \in 1 .. Len(idx') : i # n => i \in 1 .. Len(idx) /\ idx'[i] = idx[i]
  <2>1. uidNext \in Stored
    BY <1>1 DEF Stored
  <2>2. CASE n <= Len(idx)
    <3>1. idx' = [idx EXCEPT ![n] = uidNext]
      BY <2>2 DEF CreateMsg
    <3> QED
      BY <1>1, <2>1, <2>2, <3>1 DEF Inv, TypeOK
  <2>3. CASE ~ (n <= Len(idx))
    <3>1. idx' = Append(idx, uidNext) /\ n = Len(idx) + 1
      BY <1>1, <2>3 DEF CreateMsg
    <3> QED
      BY <1>1, <2>1, <2>3, <3>1 DEF Inv, TypeOK
  <2> QED
    BY <2>2, <2>3
<1>3. /\ num' = n /\ uidNext' = uidNext + 1 /\ locked' = locked
      /\ framed' = framed /\ Opened = {}
      /\ msgn' = [msgn EXCEPT ![uidNext] = n]
  BY DEF CreateMsg
<1> HIDE DEF n
<1>4. TypeOK'
  BY <1>1, <1>2, <1>3, BetweenTypes, UidAssumption
  DEF Inv, TypeOK, CreateMsg, Ids
<1>5. Sorted'
  <2>1. Sorted /\ uidNext \in Int /\ n = num + 1
    BY Numbers DEF Inv, SearchSound, n
  <2>2. \A i \in 1 .. Len(idx') : i < n => idx'[i] < uidNext
    BY <1>1, <1>2, <2>1 DEF Sorted
  <2>3. \A i \in 1 .. Len(idx') : i > n => idx'[i] = Blank
    BY <1>1, <1>2, <2>1 DEF Sorted
  <2>4. ASSUME NEW i \in 1 .. Len(idx'), NEW j \in 1 .. Len(idx'), i < j
        PROVE  idx'[i] < idx'[j] \/ idx'[j] = Blank
    <3>1. CASE j < n
      BY <1>1, <1>2, <2>1, <2>4, <3>1 DEF Sorted
    <3>2. CASE j = n
      BY <1>1, <1>2, <2>2, <2>4, <3>2
    <3>3. CASE j > n
      BY <2>3, <3>3
    <3> QED
      BY <1>1, <3>1, <3>2, <3>3
  <2>5. ASSUME NEW i \in 1 .. Len(idx')
        PROVE  idx'[i] < uidNext + 1 \/ (i > n /\ idx'[i] = Blank)
    <3>1. CASE i < n
      <4>1. idx'[i] < uidNext /\ idx'[i] \in Int
        BY <1>2, <2>2, <3>1, UidAssumption DEF Blank, Stored, Ids
      <4> QED
        BY <4>1, <2>1
    <3>2. CASE i = n
      BY <1>2, <2>1, <3>2
    <3>3. CASE i > n
      BY <2>3, <3>3
    <3> QED
      BY <1>1, <3>1, <3>2, <3>3
  <2>6. /\ n <= Len(idx') /\ Len(idx') < uidNext + 1
        /\ ~locked => Len(idx') = n
    BY <1>1, <1>2, <2>1 DEF Sorted
  <2>7. \A i \in 1 .. Len(idx') : i > n + 1 => idx'[i] = Blank
    BY <1>1, <2>3
  <2> QED
    BY <1>3, <2>4, <2>5, <2>6, <2>7 DEF Sorted, Blank
<1>6. OneOpen'
  <2>1. Opened' \subseteq {uidNext}
    BY <1>3 DEF Opened, Inv, TypeOK
  <2>2. \A i \in 1 .. Len(idx') : i > n => idx'[i] = Blank
    BY <1>1, <1>2 DEF Inv, SearchSound, Sorted, n
  <2> QED
    BY <1>3, <2>1, <2>2 DEF OneOpen, Blank
<1> QED
  BY <1>4, <1>5, <1>6, BetweenTypes DEF Inv, SearchSound, CreateMsg

(* The record of a new message, written or not, keeps its place.           *)
LEMMA WriteKeeps ==
  ASSUME Inv, NEW u \in Ids, WriteMsg(u) PROVE Inv'
<1>1. /\ UNCHANGED <<idx, num, locked, uidNext>>
      /\ msgn' = [msgn EXCEPT ![u] = NoMsgn]
  BY DEF WriteMsg
<1>2. framed' \subseteq Ids
  <2>1. {idx[n] : n \in {msgn[u]} \cap DOMAIN idx} \ {Blank} \subseteq Ids
    <3> SUFFICES ASSUME NEW n \in DOMAIN idx, idx[n] # Blank PROVE idx[n] \in Ids
      OBVIOUS
    <3>1. idx[n] \in Stored
      BY DEF Inv, TypeOK
    <3> QED
      BY <3>1 DEF Stored
  <2> QED
    BY <2>1 DEF WriteMsg, Inv, TypeOK
<1>3. TypeOK'
  BY <1>1, <1>2, BetweenTypes, UidAssumption DEF WriteMsg, Inv, TypeOK, NoMsgn
<1>4. Opened' \subseteq Opened
  BY <1>1 DEF Opened, NoMsgn, Inv, TypeOK
<1> QED
  BY <1>1, <1>3, <1>4, BetweenTypes
  DEF Inv, SearchSound, Sorted, OneOpen, Blank, WriteMsg

(* What is left of an index when the buffer does not hold more.            *)
LEMMA VisiblePart ==
  ASSUME NEW r \in Seq(Stored), NEW n \in 0 .. Len(r), NEW l \in BOOLEAN
  PROVE  /\ Visible(r, n, l) \in Seq(Stored)
         /\ Len(Visible(r, n, l)) = IF l THEN Len(r) ELSE n
         /\ \A j \in 1 .. Len(Visible(r, n, l)) :
              j \in 1 .. Len(r) /\ Visible(r, n, l)[j] = r[j]
BY DEF Visible

(* Behind more than the number after one is behind that one.               *)
LEMMA Beyond ==
  \A a, b, c \in Int : a <= b + 1 /\ c > b + 1 => c > a
OBVIOUS

(* An abandoned message's record is the only one behind the others that    *)
(* is not blank, because the handle was the only one open.                 *)
LEMMA AbandonKeeps ==
  ASSUME Inv, NEW u \in Ids, AbandonMsg(u) PROVE Inv'
<1>1. /\ num' = IF msgn[u] = num THEN num - 1 ELSE num
      /\ idx' = Visible(idx, num', locked)
      /\ msgn' = [msgn EXCEPT ![u] = NoMsgn]
      /\ framed' = framed /\ locked' = locked /\ uidNext' = uidNext
      /\ u \in Opened
  BY DEF AbandonMsg
<1>2. /\ num' \in 0 .. num /\ num <= num' + 1
      /\ Len(idx) \in Nat /\ num \in Nat /\ num <= Len(idx)
  BY <1>1, Numbers DEF Inv, TypeOK, Opened, NoMsgn
<1>3. /\ idx' \in Seq(Stored)
      /\ Len(idx') = IF locked THEN Len(idx) ELSE num'
      /\ \A j \in 1 .. Len(idx') : j \in 1 .. Len(idx) /\ idx'[j] = idx[j]
  <2>1. idx \in Seq(Stored) /\ locked \in BOOLEAN /\ num' \in 0 .. Len(idx)
    BY <1>2 DEF Inv, TypeOK
  <2>2. idx' = Visible(idx, num', locked)
    BY <1>1
  <2> QED
    BY <2>1, <2>2, VisiblePart
<1>4. TypeOK'
  <2>1. /\ idx' \in Seq(Stored) /\ num' \in 0 .. MaxUid
        /\ framed' \subseteq Ids /\ locked' \in BOOLEAN
        /\ uidNext' \in 1 .. MaxUid + 1
    BY <1>1, <1>2, <1>3, UidAssumption DEF Inv, TypeOK
  <2>2. msgn' \in [Ids -> 0 .. MaxUid]
    BY <1>1, UidAssumption DEF Inv, TypeOK, NoMsgn
  <2>3. Between
    BY DEF AbandonMsg
  <2> QED
    BY <2>1, <2>2, <2>3, BetweenTypes DEF TypeOK
<1>5. Sorted'
  <2>1. Sorted /\ \A i \in 1 .. Len(idx) : i > num => idx[i] = Blank
    BY <1>1 DEF Inv, SearchSound, OneOpen
  <2>2. ASSUME NEW i \in 1 .. Len(idx'), i > num' + 1 PROVE idx'[i] = Blank
    <3>1. i \in 1 .. Len(idx) /\ idx'[i] = idx[i]
      BY <1>3
    <3>2. i \in Int /\ num \in Int /\ num' \in Int
      BY <1>2, <3>1
    <3>3. num <= num' + 1 /\ i > num' + 1
      BY <1>2, <2>2
    <3>4. i > num
      BY ONLY <3>2, <3>3, Beyond
    <3> QED
      BY <2>1, <3>1, <3>4
  <2>3. /\ num' <= Len(idx') /\ Len(idx') < uidNext
        /\ ~locked => Len(idx') = num'
    BY <1>2, <1>3, <2>1, Numbers DEF Sorted
  <2>4. \A i, j \in 1 .. Len(idx') : i < j => idx'[i] < idx'[j] \/ idx'[j] = Blank
    BY <1>3, <2>1 DEF Sorted
  <2>5. \A i \in 1 .. Len(idx') :
          idx'[i] < uidNext \/ (i > num' /\ idx'[i] = Blank)
    BY <1>2, <1>3, <2>1 DEF Sorted
  <2> QED
    BY <1>1, <2>2, <2>3, <2>4, <2>5 DEF Sorted, Blank
<1>6. OneOpen'
  <2>1. Opened' = {}
    BY <1>1 DEF Opened, Inv, TypeOK, OneOpen, NoMsgn
  <2> QED
    BY <2>1 DEF OneOpen
<1> QED
  BY <1>4, <1>5, <1>6, BetweenTypes DEF Inv, SearchSound, AbandonMsg

(* Taking a record out keeps the order of the others, with a blank one     *)
(* behind them.                                                            *)
LEMMA KillKeeps ==
  ASSUME Inv, NEW i \in 1 .. num, KillMsg(i) PROVE Inv'
<1>1. /\ num' = num - 1 /\ idx' = Visible(Removed(i), num', locked)
      /\ msgn' = msgn /\ framed' = framed /\ locked' = locked
      /\ uidNext' = uidNext
  BY DEF KillMsg
<1>2. /\ Len(idx) \in Nat /\ num \in Nat \ {0} /\ num <= Len(idx)
      /\ MaxUid \in Nat /\ Blank = MaxUid + 1
      /\ \A j \in 1 .. Len(idx) : idx[j] \in Stored
  BY Numbers
<1>3. Removed(i) \in Seq(Stored) /\ Len(Removed(i)) = Len(idx)
  BY <1>2 DEF Removed, Stored
<1>4. /\ idx' \in Seq(Stored)
      /\ Len(idx') = IF locked THEN Len(idx) ELSE num'
      /\ \A j \in 1 .. Len(idx') : j \in 1 .. Len(idx) /\ idx'[j] = Removed(i)[j]
  <2>1. locked \in BOOLEAN /\ num' \in 0 .. Len(Removed(i))
    BY <1>1, <1>2, <1>3 DEF Inv, TypeOK
  <2> QED
    BY <1>1, <1>3, <2>1, VisiblePart
<1>5. \A j \in 1 .. Len(idx') :
        idx'[j] = IF j < i THEN idx[j]
                  ELSE IF j < Len(idx) THEN idx[j + 1] ELSE Blank
  BY <1>4 DEF Removed
<1>6. TypeOK'
  BY <1>1, <1>2, <1>4, BetweenTypes, UidAssumption DEF KillMsg, Inv, TypeOK
<1>7. Sorted'
  <2>1. Sorted
    BY DEF Inv, SearchSound
  <2>2. ASSUME NEW j \in 1 .. Len(idx'), j > num PROVE idx'[j] = Blank
    <3>1. CASE j < Len(idx)
      <4>1. idx'[j] = idx[j + 1] /\ j + 1 \in 1 .. Len(idx) /\ j + 1 > num + 1
        BY <1>2, <1>4, <1>5, <2>2, <3>1
      <4> QED
        BY <4>1, <2>1 DEF Sorted
    <3>2. CASE ~ (j < Len(idx))
      BY <1>2, <1>4, <1>5, <2>2, <3>2
    <3> QED
      BY <3>1, <3>2
  <2>3. /\ num' <= Len(idx') /\ Len(idx') < uidNext
        /\ ~locked => Len(idx') = num'
    <3>1. CASE locked
      <4>1. Len(idx') = Len(idx) /\ Len(idx) < uidNext
        BY <1>4, <2>1, <3>1 DEF Sorted
      <4>2. num' <= Len(idx')
        BY ONLY <1>1, <1>2, <4>1
      <4> QED
        BY <3>1, <4>1, <4>2
    <3>2. CASE ~locked
      BY <1>1, <1>2, <1>4, <2>1, <3>2, Numbers DEF Sorted
    <3> QED
      BY <3>1, <3>2
  <2>4. ASSUME NEW j \in 1 .. Len(idx'), NEW k \in 1 .. Len(idx'), j < k
        PROVE  idx'[j] < idx'[k] \/ idx'[k] = Blank
    <3>1. CASE k < i
      BY <1>4, <1>5, <2>1, <2>4, <3>1 DEF Sorted
    <3>2. CASE k >= i /\ k < Len(idx)
      <4>1. idx'[k] = idx[k + 1] /\ k + 1 \in 1 .. Len(idx)
        BY <1>2, <1>4, <1>5, <3>2
      <4>2. PICK m \in 1 .. k : idx'[j] = idx[m] /\ m \in 1 .. Len(idx)
        BY <1>2, <1>4, <1>5, <2>4, <3>2
      <4> QED
        BY <4>1, <4>2, <2>1, <1>2 DEF Sorted
    <3>3. CASE k >= i /\ ~ (k < Len(idx))
      BY <1>5, <3>3
    <3> QED
      BY <1>2, <3>1, <3>2, <3>3
  <2>5. ASSUME NEW j \in 1 .. Len(idx')
        PROVE  idx'[j] < uidNext \/ (j > num' /\ idx'[j] = Blank)
    <3>1. CASE j < i
      BY <1>2, <1>4, <1>5, <2>1, <3>1 DEF Sorted
    <3>2. CASE j >= i /\ j < num
      <4>1. idx'[j] = idx[j + 1] /\ j + 1 \in 1 .. Len(idx) /\ j + 1 <= num
        BY <1>2, <1>5, <3>2
      <4> QED
        BY <4>1, <2>1, <1>2 DEF Sorted
    <3>3. CASE j >= num /\ j < Len(idx)
      <4>1. idx'[j] = idx[j + 1] /\ j + 1 \in 1 .. Len(idx) /\ j > num'
        BY <1>1, <1>2, <1>5, <3>3
      <4> QED
        BY <4>1, <2>1, <1>2 DEF Sorted
    <3>4. CASE j >= i /\ ~ (j < Len(idx))
      BY <1>1, <1>2, <1>4, <1>5, <3>4
    <3> QED
      BY <1>2, <3>1, <3>2, <3>3, <3>4
  <2>6. \A j \in 1 .. Len(idx') : j > num' + 1 => idx'[j] = Blank
    BY <1>1, <1>2, <2>2
  <2> QED
    BY <1>1, <2>3, <2>4, <2>5, <2>6 DEF Sorted, Blank
<1>8. OneOpen'
  <2>1. Opened' = Opened
    BY <1>1 DEF Opened
  <2>2. ASSUME Opened # {}, NEW j \in 1 .. Len(idx'), j > num'
        PROVE  idx'[j] = Blank
    <3>1. CASE j < Len(idx)
      <4>1. idx'[j] = idx[j + 1] /\ j + 1 \in 1 .. Len(idx) /\ j + 1 > num
        BY <1>1, <1>2, <1>4, <1>5, <2>2, <3>1
      <4> QED
        BY <4>1, <2>2 DEF Inv, OneOpen
    <3>2. CASE ~ (j < Len(idx))
      BY <1>1, <1>2, <1>4, <1>5, <2>2, <3>2
    <3> QED
      BY <3>1, <3>2
  <2> QED
    BY <2>1, <2>2 DEF Inv, OneOpen, Blank
<1> QED
  BY <1>6, <1>7, <1>8, BetweenTypes DEF Inv, SearchSound, KillMsg

(* MsgLock changes nothing the search sees; Unlock cuts what was behind    *)
(* the messages.                                                           *)
LEMMA LockKeeps == ASSUME Inv, LockArea PROVE Inv'
<1>1. TypeOK'
  BY BetweenTypes DEF LockArea, Inv, TypeOK
<1> QED
  BY <1>1, BetweenTypes
  DEF LockArea, Inv, SearchSound, Sorted, OneOpen, Opened, Blank

LEMMA UnlockKeeps == ASSUME Inv, UnlockArea PROVE Inv'
<1>1. /\ Len(idx) \in Nat /\ num \in Nat /\ num <= Len(idx)
      /\ idx \in Seq(Stored) /\ idx' = SubSeq(idx, 1, num)
      /\ UNCHANGED <<num, framed, msgn, uidNext>> /\ locked' = FALSE
  BY Numbers DEF Inv, TypeOK, UnlockArea
<1>2. /\ idx' \in Seq(Stored) /\ Len(idx') = num
      /\ \A j \in 1 .. Len(idx') : j \in 1 .. Len(idx) /\ idx'[j] = idx[j]
  BY <1>1
<1>3. TypeOK'
  BY <1>1, <1>2, BetweenTypes DEF UnlockArea, Inv, TypeOK
<1>4. Sorted'
  BY <1>1, <1>2, Numbers DEF Inv, SearchSound, Sorted, Blank
<1>5. OneOpen'
  BY <1>1, <1>2 DEF Inv, OneOpen, Opened, Blank
<1> QED
  BY <1>3, <1>4, <1>5, BetweenTypes DEF Inv, SearchSound, UnlockArea

(* A search begins with the whole index and nothing looked at.             *)
LEMMA AskKeeps ==
  ASSUME Inv, NEW u \in Ids, NEW t \in Types, Ask(u, t) PROVE Inv'
<1>1. /\ Len(idx) \in Nat /\ Len(idx) <= MaxUid /\ MaxUid \in Nat
      /\ Blank = MaxUid + 1
  BY Numbers
<1>2. /\ UNCHANGED area
      /\ uid' = u /\ type' = t /\ low' = 1 /\ high' = Len(idx)
      /\ try' = 1 /\ seen' = 0 /\ rc' = 0 /\ at' = "search"
  BY DEF Ask
<1>3. TypeOK'
  BY <1>1, <1>2 DEF Inv, TypeOK, Ids, area
<1>4. Sorted' /\ OneOpen'
  BY <1>2 DEF Inv, SearchSound, Sorted, OneOpen, Opened, Blank, area
<1>5. RangeHolds'
  BY <1>1, <1>2 DEF RangeHolds, area
<1> QED
  BY <1>3, <1>4, <1>5 DEF Inv, SearchSound

(* Id 0 is answered without a search.                                      *)
LEMMA AskZeroKeeps ==
  ASSUME Inv, NEW t \in Types, AskZero(t) PROVE Inv'
<1>1. TypeOK'
  BY UidAssumption DEF Inv, AskZero, TypeOK, area
<1> QED
  BY <1>1 DEF Inv, AskZero, SearchSound, Sorted, OneOpen, Opened, Blank, area

(* A probe halves the range without leaving out a possible answer: records *)
(* up to the middle are smaller, or those from the middle on greater, as   *)
(* the index is sorted.                                                    *)
LEMMA ProbeKeeps == ASSUME Inv, Probe PROVE Inv'
<1> USE DEF Inv
<1>1. RangeHolds /\ Sorted /\ low <= high /\ rc = 0
  BY DEF SearchSound, Probe, Searching
<1>2. /\ Len(idx) \in Nat /\ Len(idx) <= MaxUid
      /\ low \in Nat /\ high \in Nat /\ uid \in Ids /\ MaxUid \in Nat
      /\ Blank = MaxUid + 1
      /\ \A i \in 1 .. Len(idx) : idx[i] \in Stored
  BY <1>1, Numbers DEF RangeHolds
<1> DEFINE t == Middle
<1>3. t \in low .. high
  BY <1>1, <1>2, MiddleInRange
<1>4. t \in 1 .. Len(idx) /\ idx[t] \in Stored /\ idx[t] \in Int
  <2>1. t \in 1 .. Len(idx)
    BY <1>1, <1>2, <1>3 DEF RangeHolds
  <2> QED
    BY <1>2, <2>1, Numbers
<1>5. /\ UNCHANGED area /\ idx' = idx /\ uid' = uid /\ at' = at
      /\ type' = type
      /\ try' = t /\ seen' = idx[t]
      /\ rc' = (IF idx[t] = uid THEN t ELSE 0)
      /\ low' = (IF uid > idx[t] THEN t + 1 ELSE low)
      /\ high' = (IF uid < idx[t] THEN t - 1 ELSE high)
  BY DEF Probe, Look, area
<1> HIDE DEF t
<1>9. \A i \in 1 .. Len(idx) : idx[i] \in Int
  BY Numbers
<1>6. TypeOK'
  <2>1. low \in 1 .. Len(idx) + 1 /\ high \in 0 .. Len(idx) /\ MaxUid \in Nat
    BY <1>1, UidAssumption DEF RangeHolds
  <2>2. low' \in 1 .. MaxUid + 1 /\ high' \in 0 .. MaxUid
    BY ONLY <1>2, <1>3, <1>5, <2>1
  <2>3. try' \in 1 .. MaxUid + 1 /\ rc' \in 0 .. MaxUid + 1
    BY ONLY <1>2, <1>4, <1>5, <2>1
  <2>4. seen' \in 0 .. Blank
    BY <1>2, <1>4, <1>5 DEF Stored, Ids
  <2> QED
    BY <1>5, <2>2, <2>3, <2>4 DEF TypeOK, area
<1>7. Sorted' /\ OneOpen'
  BY <1>1, <1>5 DEF Sorted, OneOpen, Opened, Blank, area
<1>8. RangeHolds'
  <2>1. \A i \in 1 .. low' - 1 : idx[i] < uid
    <3>1. CASE uid > idx[t]
      <4> SUFFICES ASSUME NEW i \in 1 .. t PROVE idx[i] < uid
        BY <1>5, <1>2, <1>3, <3>1
      <4>1. i = t \/ idx[i] < idx[t] \/ idx[t] = Blank
        BY <1>1, <1>2, <1>4 DEF Sorted
      <4> QED
        BY <4>1, <3>1, <1>2, <1>4, <1>9 DEF Ids
    <3>2. CASE ~ (uid > idx[t])
      BY <3>2, <1>1, <1>5 DEF RangeHolds
    <3> QED
      BY <3>1, <3>2
  <2>2. \A i \in high' + 1 .. Len(idx) : uid < idx[i]
    <3>1. CASE uid < idx[t]
      <4> SUFFICES ASSUME NEW i \in t .. Len(idx) PROVE uid < idx[i]
        BY <1>5, <1>2, <1>3, <3>1
      <4>1. i = t \/ idx[t] < idx[i] \/ idx[i] = Blank
        BY <1>1, <1>2, <1>4 DEF Sorted
      <4> QED
        BY <4>1, <3>1, <1>2, <1>4, <1>9 DEF Ids
    <3>2. CASE ~ (uid < idx[t])
      BY <3>2, <1>1, <1>5 DEF RangeHolds
    <3> QED
      BY <3>1, <3>2
  <2>3. low' \in 1 .. Len(idx) + 1 /\ high' \in 0 .. Len(idx) /\ low' <= high' + 1
    BY <1>1, <1>2, <1>3, <1>4, <1>5 DEF RangeHolds, Ids
  <2>4. \/ rc' = try'
        \/ rc' = 0 /\ seen' < uid /\ low' = try' + 1
        \/ rc' = 0 /\ seen' > uid /\ high' = try' - 1
    BY <1>2, <1>4, <1>5 DEF Ids
  <2>5. rc' # 0 => rc' \in 1 .. Len(idx) /\ idx[rc'] = uid
    BY <1>4, <1>5
  <2> QED
    BY <2>1, <2>2, <2>3, <2>4, <2>5, <1>1, <1>4, <1>5 DEF RangeHolds
<1> QED
  BY <1>5, <1>6, <1>7, <1>8 DEF SearchSound

(* What the end of the search leaves: either the id was found, or no       *)
(* record has it and the record looked at last is next to its place.       *)
LEMMA EndOfSearch ==
  ASSUME Inv, at = "search", ~Searching, Len(idx) > 0
  PROVE  \/ rc \in 1 .. Len(idx) /\ idx[rc] = uid
         \/ /\ rc = 0 /\ try \in 1 .. Len(idx) /\ seen = idx[try]
            /\ \A i \in 1 .. Len(idx) : idx[i] # uid
            /\ \/ /\ seen < uid
                  /\ \A i \in 1 .. try : idx[i] < uid
                  /\ \A i \in try + 1 .. Len(idx) : uid < idx[i]
               \/ /\ seen > uid
                  /\ \A i \in 1 .. try - 1 : idx[i] < uid
                  /\ \A i \in try .. Len(idx) : uid < idx[i]
<1> USE DEF Inv
<1>1. RangeHolds
  BY DEF SearchSound
<1>2. /\ Len(idx) \in Nat /\ \A i \in 1 .. Len(idx) : idx[i] \in Int
      /\ low \in Int /\ high \in Int /\ uid \in Int
  BY Numbers
<1>3. CASE rc # 0
  BY <1>1, <1>3 DEF RangeHolds
<1>4. CASE rc = 0
  <2>1. low = high + 1
    BY <1>1, <1>2, <1>4 DEF RangeHolds, Searching
  <2>2. \A i \in 1 .. Len(idx) : idx[i] # uid
    BY <1>1, <1>2, <2>1 DEF RangeHolds
  <2>3. /\ try \in 1 .. Len(idx) /\ seen = idx[try]
        /\ \/ seen < uid /\ low = try + 1
           \/ seen > uid /\ high = try - 1
    BY <1>1, <1>2, <1>4, <2>1 DEF RangeHolds
  <2>4. CASE seen < uid /\ low = try + 1
    BY <1>1, <1>2, <1>4, <2>1, <2>2, <2>3, <2>4 DEF RangeHolds
  <2>5. CASE seen > uid /\ high = try - 1
    BY <1>1, <1>2, <1>4, <2>1, <2>2, <2>3, <2>5 DEF RangeHolds
  <2> QED
    BY <2>3, <2>4, <2>5
<1> QED
  BY <1>3, <1>4

(* What Answer makes of it.                                                *)
LEMMA AnswerGiven ==
  ASSUME Inv, Answer
  PROVE  /\ rc # 0 => rc' = rc
         /\ rc = 0 =>
              /\ type = "exact" => rc' = 0
              /\ type = "prev" => rc' = Preceding
              /\ type = "next" => rc' = Following
BY DEF Answer

(* The answer is 0, a record or the number next to one.                    *)
LEMMA AnswerKeeps == ASSUME Inv, Answer PROVE Inv'
<1>1. rc' \in 0 .. MaxUid + 1
  <2>1. at = "search" /\ ~Searching
    BY DEF Answer
  <2>2. CASE Len(idx) = 0
    <3>1. try = 1 /\ rc = 0 /\ uid \in 1 .. MaxUid
      BY <2>1, <2>2 DEF Inv, SearchSound, RangeHolds, Ids
    <3> QED
      BY <3>1, AnswerGiven, Numbers, UidAssumption
      DEF Types, Preceding, Following
  <2>3. CASE Len(idx) > 0
    <3>1. \/ rc \in 1 .. Len(idx)
          \/ rc = 0 /\ try \in 1 .. Len(idx)
      BY <2>1, <2>3, EndOfSearch
    <3>2. CASE rc \in 1 .. Len(idx)
      BY <3>2, AnswerGiven, Numbers, UidAssumption
    <3>3. CASE rc = 0 /\ try \in 1 .. Len(idx)
      BY <3>3, AnswerGiven, Numbers, UidAssumption
      DEF Types, Preceding, Following
    <3> QED
      BY <3>1, <3>2, <3>3
  <2> QED
    BY <2>2, <2>3, Numbers
<1>2. UNCHANGED <<area, uid, type, low, high, try, seen>>
      /\ at' = "answered"
  BY DEF Answer
<1>3. TypeOK'
  BY <1>1, <1>2 DEF Inv, TypeOK, area
<1>4. Sorted' /\ OneOpen'
  BY <1>2 DEF Inv, SearchSound, Sorted, OneOpen, Opened, Blank, area
<1> QED
  BY <1>2, <1>3, <1>4 DEF Inv, SearchSound

(* The answer is right when it is given.                                   *)
LEMMA AnswerIsCorrect == ASSUME Inv, Answer PROVE AnswerCorrect'
<1>1. at = "search" /\ ~Searching
  BY DEF Answer
<1>2. idx' = idx /\ num' = num /\ uid' = uid /\ type' = type
  BY DEF Answer, area
<1> DEFINE l == Len(idx)
<1>3. /\ l \in Nat /\ num \in Nat /\ num <= l /\ uid \in Int
      /\ \A i \in 1 .. l : idx[i] \in Int
      /\ uid \in Ids /\ MaxUid \in Nat /\ Blank = MaxUid + 1
  BY <1>1, Numbers DEF Inv, SearchSound, RangeHolds
<1>4. \A i, j \in 1 .. l : i < j => idx[i] < idx[j] \/ idx[j] = Blank
  BY DEF Inv, SearchSound, Sorted
<1>5. CASE l = 0
  <2>1. rc = 0
    BY <1>1, <1>5 DEF Inv, SearchSound, RangeHolds
  <2>2. type = "exact" => rc' = 0
    BY <2>1, AnswerGiven
  <2> QED
    BY <1>2, <1>3, <1>5, <2>2 DEF AnswerCorrect
<1>6. CASE rc \in 1 .. l /\ idx[rc] = uid
  <2>1. rc' = rc
    BY <1>6, AnswerGiven, Numbers
  <2>2. \A n \in 1 .. l : idx[n] = uid => n = rc
    BY <1>3, <1>4, <1>6 DEF Ids
  <2>3. rc < l => uid < idx[rc + 1]
    BY <1>3, <1>4, <1>6 DEF Ids
  <2>4. \A n \in 1 .. l : uid <= idx[n] /\ (n > 1 => idx[n - 1] < uid) => n = rc
    <3> SUFFICES ASSUME NEW n \in 1 .. l, uid <= idx[n], n # rc
                 PROVE  n > 1 /\ ~ (idx[n - 1] < uid)
      OBVIOUS
    <3>1. ~ (n < rc)
      BY <1>3, <1>4, <1>6 DEF Ids
    <3>2. n > rc /\ n - 1 \in 1 .. l
      BY <1>3, <1>6, <3>1
    <3>3. n - 1 = rc \/ idx[rc] < idx[n - 1] \/ idx[n - 1] = Blank
      BY <1>4, <1>6, <3>2
    <3> QED
      BY <1>3, <1>6, <3>2, <3>3 DEF Ids
  <2> QED
    BY <1>2, <1>3, <1>6, <2>1, <2>2, <2>3, <2>4 DEF AnswerCorrect
<1>7. CASE /\ rc = 0 /\ try \in 1 .. l /\ seen = idx[try]
           /\ \A i \in 1 .. l : idx[i] # uid
           /\ seen < uid
           /\ \A i \in 1 .. try : idx[i] < uid
           /\ \A i \in try + 1 .. l : uid < idx[i]
  <2>1. /\ type = "exact" => rc' = 0
        /\ type = "prev" => rc' = try
        /\ type = "next" => rc' = IF try = l THEN l ELSE try + 1
    BY <1>3, <1>7, AnswerGiven DEF Preceding, Following
  <2>2. \A n \in 1 .. l :
          uid <= idx[n] /\ (n > 1 => idx[n - 1] < uid) => n = try + 1
    <3> SUFFICES ASSUME NEW n \in 1 .. l, uid <= idx[n], n # try + 1
                 PROVE  n > 1 /\ ~ (idx[n - 1] < uid)
      OBVIOUS
    <3>1. n > try + 1
      BY <1>3, <1>7
    <3>2. n - 1 \in try + 1 .. l
      BY <1>3, <1>7, <3>1
    <3> QED
      BY <1>3, <1>7, <3>1, <3>2
  <2>3. type \in Types
    BY Numbers
  <2> QED
    BY <1>2, <1>3, <1>7, <2>1, <2>2, <2>3 DEF AnswerCorrect, Types
<1>8. CASE /\ rc = 0 /\ try \in 1 .. l /\ seen = idx[try]
           /\ \A i \in 1 .. l : idx[i] # uid
           /\ seen > uid
           /\ \A i \in 1 .. try - 1 : idx[i] < uid
           /\ \A i \in try .. l : uid < idx[i]
  <2>1. /\ type = "exact" => rc' = 0
        /\ type = "prev" => rc' = IF try = 1 THEN 0 ELSE try - 1
        /\ type = "next" => rc' = try
    BY <1>3, <1>8, AnswerGiven DEF Preceding, Following
  <2>2. \A n \in 1 .. l :
          uid <= idx[n] /\ (n > 1 => idx[n - 1] < uid) => n = try
    <3> SUFFICES ASSUME NEW n \in 1 .. l, uid <= idx[n], n # try
                 PROVE  n > 1 /\ ~ (idx[n - 1] < uid)
      OBVIOUS
    <3>1. n > try
      BY <1>3, <1>8
    <3>2. n - 1 \in try .. l
      BY <1>3, <1>8, <3>1
    <3> QED
      BY <1>3, <1>8, <3>1, <3>2
  <2>3. type \in Types
    BY Numbers
  <2> QED
    BY <1>2, <1>3, <1>8, <2>1, <2>2, <2>3 DEF AnswerCorrect, Types
<1> QED
  BY <1>1, <1>3, <1>5, <1>6, <1>7, <1>8, EndOfSearch

(* Every step keeps the invariant and the answer given last.               *)
LEMMA StepKeeps ==
  ASSUME ~Several, Inv, AnswerCorrect, [Next]_vars
  PROVE  Inv' /\ AnswerCorrect'
<1>1. CASE UNCHANGED vars
  BY <1>1
  DEF vars, area, Inv, TypeOK, SearchSound, Sorted, RangeHolds, OneOpen, Opened,
      Blank, Stored, AnswerCorrect
<1>2. ASSUME Between PROVE AnswerCorrect'
  BY <1>2 DEF Between, AnswerCorrect
<1>3. CASE CreateMsg
  BY <1>2, <1>3, CreateKeeps DEF CreateMsg
<1>4. CASE LockArea
  BY <1>2, <1>4, LockKeeps DEF LockArea
<1>5. CASE UnlockArea
  BY <1>2, <1>5, UnlockKeeps DEF UnlockArea
<1>6. ASSUME NEW u \in Ids, WriteMsg(u) PROVE Inv' /\ AnswerCorrect'
  BY <1>2, <1>6, WriteKeeps DEF WriteMsg
<1>7. ASSUME NEW u \in Ids, AbandonMsg(u) PROVE Inv' /\ AnswerCorrect'
  BY <1>2, <1>7, AbandonKeeps DEF AbandonMsg
<1>8. ASSUME NEW i \in 1 .. num, KillMsg(i) PROVE Inv' /\ AnswerCorrect'
  BY <1>2, <1>8, KillKeeps DEF KillMsg
<1>9. ASSUME NEW t \in Types, AskZero(t) PROVE Inv' /\ AnswerCorrect'
  BY <1>9, AskZeroKeeps DEF AskZero, AnswerCorrect
<1>10. ASSUME NEW t \in Types, NEW u \in Ids, Ask(u, t)
       PROVE  Inv' /\ AnswerCorrect'
  BY <1>10, AskKeeps DEF Ask, AnswerCorrect
<1>11. CASE Probe
  BY <1>11, ProbeKeeps DEF Probe, Searching, AnswerCorrect
<1>12. CASE Answer
  BY <1>12, AnswerKeeps, AnswerIsCorrect
<1> QED
  BY <1>1, <1>3, <1>4, <1>5, <1>6, <1>7, <1>8, <1>9, <1>10, <1>11, <1>12 DEF Next

(* So they hold in every reachable state.                                  *)
LEMMA Always == ASSUME ~Several PROVE Spec => [](Inv /\ AnswerCorrect)
<1>1. Init => Inv /\ AnswerCorrect
  BY InitInv DEF Init, AnswerCorrect
<1>2. (Inv /\ AnswerCorrect) /\ [Next]_vars => (Inv /\ AnswerCorrect)'
  BY StepKeeps
<1> QED
  BY <1>1, <1>2, PTL DEF Spec

(* The bounds of the search stay next to the index, whose records keep to  *)
(* their type.                                                             *)
THEOREM UidTypeCorrect == ASSUME ~Several PROVE Spec => []TypeOK
<1>1. Inv => TypeOK
  BY DEF Inv
<1>2. Spec => [](Inv /\ AnswerCorrect)
  BY Always
<1> QED
  BY <1>1, <1>2, PTL

(* The index stays in order behind the messages too, and the search never  *)
(* leaves out a record that could be the answer.                           *)
THEOREM SearchIsSound == ASSUME ~Several PROVE Spec => []SearchSound
<1>1. Inv => SearchSound
  BY DEF Inv
<1>2. Spec => [](Inv /\ AnswerCorrect)
  BY Always
<1> QED
  BY <1>1, <1>2, PTL

(* UidToMsgn answers with the message that has the id, or the one before   *)
(* or after its place, whatever kills, abandoned messages and MsgLock have *)
(* left in the index behind the messages.                                  *)
THEOREM AnswersAreCorrect == ASSUME ~Several PROVE Spec => []AnswerCorrect
<1>1. Spec => [](Inv /\ AnswerCorrect)
  BY Always
<1> QED
  BY <1>1, PTL
=============================================================================
