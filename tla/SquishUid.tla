----------------------------- MODULE SquishUid -----------------------------
(* The search for a message by its id in a Squish area (src/src/sq_uid.c): *)
(* one process, which opens, writes, abandons and kills messages between   *)
(* searches.  The search reads the index as SidxGet shows it: the messages *)
(* and, while MsgLock keeps the index in memory, the records that stay     *)
(* behind num_msg there.  The lock of the search keeps all as it is while  *)
(* it runs.                                                                *)
EXTENDS Integers, Sequences

CONSTANTS
  MaxUid,   \* bound: message ids assigned
  Several   \* may new messages be open side by side?

ASSUME UidAssumption == MaxUid \in Nat /\ Several \in BOOLEAN

VARIABLES
  idx,      \* the ids of the records SidxGet sees, message 1 first
  num,      \* num_msg
  framed,   \* the ids whose record names a frame
  msgn,     \* dwMsg of the handle of each new message until it is written
  locked,   \* MsgLock is in force
  uidNext,  \* the next id to assign
  at,       \* "idle", "search" or "answered"
  uid,      \* what is asked for ...
  type,     \* ... and how
  low,      \* stLow: bounds of the search, inclusive
  high,     \* stHigh
  try,      \* stTry: the record looked at last
  seen,     \* sqi.umsgid: its id
  rc        \* the answer

area == <<idx, num, framed, msgn, locked, uidNext>>
vars == <<area, at, uid, type, low, high, try, seen, rc>>

Ids   == 1 .. MaxUid
Types == {"exact", "prev", "next"}

(* The id of a record left blank, (UMSGID)-1: above every message's.       *)
Blank == MaxUid + 1
Stored == Ids \cup {Blank}

(* No new message is open with the id.                                     *)
NoMsgn == 0

Init ==
  /\ idx = <<>> /\ num = 0 /\ framed = {} /\ locked = FALSE /\ uidNext = 1
  /\ msgn = [u \in Ids |-> NoMsgn]
  /\ at = "idle" /\ uid = 0 /\ type = "exact"
  /\ low = 1 /\ high = 0 /\ try = 1 /\ seen = 0 /\ rc = 0

Opened == {u \in Ids : msgn[u] # NoMsgn}

---------------------------------------------------------------------------
(***************************************************************************)
(* The area between two searches.  Messages dropped for the limit go as by *)
(* KillMsg, before CreateMsg.                                              *)
(***************************************************************************)
(* The search is over, and its variables gone.                             *)
Between ==
  /\ at # "search" /\ at' = "idle"
  /\ uid' = 0 /\ type' = "exact"
  /\ low' = 1 /\ high' = 0 /\ try' = 1 /\ seen' = 0 /\ rc' = 0

(* A new message takes the number behind the last: record num + 1 is       *)
(* overwritten when there is one, and appended otherwise.                  *)
CreateMsg ==
  /\ Between
  /\ uidNext <= MaxUid
  /\ Several \/ Opened = {}
  /\ num' = num + 1
  /\ idx' = IF num + 1 <= Len(idx) THEN [idx EXCEPT ![num + 1] = uidNext]
            ELSE Append(idx, uidNext)
  /\ msgn' = [msgn EXCEPT ![uidNext] = num + 1]
  /\ uidNext' = uidNext + 1
  /\ UNCHANGED <<framed, locked>>

(* The first write names a frame in the record at the number the message   *)
(* was given; the handle is not followed further.                          *)
WriteMsg(u) ==
  /\ Between
  /\ u \in Opened
  /\ framed' = framed \cup ({idx[n] : n \in {msgn[u]} \cap DOMAIN idx} \ {Blank})
  /\ msgn' = [msgn EXCEPT ![u] = NoMsgn]
  /\ UNCHANGED <<idx, num, locked, uidNext>>

(* The records there are without a buffer that holds more: as many as      *)
(* messages.                                                               *)
Visible(r, n, l) == IF l THEN r ELSE SubSeq(r, 1, n)

(* Closing a new message unwritten takes back its number when that is      *)
(* still the last; the record keeps its id.                                *)
AbandonMsg(u) ==
  /\ Between
  /\ u \in Opened
  /\ num' = IF msgn[u] = num THEN num - 1 ELSE num
  /\ idx' = Visible(idx, num', locked)
  /\ msgn' = [msgn EXCEPT ![u] = NoMsgn]
  /\ UNCHANGED <<framed, locked, uidNext>>

(* The index without record i, and a blank one at the end.                 *)
Removed(i) ==
  [j \in 1 .. Len(idx) |->
     IF j < i THEN idx[j] ELSE IF j < Len(idx) THEN idx[j + 1] ELSE Blank]

KillLeavesZero(i) ==
  /\ Between
  /\ idx[i] \in framed
  /\ num' = num - 1
  /\ idx' = Visible([Removed(i) EXCEPT ![Len(idx)] = 0], num', locked)
  /\ UNCHANGED <<framed, msgn, locked, uidNext>>

KillMsg(i) ==
  /\ Between
  /\ idx[i] \in framed
  /\ num' = num - 1
  /\ idx' = Visible(Removed(i), num', locked)
  /\ UNCHANGED <<framed, msgn, locked, uidNext>>

LockArea ==
  /\ Between
  /\ ~locked /\ locked' = TRUE
  /\ UNCHANGED <<idx, num, framed, msgn, uidNext>>

(* What was behind num_msg in the buffer is not read again.                *)
UnlockArea ==
  /\ Between
  /\ locked /\ locked' = FALSE
  /\ idx' = SubSeq(idx, 1, num)
  /\ UNCHANGED <<num, framed, msgn, uidNext>>

---------------------------------------------------------------------------
(***************************************************************************)
(* apiSquishUidToMsgn.                                                     *)
(***************************************************************************)
(* The bounds are those of the buffer, whatever num_msg says.              *)
Ask(u, t) ==
  /\ at # "search"
  /\ at' = "search"
  /\ uid' = u /\ type' = t
  /\ low' = 1 /\ high' = Len(idx)
  /\ try' = 1 /\ seen' = 0 /\ rc' = 0
  /\ UNCHANGED area

(* Id 0 is no message's.                                                   *)
AskZero(t) ==
  /\ at # "search"
  /\ at' = "answered" /\ uid' = 0 /\ type' = t /\ rc' = 0
  /\ UNCHANGED <<area, low, high, try, seen>>

Searching == at = "search" /\ low <= high /\ rc = 0

Middle == (low + high) \div 2

Look(t) == try' = t /\ seen' = idx[t]

ProbeKeepsMiddle ==
  /\ Searching /\ Look(Middle)
  /\ rc' = IF idx[Middle] = uid THEN Middle ELSE 0
  /\ low' = IF uid > idx[Middle] THEN Middle ELSE low
  /\ high' = IF uid < idx[Middle] THEN Middle ELSE high
  /\ UNCHANGED <<area, at, uid, type>>

ProbeSkipsOne ==
  /\ Searching /\ Look(Middle)
  /\ rc' = IF idx[Middle] = uid THEN Middle ELSE 0
  /\ low' = IF uid > idx[Middle] THEN Middle + 2 ELSE low
  /\ high' = IF uid < idx[Middle] THEN Middle - 1 ELSE high
  /\ UNCHANGED <<area, at, uid, type>>

Probe ==
  /\ Searching /\ Look(Middle)
  /\ rc' = IF idx[Middle] = uid THEN Middle ELSE 0
  /\ low' = IF uid > idx[Middle] THEN Middle + 1 ELSE low
  /\ high' = IF uid < idx[Middle] THEN Middle - 1 ELSE high
  /\ UNCHANGED <<area, at, uid, type>>

(* No record has the id: the one before or after the place it would have.  *)
TryAnyway == try

Preceding == IF seen < uid THEN try ELSE IF try = 1 THEN 0 ELSE try - 1

Following == IF seen > uid \/ try = Len(idx) THEN try ELSE try + 1

Answer ==
  /\ at = "search" /\ ~Searching
  /\ at' = "answered"
  /\ rc' = IF rc # 0 THEN rc
           ELSE CASE type = "prev" -> Preceding
                  [] type = "next" -> Following
                  [] type = "exact" -> 0
  /\ UNCHANGED <<area, uid, type, low, high, try, seen>>

Next ==
  \/ CreateMsg \/ LockArea \/ UnlockArea
  \/ \E u \in Ids : WriteMsg(u) \/ AbandonMsg(u)
  \/ \E i \in 1 .. num : KillMsg(i)
  \/ \E t \in Types : AskZero(t) \/ \E u \in Ids : Ask(u, t)
  \/ Probe
  \/ Answer

Spec == Init /\ [][Next]_vars

(* A search that has begun goes on: it waits for nothing.                  *)
FairSpec == Spec /\ WF_vars(Probe \/ Answer)

---------------------------------------------------------------------------
(* The records keep ids and the bounds of the search stay next to the      *)
(* records (types of apiSquishUidToMsgn's variables, sq_uid.c 95-98).      *)
TypeOK ==
  /\ idx \in Seq(Stored)
  /\ num \in 0 .. MaxUid
  /\ framed \subseteq Ids /\ msgn \in [Ids -> 0 .. MaxUid]
  /\ locked \in BOOLEAN
  /\ uidNext \in 1 .. MaxUid + 1
  /\ at \in {"idle", "search", "answered"}
  /\ uid \in 0 .. MaxUid /\ type \in Types
  /\ low \in 1 .. MaxUid + 1 /\ high \in 0 .. MaxUid /\ try \in 1 .. MaxUid + 1
  /\ seen \in 0 .. Blank /\ rc \in 0 .. MaxUid + 1

(* The ids ascend; behind the messages there is at most the record of one  *)
(* abandoned message, then only blank ones.                                *)
Sorted ==
  /\ num <= Len(idx) /\ Len(idx) < uidNext
  /\ ~locked => Len(idx) = num
  /\ \A i, j \in 1 .. Len(idx) : i < j => idx[i] < idx[j] \/ idx[j] = Blank
  /\ \A i \in 1 .. Len(idx) :
       \/ idx[i] < uidNext
       \/ i > num /\ idx[i] = Blank
  /\ \A i \in 1 .. Len(idx) : i > num + 1 => idx[i] = Blank

(* Before low there are only smaller ids, after high only greater ones, and *)
(* the record looked at last touches one end of what is left.              *)
RangeHolds ==
  /\ low \in 1 .. Len(idx) + 1 /\ high \in 0 .. Len(idx) /\ low <= high + 1
  /\ uid \in Ids
  /\ \A i \in 1 .. low - 1 : idx[i] < uid
  /\ \A i \in high + 1 .. Len(idx) : uid < idx[i]
  /\ rc # 0 => rc \in 1 .. Len(idx) /\ idx[rc] = uid
  /\ \/ low = 1 /\ high = Len(idx) /\ try = 1 /\ seen = 0 /\ rc = 0
     \/ /\ try \in 1 .. Len(idx) /\ seen = idx[try]
        /\ \/ rc = try
           \/ rc = 0 /\ seen < uid /\ low = try + 1
           \/ rc = 0 /\ seen > uid /\ high = try - 1

(* No record that could be the answer is ever left outside the bounds of   *)
(* the search, in an index that kills and abandoned messages under MsgLock *)
(* leave longer than the messages and still in order (sq_uid.c 127-158),   *)
(* as long as new messages are opened one after the other.                 *)
SearchSound == Sorted /\ (at = "search" => RangeHolds)

(* What UidToMsgn answers (sq_uid.c 141-193), stated of the messages and   *)
(* the record that may be left of an abandoned one: the message with the   *)
(* id, if there is one, and no record of another id; else, if asked to,    *)
(* the last record with a smaller id, or the first message with a greater  *)
(* one, if there is one -- as reading on from a high water mark needs once *)
(* the marked message has been killed.  Nothing is said of UID_NEXT when   *)
(* no message follows, where the code gives a record all the same and the  *)
(* documentation 0 (smapi.pas 636-641), nor of UID_PREV in an empty index, *)
(* where it gives 1.                                                       *)
AnswerCorrect ==
  at = "answered" /\ uid # 0 =>
    /\ \A n \in 1 .. num : idx[n] = uid => rc = n
    /\ type = "exact" /\ rc # 0 => rc \in 1 .. Len(idx) /\ idx[rc] = uid
    /\ type = "prev" /\ Len(idx) > 0 =>
         /\ rc \in 0 .. Len(idx)
         /\ rc > 0 => idx[rc] <= uid
         /\ rc < Len(idx) => uid < idx[rc + 1]
    /\ type = "next" =>
         \A n \in 1 .. num :
           uid <= idx[n] /\ (n > 1 => idx[n - 1] < uid) => rc = n

(* Every search comes to an end: each turn of the loop narrows the bounds  *)
(* (sq_uid.c 135-158).                                                     *)
SearchEnds == at = "search" ~> at = "answered"
===========================================================================
