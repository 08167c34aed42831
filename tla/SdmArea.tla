------------------------------ MODULE SdmArea ------------------------------
(* A *.MSG area (src/src/api_sdm.c): a directory in which message u is the *)
(* file u.msg, and for each process that has it open the sorted table of   *)
(* ids it was scanned into, which only that process keeps up to date.      *)
(* There is no lock (SdmLock does nothing), so another process may act     *)
(* between the look for a free id and the opening of the file.             *)
(*                                                                         *)
(* A file is an inode: truncating and writing reach it under any name, and *)
(* still when it has been unlinked.                                        *)
EXTENDS Integers, Sequences, FiniteSets, Ascending

CONSTANTS
  Procs,
  Creators,  \* processes that write new messages
  Killers,   \* processes that delete messages
  Markers,   \* processes that set the high water mark
  IsEcho,    \* the area is opened with MSGTYPE_ECHO
  Failures,  \* may the opening of a new file fail?
  Garbage,   \* what memory may hold that nothing was written to
  MaxId,     \* bound: ids
  MaxFile    \* bound: inodes

ASSUME SdmAssumption ==
  /\ Creators \subseteq Procs /\ Killers \subseteq Procs
  /\ Markers \subseteq Procs
  /\ IsEcho \in BOOLEAN /\ Failures \in BOOLEAN
  /\ Garbage \subseteq 0 .. MaxId /\ Garbage # {}
  /\ MaxId \in Nat \ {0, 1} /\ MaxFile \in Nat \ {0}

VARIABLES
  disk,    \* the directory: for each id the inode of id.msg, or NoFile
  body,    \* what is in each inode
  born,    \* the number of inodes and of messages there have been
  area,    \* of each process: its MSGA and struct _sdmdata
  new,     \* of each process: the message it is about to create
  msgh,    \* of each process: its message handle
  home,    \* history: the id a message was written under, NoId once killed
  wanted   \* history: the mark that was set last, and the files there were then

vars == <<disk, body, born, area, new, msgh, home, wanted>>

NoFile == 0
NoId   == 0
Ids    == 1 .. MaxId
Files  == 1 .. MaxFile

Empty   == [is |-> "empty", n |-> 0]
Msg(b)  == [is |-> "msg", n |-> b]
Mark(m) == [is |-> "mark", n |-> m]

(* high_water until it has been read.                                      *)
NotRead == -1

(* table is msgnum, which has num_msg entries between two calls; `saw' is  *)
(* history: the inodes its entries named when they were read.              *)
Shut == [open |-> FALSE, num |-> 0, high |-> 0, cur |-> 0, table |-> <<>>,
         mark |-> NotRead, chgd |-> FALSE, saw |-> <<>>]

NoNew == [num |-> 0, id |-> NoId]
NoMsg == [mode |-> "closed", ino |-> NoFile, b |-> 0, id |-> NoId]

(* An area may hold a mark already, in the first message.                  *)
Init ==
  \E marked \in BOOLEAN :
    /\ disk = [u \in Ids |-> IF marked /\ u = 1 THEN 1 ELSE NoFile]
    /\ body = [i \in Files |-> IF marked /\ i = 1 THEN Mark(0) ELSE Empty]
    /\ born = IF marked THEN 1 ELSE 0
    /\ area = [p \in Procs |-> Shut]
    /\ new = [p \in Procs |-> NoNew]
    /\ msgh = [p \in Procs |-> NoMsg]
    /\ home = [b \in Files |-> NoId]
    /\ wanted = [mark |-> 0, born |-> born]

---------------------------------------------------------------------------
(***************************************************************************)
(* The table of ids.                                                       *)
(***************************************************************************)
Listed == InOrder({u \in Ids : disk[u] # NoFile})

Most(a, b) == IF a <= b THEN b ELSE a

(* The highest id is only ever raised by a rescan.                         *)
RescanArea(a) ==
  LET t == Listed
  IN [a EXCEPT !.num = Len(t), !.table = t,
               !.saw = [n \in DOMAIN t |-> disk[t[n]]],
               !.high = Most(@, IF t = <<>> THEN 0 ELSE t[Len(t)])]

MsgnToUid(a, n) == IF n = 0 THEN NoId ELSE a.table[n]

(* The binary search of SdmUidToMsgn, over the messages left .. right.     *)
Searched(a, uid) ==
  LET s[left \in 1 .. a.num + 1, right \in 0 .. a.num] ==
        LET mid == (left + right) \div 2
            id  == MsgnToUid(a, mid)
        IN IF left > right THEN right
           ELSE IF id < uid THEN s[mid + 1, right]
           ELSE IF id > uid THEN s[left, mid - 1]
           ELSE mid
  IN s[1, a.num]

UidToPrev(a, uid) == IF uid = NoId THEN 0 ELSE Searched(a, uid)

(* memmove over the entry of message n: the last one stays where it was.   *)
MovedOver(s, n) ==
  [k \in DOMAIN s |-> IF k >= n /\ k < Len(s) THEN s[k + 1] ELSE s[k]]

Without(s, n) == SubSeq(MovedOver(s, n), 1, Len(s) - 1)

TakenLeavesTable(a, n) == [a EXCEPT !.num = @ - 1]

Taken(a, n) ==
  [a EXCEPT !.num = @ - 1, !.table = Without(@, n), !.saw = Without(@, n)]

---------------------------------------------------------------------------
(***************************************************************************)
(* The high water mark.                                                    *)
(***************************************************************************)
IsMark(u) == u \in Ids /\ disk[u] # NoFile /\ body[disk[u]].is = "mark"

(* The mark is fetched from the first message, which becomes the current   *)
(* one, unless that cannot be opened.                                      *)
Fetched(a, d) ==
  IF a.mark # NotRead \/ a.num = 0 THEN a
  ELSE LET u == MsgnToUid(a, 1)
       IN IF u \notin Ids THEN a
          ELSE IF d[u] = NoFile THEN a
          ELSE [a EXCEPT !.cur = 1,
                         !.mark = IF body[d[u]].is = "mark"
                                  THEN body[d[u]].n ELSE 0]

(* It is kept as it is given, and looked up as an id.                      *)
HighWater(a) == IF a.mark = NotRead THEN 0 ELSE UidToPrev(a, a.mark)

SetMark(a, n) == [a EXCEPT !.mark = n, !.chgd = @ \/ (n # a.mark)]

---------------------------------------------------------------------------
(***************************************************************************)
(* The operations.                                                         *)
(***************************************************************************)
Idle(p) == area[p].open /\ new[p] = NoNew

OpenArea(p) ==
  /\ ~area[p].open
  /\ area' = [area EXCEPT ![p] = RescanArea([Shut EXCEPT !.open = TRUE])]
  /\ UNCHANGED <<disk, body, born, new, msgh, home, wanted>>

(* A changed mark is written into the first message, whose file is         *)
(* truncated (there is one: see MayMark).  Only then is the call refused   *)
(* if a message is still open.                                             *)
Marked(p) == [body EXCEPT ![disk[MsgnToUid(area[p], 1)]] = Mark(area[p].mark)]

CloseArea(p) ==
  /\ Idle(p)
  /\ body' = IF area[p].chgd THEN Marked(p) ELSE body
  /\ area' = [area EXCEPT ![p] =
               IF msgh[p].mode = "closed" THEN Shut
               ELSE IF area[p].chgd THEN [@ EXCEPT !.cur = 1] ELSE @]
  /\ UNCHANGED <<disk, born, new, msgh, home, wanted>>

OpenMsg(p, n) ==
  /\ Idle(p) /\ msgh[p].mode = "closed"
  /\ n <= area[p].num /\ area[p].table[n] \in Ids
  /\ disk[area[p].table[n]] # NoFile
  /\ area' = [area EXCEPT ![p].cur = n]
  /\ msgh' = [msgh EXCEPT ![p].mode = "read"]
  /\ UNCHANGED <<disk, body, born, new, home, wanted>>

CloseMsg(p) ==
  /\ Idle(p) /\ msgh[p].mode # "closed"
  /\ msgh' = [msgh EXCEPT ![p] = NoMsg]
  /\ UNCHANGED <<disk, body, born, area, new, home, wanted>>

FreeNumber(a) == a.num + 1

FreeId(a) == a.high + 1

(* SdmOpenMsg to create a message, up to the opening of its file: the      *)
(* directory is read again only if there is a file for the next id.  In an *)
(* empty echo area the number, not the id, steps over the mark.            *)
NextId(p) ==
  LET a == area[p]
      b == IF FreeId(a) \in Ids /\ disk[FreeId(a)] # NoFile
            THEN RescanArea(a) ELSE a
      first == IsEcho /\ b.num = 0
  IN /\ Idle(p) /\ p \in Creators /\ msgh[p].mode = "closed"
     /\ FreeId(b) \in Ids
     /\ new' = [new EXCEPT ![p] = [num |-> IF first THEN 2 ELSE b.num + 1,
                                   id  |-> FreeId(b)]]
     /\ area' = [area EXCEPT ![p] =
                   [b EXCEPT !.num = @ + 1,
                             !.high = IF first THEN 2 ELSE FreeId(b)]]
     /\ UNCHANGED <<disk, body, born, msgh, home, wanted>>

(* The rest of it.  The message is counted again, and the entry before its *)
(* own has never been written: `junk' is what was in that memory.          *)
MakeFile(p) ==
  LET u == new[p].id
      b == born + 1
      i == IF disk[u] = NoFile THEN b ELSE disk[u]
  IN /\ new[p] # NoNew /\ b \in Files
     /\ born' = b
     /\ disk' = [disk EXCEPT ![u] = i]
     /\ body' = [body EXCEPT ![i] = Empty]
     /\ \E junk \in Garbage :
          area' = [area EXCEPT ![p].cur = new[p].num, ![p].num = @ + 1,
                               ![p].table = @ \o <<junk, u>>,
                               ![p].saw = @ \o <<NoFile, i>>]
     /\ msgh' = [msgh EXCEPT ![p] = [mode |-> "new", ino |-> i, b |-> b, id |-> u]]
     /\ new' = [new EXCEPT ![p] = NoNew]
     /\ UNCHANGED <<home, wanted>>

(* Neither the count nor the highest id goes back.                         *)
MakeFileFails(p) ==
  /\ new[p] # NoNew /\ Failures
  /\ \E junk \in Garbage :
       area' = [area EXCEPT ![p].table = Append(@, junk),
                            ![p].saw = Append(@, NoFile)]
  /\ new' = [new EXCEPT ![p] = NoNew]
  /\ UNCHANGED <<disk, body, born, msgh, home, wanted>>

WriteMsg(p) ==
  LET c == msgh[p]
  IN /\ Idle(p) /\ c.mode = "new"
     /\ body' = [body EXCEPT ![c.ino] = Msg(c.b)]
     /\ home' = IF disk[c.id] = c.ino THEN [home EXCEPT ![c.b] = c.id] ELSE home
     /\ UNCHANGED <<disk, born, area, new, msgh, wanted>>

(* Nobody deletes the mark itself.                                         *)
MayKill(p, n) == p \in Killers /\ ~IsMark(area[p].table[n])

KeepHigh(a, u) == a

(* The highest id after the message of id u has been taken off the table.  *)
LowerHigh(a, u) ==
  IF u = a.high THEN [a EXCEPT !.high = MsgnToUid(a, a.num)] ELSE a

LowerMarkQuietly(a, n) ==
  IF HighWater(a) >= n THEN [a EXCEPT !.mark = n - 1] ELSE a

LowerMark(a, n) ==
  IF HighWater(a) >= n THEN SetMark(a, n - 1) ELSE a

(* The entry goes before the file does: if that is gone already, the call  *)
(* fails, and the last message is in the table twice.                      *)
KillMsg(p, n) ==
  LET a == area[p]
      u == a.table[n]
      d == [disk EXCEPT ![u] = NoFile]
      f == Fetched(LowerHigh(Taken(a, n), u), d)
      b == LowerMark(f, n)
  IN /\ Idle(p) /\ n <= a.num /\ MayKill(p, n) /\ u \in Ids
     /\ IF disk[u] # NoFile
        THEN /\ disk' = d
             /\ area' = [area EXCEPT ![p] =
                           [b EXCEPT !.cur = IF @ >= n THEN @ - 1 ELSE @]]
             /\ home' = [m \in Files |-> IF home[m] = u THEN NoId ELSE home[m]]
             /\ wanted' = IF b = f THEN wanted ELSE [wanted EXCEPT !.mark = n - 1]
        ELSE /\ area' = [area EXCEPT ![p].table = MovedOver(@, n),
                                     ![p].saw = MovedOver(@, n)]
             /\ UNCHANGED <<disk, home, wanted>>
     /\ UNCHANGED <<body, born, new, msgh>>

GetHighWater(p) ==
  /\ Idle(p) /\ p \in Markers
  /\ area' = [area EXCEPT ![p] = Fetched(@, disk)]
  /\ UNCHANGED <<disk, body, born, new, msgh, home, wanted>>

(* A mark is set where there is a message to keep it in.                   *)
MayMark(p) == p \in Markers /\ area[p].num > 0 /\ IsMark(area[p].table[1])

SetHighWater(p, n) ==
  /\ Idle(p) /\ MayMark(p) /\ n <= area[p].num
  /\ area' = [area EXCEPT ![p] = SetMark(@, n)]
  /\ wanted' = [mark |-> n, born |-> born]
  /\ UNCHANGED <<disk, body, born, new, msgh, home>>

Next ==
  \E p \in Procs :
    \/ OpenArea(p) \/ CloseArea(p) \/ CloseMsg(p)
    \/ NextId(p) \/ MakeFile(p) \/ MakeFileFails(p) \/ WriteMsg(p)
    \/ GetHighWater(p)
    \/ \E n \in Ids : OpenMsg(p, n) \/ KillMsg(p, n) \/ SetHighWater(p, n)

Spec == Init /\ [][Next]_vars
---------------------------------------------------------------------------
(***************************************************************************)
(* Properties.                                                             *)
(***************************************************************************)
Readers == Procs \ Creators

Content ==
  [is : {"empty"}, n : {0}] \cup [is : {"msg"}, n : Files]
    \cup [is : {"mark"}, n : 0 .. MaxId]

AreaType ==
  [open : BOOLEAN, num : Nat, high : 0 .. MaxId, cur : Nat,
   table : Seq(0 .. MaxId), mark : {NotRead} \cup 0 .. MaxId,
   chgd : BOOLEAN, saw : Seq(0 .. MaxFile)]

NewType == {NoNew} \cup [num : Nat, id : Ids]
MsghType ==
  [mode : {"closed", "read"}, ino : {NoFile}, b : {0}, id : {NoId}]
    \cup [mode : {"new"}, ino : Files, b : Files, id : Ids]

(* Every variable keeps its type; the table has num_msg entries, but for   *)
(* the message that is being created.                                      *)
TypeOK ==
  /\ disk \in [Ids -> 0 .. MaxFile]
  /\ body \in [Files -> Content]
  /\ born \in 0 .. MaxFile
  /\ area \in [Procs -> AreaType]
  /\ new \in [Procs -> NewType]
  /\ msgh \in [Procs -> MsghType]
  /\ home \in [Files -> 0 .. MaxId]
  /\ wanted \in [mark : 0 .. MaxId, born : 0 .. MaxFile]
  /\ \A p \in Procs :
       /\ Len(area[p].table) = area[p].num - (IF new[p] = NoNew THEN 0 ELSE 1)
       /\ Len(area[p].saw) = Len(area[p].table)
       /\ area[p].chgd => area[p].mark # NotRead
       /\ new[p] # NoNew => area[p].open

(* A message that was written stays in its file, whole, until it is        *)
(* killed: no create truncates it and no mark is written over it           *)
(* (api_sdm.c 339: avoid conflicts).                                       *)
MessagesKept ==
  \A b \in Files :
    home[b] # NoId =>
      disk[home[b]] # NoFile /\ body[disk[home[b]]] = Msg(b)

(* What a reader's number means does not change under it: its table is     *)
(* sorted, still names the files it was read from, and ends with the       *)
(* highest id, although the ids of killed messages are given out again.    *)
TableTrue ==
  \A p \in Readers :
    LET a == area[p]
    IN a.open =>
         /\ \A n \in DOMAIN a.table :
              /\ n > 1 => a.table[n - 1] < a.table[n]
              /\ disk[a.table[n]] = a.saw[n]
         /\ a.high = MsgnToUid(a, a.num)
         /\ a.cur <= a.num

(* The mark that was set last is the one the area has, in memory or, once  *)
(* it is closed, in the first message, also when a kill has lowered it.    *)
MarkKept ==
  \A p \in Markers :
    LET a == area[p]
        written == disk[1] # NoFile /\ body[disk[1]] = Mark(wanted.mark)
    IN disk[1] # NoFile /\ body[disk[1]].is = "mark" =>
         IF a.open /\ a.mark # NotRead
         THEN a.mark = wanted.mark /\ (a.chgd \/ written)
         ELSE written

(* A message that was written after the mark was set is not behind it      *)
(* (smapi.pas 648: the highest message number that was processed, adjusted *)
(* when messages are killed).                                              *)
MarkNeverSkipsAhead ==
  \A p \in Markers :
    area[p].open => \A n \in 1 .. HighWater(area[p]) :
                      area[p].saw[n] <= wanted.born
=============================================================================
