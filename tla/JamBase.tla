------------------------------ MODULE JamBase ------------------------------
(* A JAM message base (src/src/api_jam.c and read_allidx of structrw.c)    *)
(* that several processes have open: the index, header and text files, the *)
(* header info and the byte lock, and what each process keeps in memory,   *)
(* that is, its copy of the header info, the table of active messages and  *)
(* one message handle.                                                     *)
(*                                                                         *)
(* A position in a file is the ordinal of the record there, so the id of a *)
(* message is the position of its index record (BaseMsgNum is 1, as        *)
(* Jam_OpenFile sets it).  A call is one step, but for KillMsg, which      *)
(* reads the header before it takes the lock: everything WriteMsg does to  *)
(* the files is done under the lock.                                       *)
EXTENDS Integers, Sequences, FiniteSets, Ascending

CONSTANTS
  Procs, Nobody,
  MaxIdx,     \* bound: index records
  MaxHdr,     \* bound: headers
  MaxTxt,     \* bound: texts
  Failures,   \* may writing a new message fail?
  Rewriters,  \* processes that replace and update messages
  Killers,    \* processes that delete messages
  Polite      \* no KillMsg while the process has a message open for rewriting

ASSUME JamAssumption ==
  /\ Nobody \notin Procs
  /\ MaxIdx \in Nat /\ MaxHdr \in Nat /\ MaxTxt \in Nat
  /\ Rewriters \subseteq Procs /\ Killers \subseteq Procs
  /\ Failures \in BOOLEAN /\ Polite \in BOOLEAN

VARIABLES
  idx,     \* .jdx: for each message the ordinal of its header, or Gone
  hdrs,    \* .jhr: the headers
  txt,     \* .jdt: the texts, as the ids of the messages they are of
  active,  \* JAMHDRINFO on disk: ActiveMsgs
  owner,   \* who holds byte 0 of the header file
  area,    \* of each process: its MSGA and JAMBASE
  msgh,    \* of each process: its message handle
  kill,    \* of each process: a KillMsg that has read the header
  stored,  \* history: where the text each message was last given is, or NoText
  wild     \* history: the table was indexed behind its end

vars == <<idx, hdrs, txt, active, owner, area, msgh, kill, stored, wild>>

Gone   == 0
NoText == 0
Ids    == 1 .. MaxIdx

(* JAMHDR: the JMSG_DELETED attribute, MsgNum, TxtOffset.                  *)
Header(at, t) == [del |-> FALSE, at |-> at, txt |-> t]
Deleted(r)    == [r EXCEPT !.del = TRUE]

(* JAMACTMSG: IdxOffset, TrueMsg, and the header as it was when read.      *)
Slot(at, h, r) == [at |-> at, hdr |-> h, copy |-> r]

(* num_msg equals HdrInfo.ActiveMsgs whenever a call has ended.            *)
Shut == [open |-> FALSE, num |-> 0, modified |-> FALSE, locked |-> FALSE,
         read |-> FALSE, table |-> <<>>]

NoMsg  == [mode |-> "closed", num |-> 0, at |-> 0, hdr |-> 0,
           copy |-> Header(0, 0)]
NoKill == [num |-> 0, hdr |-> 0, copy |-> Header(0, 0)]

Init ==
  /\ idx = <<>> /\ hdrs = <<>> /\ txt = <<>>
  /\ active = 0
  /\ owner = Nobody
  /\ area = [p \in Procs |-> Shut]
  /\ msgh = [p \in Procs |-> NoMsg]
  /\ kill = [p \in Procs |-> NoKill]
  /\ stored = [m \in Ids |-> NoText]
  /\ wild = FALSE

---------------------------------------------------------------------------
(***************************************************************************)
(* The table of active messages.                                           *)
(***************************************************************************)
Live(m) == idx[m] # Gone /\ idx[m] <= Len(hdrs) /\ ~hdrs[idx[m]].del

ActiveMsgs ==
  LET ms == InOrder({m \in DOMAIN idx : Live(m)})
  IN [n \in DOMAIN ms |-> Slot(ms[n], idx[ms[n]], hdrs[idx[ms[n]]])]

(* read_allidx corrects the number of active messages.                     *)
ReadAll(a) ==
  [a EXCEPT !.read = TRUE, !.table = ActiveMsgs, !.num = Len(ActiveMsgs),
            !.modified = @ \/ a.num # Len(ActiveMsgs)]

Table(a) == IF a.read THEN a ELSE ReadAll(a)

MsgnToUid(a, n) == IF n \in 1 .. a.num THEN a.table[n].at ELSE 0

(* What the search answers when the messages left and right of the id are  *)
(* all that is left.                                                       *)
MissedSwapped(a, left, right, type) ==
  CASE type = "exact" -> 0
    [] type = "prev"  -> IF left > a.num THEN a.num ELSE left
    [] OTHER          -> right

Missed(a, left, right, type) ==
  CASE type = "exact" -> 0
    [] type = "prev"  -> right
    [] OTHER          -> IF left > a.num THEN a.num ELSE left

(* The binary search of JamUidToMsgn over the messages left .. right.      *)
UidToMsgn(a, uid, type) ==
  LET s[range \in (1 .. a.num + 1) \X (0 .. a.num)] ==
        LET left  == range[1]
            right == range[2]
            cur   == (left + right) \div 2
            id    == MsgnToUid(a, cur)
        IN IF left > right THEN Missed(a, left, right, type)
           ELSE IF id < uid THEN s[<<cur + 1, right>>]
           ELSE IF id > uid THEN s[<<left, cur - 1>>]
           ELSE cur
  IN s[<<1, a.num>>]

---------------------------------------------------------------------------
(***************************************************************************)
(* Opening and closing.                                                    *)
(***************************************************************************)
Idle(p) == ~wild /\ area[p].open /\ kill[p] = NoKill

Open(p) ==
  LET n == IF active > Len(idx) THEN Len(idx) ELSE active
      a == [Shut EXCEPT !.open = TRUE, !.num = n, !.modified = n # active]
  IN /\ ~wild /\ ~area[p].open
     /\ area' = [area EXCEPT ![p] = IF n = 0 /\ idx # <<>>
                                    THEN ReadAll(a) ELSE a]
     /\ UNCHANGED <<idx, hdrs, txt, active, owner, msgh, kill, stored, wild>>

(* The header info goes back to disk as this process knows it, without the *)
(* lock.                                                                   *)
Close(p) ==
  /\ Idle(p) /\ msgh[p].mode = "closed"
  /\ active' = IF area[p].modified THEN area[p].num ELSE active
  /\ owner' = IF owner = p THEN Nobody ELSE owner
  /\ area' = [area EXCEPT ![p] = Shut]
  /\ UNCHANGED <<idx, hdrs, txt, msgh, kill, stored, wild>>

LockArea(p) ==
  /\ Idle(p) /\ ~area[p].locked /\ owner \in {Nobody, p}
  /\ owner' = p
  /\ area' = [area EXCEPT ![p].locked = TRUE]
  /\ UNCHANGED <<idx, hdrs, txt, active, msgh, kill, stored, wild>>

UnlockArea(p) ==
  /\ Idle(p) /\ area[p].locked
  /\ owner' = Nobody
  /\ area' = [area EXCEPT ![p].locked = FALSE]
  /\ UNCHANGED <<idx, hdrs, txt, active, msgh, kill, stored, wild>>

NewMsg(p) ==
  /\ Idle(p) /\ msgh[p].mode = "closed"
  /\ msgh' = [msgh EXCEPT ![p] = [NoMsg EXCEPT !.mode = "new"]]
  /\ UNCHANGED <<idx, hdrs, txt, active, owner, area, kill, stored, wild>>

(* The number is looked at again once the table has been read.             *)
NotChecked(a, n) == TRUE

Checked(a, n) == n \in 1 .. a.num

(* An existing message is opened from the table, which may be old.         *)
OpenMsg(p, n, mode) ==
  LET a == Table(area[p])
      e == a.table[n]
  IN /\ Idle(p) /\ msgh[p].mode = "closed"
     /\ n <= area[p].num
     /\ mode # "read" => p \in Rewriters
     /\ area' = [area EXCEPT ![p] = a]
     /\ wild' = (wild \/ (Checked(a, n) /\ n \notin DOMAIN a.table))
     /\ msgh' = IF Checked(a, n) /\ n \in DOMAIN a.table /\ mode # "read"
                THEN [msgh EXCEPT ![p] = [mode |-> mode, num |-> n, at |-> e.at,
                                          hdr |-> e.hdr, copy |-> e.copy]]
                ELSE msgh
     /\ UNCHANGED <<idx, hdrs, txt, active, owner, kill, stored>>

CloseMsg(p) ==
  /\ Idle(p) /\ msgh[p].mode # "closed"
  /\ msgh' = [msgh EXCEPT ![p] = NoMsg]
  /\ UNCHANGED <<idx, hdrs, txt, active, owner, area, kill, stored, wild>>

---------------------------------------------------------------------------
(***************************************************************************)
(* Writing.                                                                *)
(***************************************************************************)
(* Jam_Lock waits until the byte is free, unless the area is locked.       *)
MayWrite(p) == Idle(p) /\ owner \in {Nobody, p}

UnlockedAlways(p) == Nobody

(* What WriteMsg locked it unlocks.                                        *)
Unlocked(p) == IF area[p].locked THEN owner ELSE Nobody

PutSlot(p, a, n, e) ==
  IF n \in DOMAIN a.table
  THEN /\ area' = [area EXCEPT ![p] = [a EXCEPT !.table[n] = e]]
       /\ wild' = wild
  ELSE /\ area' = [area EXCEPT ![p] = a]
       /\ wild' = TRUE

WriteNew(p) ==
  LET a == area[p]
      m == Len(idx) + 1
      h == Len(hdrs) + 1
      r == Header(m, Len(txt) + 1)
  IN /\ MayWrite(p) /\ msgh[p].mode = "new"
     /\ m <= MaxIdx /\ h <= MaxHdr /\ Len(txt) < MaxTxt
     /\ txt' = Append(txt, m)
     /\ hdrs' = Append(hdrs, r)
     /\ idx' = Append(idx, h)
     /\ area' = [area EXCEPT ![p].num = @ + 1,
                             ![p].modified = TRUE,
                             ![p].table = IF a.read
                                          THEN Append(@, Slot(m, h, r)) ELSE @]
     /\ owner' = Unlocked(p)
     /\ msgh' = [msgh EXCEPT ![p].mode = "done"]
     /\ stored' = [stored EXCEPT ![m] = Len(txt) + 1]
     /\ UNCHANGED <<active, kill, wild>>

(* The new message cannot be written beyond the text, the header with its  *)
(* subfields, or the index record: what is in the files then, and how they *)
(* are cut back to their old lengths.                                      *)
Stages == {"text", "header", "index"}

HalfWritten(stage) ==
  [txt  |-> Append(txt, Len(idx) + 1),
   hdrs |-> IF stage = "text" THEN hdrs
            ELSE Append(hdrs, Header(Len(idx) + 1, Len(txt) + 1)),
   idx  |-> IF stage = "index" THEN Append(idx, Len(hdrs) + 1) ELSE idx]

CutIndexOnly(f, stage) ==
  [f EXCEPT !.txt  = SubSeq(@, 1, Len(txt)),
            !.idx  = SubSeq(@, 1, Len(idx))]

CutBack(f, stage) ==
  [f EXCEPT !.txt  = SubSeq(@, 1, Len(txt)),
            !.hdrs = IF stage = "text" THEN @ ELSE SubSeq(@, 1, Len(hdrs)),
            !.idx  = IF stage = "index" THEN SubSeq(@, 1, Len(idx)) ELSE @]

(* These returns keep the lock.                                            *)
WriteNewFails(p, stage) ==
  LET f == CutBack(HalfWritten(stage), stage)
  IN /\ MayWrite(p) /\ msgh[p].mode = "new" /\ Failures
     /\ txt' = f.txt /\ hdrs' = f.hdrs /\ idx' = f.idx
     /\ owner' = p
     /\ area' = [area EXCEPT ![p].modified = TRUE]
     /\ UNCHANGED <<active, msgh, kill, stored, wild>>

(* A message whose text was given anew, if it has not been deleted.        *)
Restored(m) ==
  stored' = [stored EXCEPT ![m] = IF @ = NoText THEN @ ELSE Len(txt) + 1]

WriteOver(p) ==
  LET c == msgh[p]
      h == Len(hdrs) + 1
      r == Header(c.copy.at, Len(txt) + 1)
  IN /\ MayWrite(p) /\ c.mode = "over" /\ h <= MaxHdr /\ Len(txt) < MaxTxt
     /\ txt' = Append(txt, c.at)
     /\ hdrs' = Append([hdrs EXCEPT ![c.hdr] = Deleted(c.copy)], r)
     /\ idx' = [idx EXCEPT ![c.at] = h]
     /\ PutSlot(p, [area[p] EXCEPT !.modified = TRUE], c.num,
                IF c.num \in DOMAIN area[p].table
                THEN Slot(area[p].table[c.num].at, h, r) ELSE Slot(c.at, h, r))
     /\ owner' = Unlocked(p)
     /\ msgh' = [msgh EXCEPT ![p].mode = "done", ![p].hdr = h]
     /\ Restored(c.at)
     /\ UNCHANGED <<active, kill>>

NeedsIndexOnce(p, h, readdressed) == readdressed

(* The record in the index is rewritten unless the table says that it is   *)
(* right already.                                                          *)
NeedsIndex(p, h, readdressed) ==
  LET t == area[p].table
      n == msgh[p].num
  IN ~(n \in DOMAIN t /\ t[n].hdr = h /\ ~readdressed)

(* An update without a text keeps the old one; a header that has grown     *)
(* moves to the end of the file; `readdressed' is a new name in the To:    *)
(* field, so a new UserCRC.                                                *)
Update(p, retexted, grown, readdressed) ==
  LET c == msgh[p]
      r == Header(c.copy.at, IF retexted THEN Len(txt) + 1 ELSE c.copy.txt)
      h == IF grown THEN Len(hdrs) + 1 ELSE c.hdr
  IN /\ MayWrite(p) /\ c.mode = "write" /\ h <= MaxHdr
     /\ retexted => Len(txt) < MaxTxt
     /\ txt' = IF retexted THEN Append(txt, c.at) ELSE txt
     /\ hdrs' = IF grown
                THEN Append([hdrs EXCEPT ![c.hdr] = Deleted(c.copy)], r)
                ELSE [hdrs EXCEPT ![c.hdr] = r]
     /\ idx' = IF NeedsIndex(p, h, readdressed)
               THEN [idx EXCEPT ![c.at] = h] ELSE idx
     /\ PutSlot(p, [area[p] EXCEPT !.modified = TRUE], c.num,
                IF c.num \in DOMAIN area[p].table
                THEN Slot(area[p].table[c.num].at, h, r) ELSE Slot(c.at, h, r))
     /\ owner' = Unlocked(p)
     /\ msgh' = [msgh EXCEPT ![p].hdr = h, ![p].copy = r]
     /\ IF retexted THEN Restored(c.at) ELSE UNCHANGED stored
     /\ UNCHANGED <<active, kill>>

---------------------------------------------------------------------------
(***************************************************************************)
(* Deleting.                                                               *)
(***************************************************************************)
MayKill(p) ==
  /\ p \in Killers
  /\ Polite => msgh[p].mode \notin {"over", "write"}

(* The header is read, and must not be deleted yet.  The number is checked *)
(* before the table is read, and not again when that has corrected the     *)
(* number of messages.                                                     *)
KillMsg(p, n) ==
  LET a == Table(area[p])
      h == a.table[n].hdr
  IN /\ Idle(p) /\ MayKill(p) /\ ~area[p].locked
     /\ n <= area[p].num
     /\ area' = [area EXCEPT ![p] = a]
     /\ IF n \in DOMAIN a.table
        THEN /\ wild' = wild
             /\ kill' = IF hdrs[h].del THEN kill
                        ELSE [kill EXCEPT ![p] = [num |-> n, hdr |-> h,
                                                  copy |-> hdrs[h]]]
        ELSE wild' = TRUE /\ UNCHANGED kill
     /\ UNCHANGED <<idx, hdrs, txt, active, owner, msgh, stored>>

KillBusy(p) ==
  /\ ~wild /\ kill[p] # NoKill /\ owner \notin {Nobody, p}
  /\ kill' = [kill EXCEPT ![p] = NoKill]
  /\ UNCHANGED <<idx, hdrs, txt, active, owner, area, msgh, stored, wild>>

(* Under the lock the index record the table names becomes blank, the      *)
(* header read before is written back as deleted, and the table is read    *)
(* anew.                                                                   *)
Removed(p) ==
  LET k == kill[p]
  IN /\ idx' = [idx EXCEPT ![area[p].table[k.num].at] = Gone]
     /\ hdrs' = [hdrs EXCEPT ![k.hdr] = Deleted(k.copy)]

KillKeepsTable(p) ==
  /\ ~wild /\ kill[p] # NoKill /\ owner \in {Nobody, p}
  /\ Removed(p)
  /\ area' = [area EXCEPT ![p].modified = TRUE, ![p].num = @ - 1]
  /\ owner' = Nobody
  /\ kill' = [kill EXCEPT ![p] = NoKill]
  /\ stored' = [stored EXCEPT ![area[p].table[kill[p].num].at] = NoText]
  /\ UNCHANGED <<txt, active, msgh, wild>>

KillUnderLock(p) ==
  /\ ~wild /\ kill[p] # NoKill /\ owner \in {Nobody, p}
  /\ Removed(p)
  /\ area' = [area EXCEPT ![p] =
       [@ EXCEPT !.read = TRUE, !.modified = TRUE,
                 !.table = ActiveMsgs', !.num = Len(ActiveMsgs')]]
  /\ owner' = Nobody
  /\ kill' = [kill EXCEPT ![p] = NoKill]
  /\ stored' = [stored EXCEPT ![area[p].table[kill[p].num].at] = NoText]
  /\ UNCHANGED <<txt, active, msgh, wild>>

(* What a process does that has read behind the end of its table is        *)
(* undefined, and not followed.                                            *)
Undefined == wild /\ UNCHANGED vars

Next ==
  \/ \E p \in Procs :
       \/ Open(p) \/ Close(p) \/ LockArea(p) \/ UnlockArea(p)
       \/ NewMsg(p) \/ CloseMsg(p)
       \/ \E stage \in Stages : WriteNewFails(p, stage)
       \/ KillBusy(p) \/ KillUnderLock(p)
       \/ \E n \in Ids :
            \/ KillMsg(p, n)
            \/ \E mode \in {"read", "over", "write"} : OpenMsg(p, n, mode)
       \/ WriteNew(p) \/ WriteOver(p)
       \/ \E retexted, grown, readdressed \in BOOLEAN :
            Update(p, retexted, grown, readdressed)
  \/ Undefined

Spec == Init /\ [][Next]_vars
---------------------------------------------------------------------------
(***************************************************************************)
(* Properties.                                                             *)
(***************************************************************************)
HeaderType == [del : BOOLEAN, at : 0 .. MaxIdx, txt : 0 .. MaxTxt]
SlotType   == [at : Ids, hdr : 1 .. MaxHdr, copy : HeaderType]

AreaType ==
  [open : BOOLEAN, num : 0 .. MaxIdx, modified : BOOLEAN, locked : BOOLEAN,
   read : BOOLEAN, table : Seq(SlotType)]

MsghType ==
  [mode : {"closed", "new", "over", "write", "done"}, num : 0 .. MaxIdx,
   at : 0 .. MaxIdx, hdr : 0 .. MaxHdr, copy : HeaderType]

KillType == [num : 0 .. MaxIdx, hdr : 0 .. MaxHdr, copy : HeaderType]

(* Every variable keeps its type; num_msg stays within the index, and who  *)
(* has locked the area holds the byte.                                     *)
TypeOK ==
  /\ idx \in Seq(0 .. MaxHdr) /\ Len(idx) <= MaxIdx
  /\ hdrs \in Seq(HeaderType) /\ Len(hdrs) <= MaxHdr
  /\ txt \in Seq(Ids) /\ Len(txt) <= MaxTxt
  /\ active \in 0 .. MaxIdx
  /\ owner \in Procs \cup {Nobody}
  /\ area \in [Procs -> AreaType]
  /\ msgh \in [Procs -> MsghType]
  /\ kill \in [Procs -> KillType]
  /\ stored \in [Ids -> 0 .. MaxTxt]
  /\ wild \in BOOLEAN
  /\ \A p \in Procs : /\ area[p].num <= Len(idx)
                      /\ area[p].locked => owner = p

(* What was written is there until it is deleted, and nothing else is:     *)
(* whatever the processes do in between, the index names for every message *)
(* a header that is not deleted and the text the message was last given,   *)
(* and a deleted message does not come back (api_jam.c 654, 1064).         *)
IndexMatchesMessages ==
  \A m \in Ids :
    IF stored[m] = NoText THEN m \in DOMAIN idx => ~Live(m)
    ELSE /\ m \in DOMAIN idx /\ Live(m)
         /\ hdrs[idx[m]].at = m
         /\ hdrs[idx[m]].txt = stored[m]
         /\ stored[m] \in DOMAIN txt /\ txt[stored[m]] = m

(* A header that is not deleted is the one its index record names: neither *)
(* a failed write nor a replacement nor a deletion leaves a second one.    *)
HeadersNamed ==
  \A h \in DOMAIN hdrs :
    ~hdrs[h].del => hdrs[h].at \in DOMAIN idx /\ idx[hdrs[h].at] = h

(* A table, however old, counts what num_msg says, in the order the binary *)
(* search needs, and each slot's header and text are of the slot's own     *)
(* message: text files that are cut back never lose what a table names.    *)
TableSound ==
  \A p \in Procs :
    LET a == area[p]
    IN a.read =>
         /\ Len(a.table) = a.num
         /\ \A n \in DOMAIN a.table :
              LET e == a.table[n]
              IN /\ n > 1 => a.table[n - 1].at < e.at
                 /\ e.copy.at = e.at /\ hdrs[e.hdr].at = e.at
                 /\ e.copy.txt \in DOMAIN txt /\ txt[e.copy.txt] = e.at

(* A search in the table finds the message of an id, and for an id that is *)
(* gone the message before it (0 when there is none) or the one behind it, *)
(* when there is one.                                                      *)
Finds(a, u) ==
  LET found == \E n \in 1 .. a.num : a.table[n].at = u
      k     == Cardinality({n \in 1 .. a.num : a.table[n].at <= u})
  IN /\ UidToMsgn(a, u, "exact") = IF found THEN k ELSE 0
     /\ UidToMsgn(a, u, "prev")  = k
     /\ found \/ k < a.num =>
          UidToMsgn(a, u, "next") = IF found THEN k ELSE k + 1

(* Every table a process has read, however old, can be searched, as a      *)
(* resume from the high water mark does (api_jam.c 1250-1310).             *)
SearchFinds ==
  \A p \in Procs : area[p].read => \A u \in Ids : Finds(area[p], u)

(* No number reaches behind the table of active messages, however old      *)
(* num_msg and the table are, whatever was killed, read anew and rewritten *)
(* in between -- but for that of a JamKillMsg before the table is read:    *)
(* num_msg is then what the header info says, is corrected by the reading, *)
(* and only OpenMsg checks its number again (api_jam.c 151, 1079, 1697).   *)
OnlyKillGoesWild ==
  [][wild' # wild => \E p \in Procs, n \in Ids :
                       ~area[p].read /\ KillMsg(p, n)]_vars
=============================================================================
