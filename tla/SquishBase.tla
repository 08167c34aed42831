---------------------------- MODULE SquishBase ----------------------------
(* The message base of a Squish area: the frames of the .sqd file in their *)
(* two doubly linked chains (messages, free space), the index records of   *)
(* the .sqi file, the header fields, and the cursor and the message        *)
(* handles the API keeps in memory (src/src/sq_msg.c, sq_write.c,          *)
(* sq_kill.c, sq_help.c, sq_misc.c and the unbuffered half of sq_idx.c).   *)
(*                                                                         *)
(* One process has the area open and each API call is one step; SquishLock *)
(* is about several processes.  A frame is named by its ordinal, not by    *)
(* its byte offset, a length is a member of Sizes, and of a message only   *)
(* the id that WriteXmsg stores in its frame is kept.                      *)
(*                                                                         *)
(* `base' is everything but the message handles.  The operators that       *)
(* change it take a base and return one, in the order of the C calls; the  *)
(* field `ok' is the TRUE/FALSE those calls return.                        *)
EXTENDS Integers, Sequences, FiniteSets

CONSTANTS
  Handles,    \* message handles the application may have open
  MaxFrames,  \* bound: frames in the .sqd file
  MaxUid,     \* bound: message ids assigned
  Sizes,      \* lengths a message can have
  Limits,     \* <<max, skip>> pairs the application may pass to SetMaxMsg
  Marks,      \* does the application set the high water mark?
  Polite,     \* no kill or create while a message is open for writing, no
              \* closing of a message being replaced before it is written,
              \* and no second try of a write that failed
  DiskFull    \* where the disk may be full: at the allocation of a "frame",
              \* at the writing of a message "body"

ASSUME SizesAssumption ==
  /\ MaxFrames \in Nat /\ MaxUid \in Nat
  /\ Sizes \subseteq Nat
  /\ Limits \subseteq Nat \X Nat
  /\ DiskFull \subseteq {"frame", "body"}

VARIABLES base, handle

vars == <<base, handle>>

NULL_FRAME == 0
Frames == 1 .. MaxFrames
Ofs    == Frames \cup {NULL_FRAME}

NoUid == MaxUid + 2      \* (UMSGID)-1, above every real id
Uids  == 0 .. NoUid

(* SQHDR; "none" is a frame that was allocated but has no header yet.      *)
Hdr == [type : {"none", "normal", "free", "update"},
        prev : Ofs, next : Ofs, cap : Sizes \cup {0}, len : Sizes \cup {0}]
NoHdr == [type |-> "none", prev |-> NULL_FRAME, next |-> NULL_FRAME,
          cap |-> 0, len |-> 0]

SQIDX == [ofs : Ofs, uid : Uids]
Blank == [ofs |-> NULL_FRAME, uid |-> NoUid]
Zero  == [ofs |-> NULL_FRAME, uid |-> 0]

Closed == [mode |-> "closed", msg |-> 0, foRead |-> NULL_FRAME, rd |-> NoHdr,
           foWrite |-> NULL_FRAME, uid |-> 0, written |-> FALSE]

Init ==
  /\ base = [frame |-> [f \in Frames |-> NoHdr],
             body |-> [f \in Frames |-> 0],
             idx |-> <<>>, num |-> 0, uidNext |-> 1,
             first |-> NULL_FRAME, last |-> NULL_FRAME,
             free |-> NULL_FRAME, lastFree |-> NULL_FRAME, end |-> 1,
             max |-> 0, skip |-> 0, hwm |-> 0,
             cur |-> 0, foCur |-> NULL_FRAME, foPrev |-> NULL_FRAME,
             foNext |-> NULL_FRAME, ok |-> TRUE]
  /\ handle = [h \in Handles |-> Closed]

(* A handle of a create; "failed" once a write through it went wrong.      *)
Creating(h) == handle[h].mode \in {"create", "failed"}

MayWrite(h) == handle[h].mode = "failed" => ~Polite

---------------------------------------------------------------------------
(***************************************************************************)
(* Frames and chains.                                                      *)
(***************************************************************************)
Fail(b) == [b EXCEPT !.ok = FALSE]

(* _SquishReadHdr finds a header at f.                                     *)
Readable(b, f) == f \in Frames /\ f < b.end /\ b.frame[f].type # "none"

SetFrameNext(b, f, v) ==
  IF Readable(b, f) THEN [b EXCEPT !.frame[f].next = v] ELSE Fail(b)

SetFramePrev(b, f, v) ==
  IF Readable(b, f) THEN [b EXCEPT !.frame[f].prev = v] ELSE Fail(b)

(* Link the neighbours that h names over the frame it belongs to.          *)
BypassForward(b, h) ==
  IF h.prev # NULL_FRAME THEN SetFrameNext(b, h.prev, h.next) ELSE b

BypassBackward(b, h) ==
  IF h.next # NULL_FRAME THEN SetFramePrev(b, h.next, h.prev) ELSE b

Bypass(b, h) ==
  LET c == BypassForward(b, h)
  IN IF c.ok THEN BypassBackward(c, h) ELSE c

InsertUnmarked(b, f, h) ==
  LET c == IF b.lastFree = NULL_FRAME THEN [b EXCEPT !.free = f]
           ELSE SetFrameNext(b, b.lastFree, f)
  IN [c EXCEPT !.frame[f] = [h EXCEPT !.next = NULL_FRAME, !.prev = b.lastFree],
               !.lastFree = f]

InsertFreeChain(b, f, h) ==
  LET c == IF b.lastFree = NULL_FRAME THEN [b EXCEPT !.free = f]
           ELSE SetFrameNext(b, b.lastFree, f)
      freed == [h EXCEPT !.type = "free", !.len = 0, !.next = NULL_FRAME,
                         !.prev = b.lastFree]
  IN IF c.ok THEN [c EXCEPT !.frame[f] = freed, !.lastFree = f] ELSE c

(* The n'th frame a walk of the free chain comes to.                       *)
FreeWalk(b) ==
  LET w[n \in 0 .. MaxFrames] ==
        IF n = 0 THEN b.free
        ELSE IF w[n-1] = NULL_FRAME THEN NULL_FRAME
        ELSE b.frame[w[n-1]].next
  IN w

(* _SquishProbeFreeChain, first fit: the frames before the one it returns  *)
(* are too short, and every frame it looks at is checked.                  *)
Fits(b, f, len) == b.frame[f].cap >= len

ProbeFreeChain(b, len) ==
  LET w == FreeWalk(b)
  IN {f \in Frames : \E n \in 0 .. MaxFrames - 1 :
        w[n] = f /\ Fits(b, f, len)
        /\ \A j \in 0 .. n - 1 : ~Fits(b, w[j], len)}

ProbeFails(b, len) ==
  LET w == FreeWalk(b)
  IN \E n \in 0 .. MaxFrames :
       /\ w[n] # NULL_FRAME
       /\ \A j \in 0 .. n - 1 : ~Fits(b, w[j], len)
       /\ \/ ~Readable(b, w[n])
          \/ b.frame[w[n]].type # "free"
          \/ b.frame[w[n]].prev # (IF n = 0 THEN NULL_FRAME ELSE w[n-1])
          \/ b.frame[w[n]].next = w[n]

RemoveFreeHeadOnly(b, f) ==
  LET h == b.frame[f]
      c == Bypass(b, h)
  IN [c EXCEPT !.free = IF b.free = f THEN h.next ELSE @]

RemoveFreeChain(b, f) ==
  LET h == b.frame[f]
      c == Bypass(b, h)
  IN IF \/ h.prev = NULL_FRAME /\ f # b.free
        \/ h.next = NULL_FRAME /\ f # b.lastFree
     THEN Fail(b)
     ELSE IF ~c.ok THEN c
     ELSE [c EXCEPT !.free = IF b.free = f THEN h.next ELSE @,
                    !.lastFree = IF b.lastFree = f THEN h.prev ELSE @]

---------------------------------------------------------------------------
(***************************************************************************)
(* The index file and the cursor.                                          *)
(***************************************************************************)
PutIndex(b, m, r) ==
  [b EXCEPT !.idx =
     [i \in 1 .. (IF m > Len(@) THEN m ELSE Len(@)) |->
        IF i = m THEN r ELSE IF i <= Len(@) THEN @[i] ELSE Zero]]

(* Shift the records above m down; the file keeps its length.              *)
RemoveNextEntry(b, m) ==
  [b EXCEPT !.idx =
     [i \in 1 .. Len(@) |-> IF i <= m THEN @[i]
                            ELSE IF i < Len(@) THEN @[i+1] ELSE Blank]]

RemoveIndexEntry(b, m) ==
  [b EXCEPT !.idx =
     [i \in 1 .. Len(@) |-> IF i < m THEN @[i]
                            ELSE IF i < Len(@) THEN @[i+1] ELSE Blank]]

GetFrameOfs(b, m) ==
  CASE m = b.cur     -> b.foCur
    [] m = b.cur - 1 -> b.foPrev
    [] m = b.cur + 1 -> b.foNext
    [] OTHER -> IF m <= Len(b.idx) THEN b.idx[m].ofs ELSE NULL_FRAME

(* _SquishFixMemoryPointers after message m, with header h, has gone.      *)
FixAnyCursor(b, m, h) ==
  [b EXCEPT !.first = IF m = 1 THEN h.next ELSE @,
            !.last = IF m = b.num THEN h.prev ELSE @,
            !.cur = @ - 1, !.num = @ - 1]

FixHeaderOnly(b, m, h) ==
  [b EXCEPT !.first = IF m = 1 THEN h.next ELSE @,
            !.last = IF m = b.num THEN h.prev ELSE @,
            !.cur = IF @ >= m THEN @ - 1 ELSE @,
            !.num = @ - 1]

FixMemoryPointers(b, m, h) ==
  LET onIt  == m = b.cur
      prior == Readable(b, h.prev)
      first == IF m = 1 THEN h.next ELSE b.first
  IN [b EXCEPT
       !.first = first,
       !.last = IF m = b.num THEN h.prev ELSE @,
       !.foCur = IF ~onIt THEN @ ELSE IF prior THEN h.prev ELSE NULL_FRAME,
       !.foPrev = IF onIt
                  THEN IF prior THEN b.frame[h.prev].prev ELSE NULL_FRAME
                  ELSE IF m = b.cur - 1 THEN h.prev ELSE @,
       !.foNext = IF onIt
                  THEN IF prior THEN b.frame[h.prev].next ELSE first
                  ELSE IF m = b.cur + 1 THEN h.next ELSE @,
       !.cur = IF onIt /\ ~prior THEN 0 ELSE IF @ >= m THEN @ - 1 ELSE @,
       !.num = @ - 1,
       !.hwm = IF @ >= m THEN @ - 1 ELSE @]

ResetCursor(b) ==
  [b EXCEPT !.cur = 0, !.foCur = NULL_FRAME, !.foPrev = NULL_FRAME,
            !.foNext = b.first]

---------------------------------------------------------------------------
(***************************************************************************)
(* _SquishReduceMaxMsgs: make room for one message below the limit by      *)
(* moving the oldest ones after the first skip ones to the free chain.     *)
(***************************************************************************)
OverLimit(b) == b.max # 0 /\ b.num >= b.max /\ b.num > b.skip

SurplusOneShort(b) == b.num - b.max

Surplus(b) == b.num - b.max + 1

(* How many can be moved before a record or a frame turns out unreadable.  *)
Droppable(b) ==
  CHOOSE k \in 0 .. Surplus(b) :
    /\ \A j \in 1 .. k : b.skip + j <= b.num
                         /\ Readable(b, b.idx[b.skip + j].ofs)
    /\ k < Surplus(b) => ~ (b.skip + k + 1 <= b.num
                            /\ Readable(b, b.idx[b.skip + k + 1].ofs))

(* The frames of the first d messages after skip, appended to the free     *)
(* chain one after the other ...                                           *)
DropLinks(b, d) ==
  LET drop(j) == b.idx[b.skip + j].ofs
      place(f) == CHOOSE j \in 1 .. d : drop(j) = f
      dropped == {drop(j) : j \in 1 .. d}
      freed(f) == [b.frame[f] EXCEPT
                     !.type = "free", !.len = 0,
                     !.prev = IF place(f) = 1 THEN b.lastFree
                              ELSE drop(place(f) - 1),
                     !.next = IF place(f) = d THEN NULL_FRAME
                              ELSE drop(place(f) + 1)]
  IN [f \in Frames |->
        IF f \in dropped THEN freed(f)
        ELSE IF f = b.lastFree /\ d > 0
             THEN [b.frame[f] EXCEPT !.next = drop(1)] ELSE b.frame[f]]

DropKeepsTail(b, d) ==
  [b EXCEPT !.frame = DropLinks(b, d),
            !.free = IF @ = NULL_FRAME /\ d > 0 THEN b.idx[b.skip + 1].ofs
                     ELSE @]

DropFrames(b, d) ==
  [b EXCEPT !.frame = DropLinks(b, d),
            !.free = IF @ = NULL_FRAME /\ d > 0 THEN b.idx[b.skip + 1].ofs
                     ELSE @,
            !.lastFree = IF d > 0 THEN b.idx[b.skip + d].ofs ELSE @]

(* ... and the index without their records.                                *)
DropMessages(b, d) ==
  [DropFrames(b, d) EXCEPT
     !.num = @ - (IF d < Surplus(b) THEN d + 1 ELSE d),
     !.idx = IF d = 0 THEN SubSeq(@, 1, b.num - 1)
             ELSE [i \in 1 .. b.num |->
                     IF i <= b.skip THEN @[i]
                     ELSE IF i + d <= b.num THEN @[i + d] ELSE Blank],
     !.ok = d = Surplus(b)]

(* _SquishReduceMaxPointers: `first' follows the dropped range, `before'   *)
(* is the last message in front of it; the links ...                       *)
ReduceLinksForward(b, first, before) ==
  IF b.skip = 0 THEN [b EXCEPT !.first = first]
  ELSE SetFrameNext(b, before, first)

ReduceLinks(b, first, before) ==
  LET c == IF b.skip = 0 THEN [b EXCEPT !.first = first]
           ELSE SetFrameNext(b, before, first)
  IN SetFramePrev(c, first, IF b.skip = 0 THEN NULL_FRAME ELSE before)

(* ... the cursor, which moves to the last skipped message when its own    *)
(* message was dropped ...                                                 *)
CursorStays(b, first, d) == b

ReduceCursor(b, first, d) ==
  LET inside == b.cur > b.skip /\ b.cur <= b.skip + d
      skipOfs == IF b.skip = 0 THEN NULL_FRAME ELSE GetFrameOfs(b, b.skip)
      onSkip == inside /\ Readable(b, skipOfs)
  IN IF onSkip
     THEN [b EXCEPT !.cur = b.skip, !.foCur = skipOfs,
                    !.foPrev = b.frame[skipOfs].prev,
                    !.foNext = b.frame[skipOfs].next]
     ELSE IF inside THEN ResetCursor(b)
     ELSE [b EXCEPT
            !.foPrev = IF b.cur = b.skip + d + 1 THEN skipOfs ELSE @,
            !.foNext = IF b.cur = b.skip THEN first ELSE @,
            !.cur = IF @ > b.skip THEN @ - d ELSE @]

(* ... and the high water mark.                                            *)
LowerMarkAlways(b, d) == IF b.hwm - d < b.skip THEN b.skip ELSE b.hwm - d

LowerMark(b, d) ==
  IF b.hwm < b.skip THEN b.hwm
  ELSE IF b.hwm - d < b.skip THEN b.skip ELSE b.hwm - d

ReduceMaxMsgs(b) ==
  IF ~OverLimit(b) THEN b
  ELSE IF Len(b.idx) < b.num THEN Fail(b)
  ELSE LET d == Droppable(b)
           dropped(j) == b.frame[b.idx[b.skip + j].ofs]
           first  == IF d = 0 THEN NULL_FRAME ELSE dropped(d).next
           before == IF d = 0 THEN NULL_FRAME ELSE dropped(1).prev
           c == ReduceLinks(DropMessages(b, d), first, before)
       IN [ReduceCursor(c, first, d) EXCEPT !.hwm = LowerMark(b, d)]

---------------------------------------------------------------------------
(***************************************************************************)
(* The API calls.  One that fails before it has changed anything is no     *)
(* step at all.                                                            *)
(***************************************************************************)
Becomes(b) == base' = [b EXCEPT !.ok = TRUE]

Writers == {h \in Handles : handle[h].mode # "closed"}

(* The application leaves the numbering alone while it is writing.         *)
MayRenumber == Polite => Writers = {}

(* apiSquishOpenMsg(MOPEN_CREATE) of a new message (dwMsg 0 or above       *)
(* num_msg): the header and the index show it at once.                     *)
OpenCreateNew(h) ==
  LET b == ReduceMaxMsgs(base)
      m == b.num + 1
      u == b.uidNext
      c == PutIndex(b, m, [ofs |-> NULL_FRAME, uid |-> u])
  IN /\ handle[h].mode = "closed" /\ MayRenumber
     /\ base.uidNext <= MaxUid /\ base.num >= 0
     /\ IF b.ok
        THEN /\ base' = [c EXCEPT !.num = m, !.uidNext = u + 1]
             /\ handle' = [handle EXCEPT ![h] =
                             [Closed EXCEPT !.mode = "create", !.msg = m,
                                            !.uid = u]]
        ELSE Becomes(b) /\ UNCHANGED handle

(* The same over message m: its record loses the frame but keeps the id,   *)
(* its frame is marked as being updated.                                   *)
OpenCreateOver(h, m) ==
  LET r  == base.idx[m]
      rd == [base.frame[r.ofs] EXCEPT !.type = "update"]
  IN /\ handle[h].mode = "closed" /\ MayRenumber
     /\ m \in 1 .. base.num /\ m <= Len(base.idx)
     /\ Readable(base, r.ofs) /\ base.frame[r.ofs].type # "update"
     /\ base' = [base EXCEPT !.idx[m].ofs = NULL_FRAME, !.frame[r.ofs] = rd]
     /\ handle' = [handle EXCEPT ![h] =
                     [Closed EXCEPT !.mode = "create", !.msg = m,
                                    !.foRead = r.ofs, !.rd = rd,
                                    !.uid = r.uid]]

(* _SquishOpenMsgExisting: message m becomes the current one.              *)
Visit(m) ==
  LET f == GetFrameOfs(base, m)
      hdr == base.frame[f]
  IN /\ m \in 1 .. base.num
     /\ Readable(base, f)
     /\ hdr.next <= base.end /\ hdr.prev <= base.end
     /\ hdr.type = "normal"
     /\ base' = [base EXCEPT !.cur = m, !.foCur = f, !.foPrev = hdr.prev,
                             !.foNext = hdr.next]

(* apiSquishOpenMsg for reading: all the base keeps of it is the cursor,   *)
(* so the handle is not followed any further.                              *)
OpenRead(m) == Visit(m) /\ UNCHANGED handle

(* apiSquishOpenMsg for updating (MOPEN_RW, MOPEN_WRITE).                  *)
OpenUpdate(h, m) ==
  LET f == GetFrameOfs(base, m)
  IN /\ handle[h].mode = "closed" /\ MayRenumber
     /\ Visit(m)
     /\ handle' = [handle EXCEPT ![h] =
                     [Closed EXCEPT !.mode = "rw", !.msg = m,
                                    !.foRead = f, !.rd = base.frame[f]]]

(* The same for message 0, which fails but moves the cursor.               *)
OpenMsgZero ==
  /\ base' = ResetCursor(base)
  /\ UNCHANGED handle

(* _SquishLinkMessageFrame: frame f becomes the message of handle record r.*)
LinkMessageFrame(b, r, f, hdr) ==
  LET over == r.foRead # NULL_FRAME
      w == [hdr EXCEPT !.type = "normal",
                       !.prev = IF over THEN r.rd.prev ELSE b.last,
                       !.next = IF over THEN r.rd.next ELSE NULL_FRAME]
      c0 == IF over /\ w.next # NULL_FRAME THEN SetFramePrev(b, w.next, f)
            ELSE b
      c == IF c0.ok /\ w.prev # NULL_FRAME THEN SetFrameNext(c0, w.prev, f)
           ELSE c0
  IN IF ~c.ok THEN c
     ELSE [c EXCEPT
            !.frame[f] = w,
            !.first = IF w.prev = NULL_FRAME THEN f ELSE @,
            !.last = IF w.next = NULL_FRAME THEN f ELSE @,
            !.foCur = IF r.msg = b.cur THEN f ELSE @,
            !.foNext = IF r.msg = b.cur + 1 THEN f ELSE @,
            !.foPrev = IF r.msg = b.cur - 1 THEN f ELSE @]

(* _SquishGetWriteFrame of a handle that creates a message: the replaced   *)
(* frame is freed first and may be found again.  got = 0 on failure.       *)
GetWriteFrame(b0, r, len, full) ==
  LET b == IF r.foRead = NULL_FRAME THEN b0
           ELSE InsertFreeChain(b0, r.foRead, r.rd)
      found == ProbeFreeChain(b, len)
      hdr(cap) == [NoHdr EXCEPT !.cap = cap, !.len = len]
      recover(c) ==
        IF r.foRead = NULL_FRAME THEN c
        ELSE LET c1 == IF Readable(c, r.rd.prev)
                       THEN SetFrameNext(c, r.rd.prev, r.rd.next) ELSE c
                 c2 == IF Readable(c1, r.rd.next)
                       THEN SetFramePrev(c1, r.rd.next, r.rd.prev) ELSE c1
             IN FixMemoryPointers(RemoveIndexEntry(c2, r.msg), r.msg, r.rd)
      linked(c, f, cap) ==
        LET d == LinkMessageFrame(c, r, f, hdr(cap))
        IN [b |-> d, got |-> IF d.ok THEN f ELSE NULL_FRAME]
      lost(c) == [b |-> c, got |-> NULL_FRAME]
  IN IF ~b.ok THEN lost(b)
     ELSE IF ProbeFails(b, len) THEN lost(recover(b))
     ELSE IF found # {}
          THEN LET f == CHOOSE f \in found : TRUE
                   c == RemoveFreeChain(b, f)
               IN IF c.ok THEN linked(c, f, b.frame[f].cap)
                  ELSE lost(recover(c))
     ELSE IF full \/ b.end > MaxFrames THEN lost(recover(b))
     ELSE linked([b EXCEPT !.end = @ + 1], b.end, len)

(* The rest of apiSquishWriteMsg: the id goes into the frame, the frame    *)
(* into the index record that hmsg->dwMsg names now.                       *)
StoreMessage(b, h, f) ==
  LET r == handle[h]
      u == IF r.uid # 0 \/ r.msg > Len(b.idx) THEN r.uid ELSE b.idx[r.msg].uid
      c == [b EXCEPT !.body[f] = u]
  IN /\ Becomes(IF r.msg <= Len(b.idx)
                THEN [c EXCEPT !.idx[r.msg].ofs = f] ELSE c)
     /\ handle' = [handle EXCEPT ![h].foWrite = f, ![h].uid = u,
                                 ![h].written = TRUE]

(* First write of a created message; `full' is a full disk at the          *)
(* allocation of the frame, `cut' one at the writing of its contents.      *)
(* Bound: a num_msg of -1 (2^32 - 1 in the code), which a second try can   *)
(* lead to, is not followed any further.                                   *)
WriteNew(h, len, full, cut) ==
  LET g == GetWriteFrame(base, handle[h], len, full)
  IN /\ Creating(h) /\ MayWrite(h) /\ handle[h].foWrite = NULL_FRAME
     /\ base.num >= 0
     /\ full => "frame" \in DiskFull
     /\ cut => "body" \in DiskFull
     /\ base.end > MaxFrames => full \/ g.got # NULL_FRAME
     /\ IF g.got # NULL_FRAME /\ ~cut
        THEN StoreMessage(g.b, h, g.got)
        ELSE /\ Becomes(g.b)
             /\ handle' = [handle EXCEPT ![h].foWrite = g.got,
                                         ![h].mode = "failed"]

(* Writing through a handle that has its frame: a later part of a created  *)
(* message, or an update that fits the frame.                              *)
Rewrite(h, len) ==
  LET r == handle[h]
  IN \/ /\ Creating(h) /\ MayWrite(h) /\ r.foWrite # NULL_FRAME
        /\ StoreMessage(base, h, r.foWrite)
     \/ /\ r.mode = "rw" /\ len <= r.rd.len
        /\ StoreMessage(base, h, r.foRead)

(* apiSquishCloseMsg, with the undo of a create that was never written.    *)
CloseMsg(h) ==
  LET r == handle[h]
      undo == Creating(h) /\ ~r.written /\ r.msg = base.num
  IN /\ r.mode # "closed"
     /\ Polite => ~ /\ r.mode = "create" /\ r.foRead # NULL_FRAME
                    /\ ~r.written
                    /\ r.msg <= Len(base.idx) /\ base.idx[r.msg].uid = r.uid
     /\ base' = IF undo THEN [base EXCEPT !.num = @ - 1] ELSE base
     /\ handle' = [handle EXCEPT ![h] = Closed]

(* apiSquishKillMsg.                                                       *)
KillMsg(m) ==
  LET f == GetFrameOfs(base, m)
      hdr == base.frame[f]
      b == Bypass(base, hdr)
      c == FixMemoryPointers(RemoveIndexEntry(b, m), m, hdr)
  IN /\ MayRenumber
     /\ m \in 1 .. base.num
     /\ Readable(base, f)
     /\ Becomes(IF b.ok THEN InsertFreeChain(c, f, hdr) ELSE b)
     /\ UNCHANGED handle

SetMaxMsg(max, skip) ==
  /\ <<max, skip>> # <<base.max, base.skip>>
  /\ base' = [base EXCEPT !.max = max, !.skip = skip]
  /\ UNCHANGED handle

(* What is stored is the id of message m, not its number.                  *)
SetHighWater(m) ==
  /\ Marks /\ m \in 0 .. base.num /\ m <= Len(base.idx)
  /\ base' = [base EXCEPT !.hwm = IF m = 0 THEN 0 ELSE base.idx[m].uid]
  /\ UNCHANGED handle

(* apiSquishCloseArea, once the messages are closed, and SquishOpenArea.   *)
Reopen ==
  /\ \A h \in Handles : handle[h].mode = "closed"
  /\ base' = ResetCursor(base)
  /\ UNCHANGED handle

Next ==
  \/ \E h \in Handles :
       \/ OpenCreateNew(h)
       \/ CloseMsg(h)
       \/ \E m \in 1 .. base.num :
            \/ OpenCreateOver(h, m)
            \/ OpenUpdate(h, m)
       \/ \E len \in Sizes :
            \/ Rewrite(h, len)
            \/ \E full, cut \in BOOLEAN : WriteNew(h, len, full, cut)
  \/ \E m \in 1 .. base.num : KillMsg(m) \/ OpenRead(m)
  \/ \E m \in 0 .. base.num : SetHighWater(m)
  \/ \E l \in Limits : SetMaxMsg(l[1], l[2])
  \/ OpenMsgZero
  \/ Reopen

Spec == Init /\ [][Next]_vars

---------------------------------------------------------------------------
(***************************************************************************)
(* What the calls maintain.                                                *)
(***************************************************************************)
(* A created message that has not got its frame yet.                       *)
Pending(h) == Creating(h) /\ handle[h].foWrite = NULL_FRAME

PendingOn(i) == \E h \in Handles : Pending(h) /\ handle[h].msg = i

(* The frame of message i in the message chain: the one its index record   *)
(* names, or the one about to be replaced.                                 *)
Carrier(i) ==
  IF PendingOn(i)
  THEN handle[CHOOSE h \in Handles : Pending(h) /\ handle[h].msg = i].foRead
  ELSE base.idx[i].ofs

(* Messages in the chain: all but a new one that is still to be written.   *)
Stored == IF base.num > 0 /\ PendingOn(base.num)
             /\ Carrier(base.num) = NULL_FRAME
          THEN base.num - 1 ELSE base.num

Msg(i) == IF i \in 1 .. Stored THEN Carrier(i) ELSE NULL_FRAME

MsgFrames  == {Msg(i) : i \in 1 .. Stored}
FreeFrames == {f \in Frames : f < base.end /\ base.frame[f].type = "free"}

(* Every field keeps to its type.                                          *)
BaseType ==
  [frame : [Frames -> Hdr], body : [Frames -> Uids], idx : Seq(SQIDX),
   num : Int, uidNext : 1 .. MaxUid + 1,
   first : Ofs, last : Ofs, free : Ofs, lastFree : Ofs,
   end : 1 .. MaxFrames + 1, max : Nat, skip : Nat, hwm : Nat,
   cur : Nat, foCur : Ofs, foPrev : Ofs, foNext : Ofs, ok : BOOLEAN]

HandleType ==
  [mode : {"closed", "rw", "create", "failed"}, msg : Int, foRead : Ofs,
   rd : Hdr, foWrite : Ofs, uid : Uids, written : BOOLEAN]

TypeOK == base \in BaseType /\ handle \in [Handles -> HandleType]

(* Reading the index from 1 to num_msg and following the message chain     *)
(* from begin_frame to last_frame visit the same frames in the same order, *)
(* with every back link in place (sq_write.c 236-322, sq_kill.c 63-92,     *)
(* sq_msg.c 327-432 each mend a part of this).                             *)
ChainMatchesIndex ==
  /\ Len(base.idx) >= base.num
  /\ base.first = Msg(1)
  /\ base.last = Msg(Stored)
  /\ \A i \in 1 .. Stored :
       /\ Readable(base, Msg(i))
       /\ base.frame[Msg(i)].type = IF PendingOn(i) THEN "update" ELSE "normal"
       /\ base.frame[Msg(i)].prev = Msg(i - 1)
       /\ base.frame[Msg(i)].next = Msg(i + 1)

(* The free chain runs from free_frame to last_free_frame through every    *)
(* free frame, forwards and backwards, so that _SquishProbeFreeChain never *)
(* meets what it would refuse as a damaged base.                           *)
FreeChainSound ==
  LET w == FreeWalk(base)
      n == Cardinality(FreeFrames)
  IN /\ {w[j] : j \in 0 .. n - 1} = FreeFrames
     /\ w[n] = NULL_FRAME
     /\ base.lastFree = IF n = 0 THEN NULL_FRAME ELSE w[n-1]
     /\ \A j \in 0 .. n - 1 :
          base.frame[w[j]].prev = IF j = 0 THEN NULL_FRAME ELSE w[j-1]

(* No frame of the file is lost, and none is in both chains: what is       *)
(* deleted or replaced can be used again.                                  *)
NoFrameLost ==
  /\ MsgFrames \cup FreeFrames = 1 .. base.end - 1
  /\ MsgFrames \cap FreeFrames = {}

(* The cursor's shortcut (sq_help.c 216-227) finds the frame the index     *)
(* would have given, whatever was killed, replaced or added around it.     *)
CursorMatchesIndex ==
  /\ base.cur \in 0 .. Stored
  /\ base.foCur = Msg(base.cur)
  /\ base.foPrev = Msg(base.cur - 1)
  /\ base.foNext = Msg(base.cur + 1)

(* Ids grow along the index and stay below the next one to be assigned, as *)
(* the binary search of UidToMsgn needs, and each frame carries the id of  *)
(* its index record, as rebuilding the index needs (sq_write.c 430-444).   *)
UidsAgree ==
  /\ \A i, j \in 1 .. base.num : i < j => base.idx[i].uid < base.idx[j].uid
  /\ \A i \in 1 .. base.num : base.idx[i].uid < base.uidNext
  /\ \A i \in 1 .. base.num :
       base.idx[i].ofs # NULL_FRAME =>
         base.body[base.idx[i].ofs] = base.idx[i].uid

(* The message list a reader of the chain sees: the ids in the frames from *)
(* begin_frame on.                                                         *)
MsgWalk(b) ==
  LET w[n \in 0 .. MaxFrames] ==
        IF n = 0 THEN b.first
        ELSE IF w[n-1] = NULL_FRAME THEN NULL_FRAME
        ELSE b.frame[w[n-1]].next
  IN w

ChainLength(b) ==
  Cardinality({n \in 0 .. MaxFrames - 1 : MsgWalk(b)[n] # NULL_FRAME})

StoredIds == [i \in 1 .. ChainLength(base) |-> base.body[MsgWalk(base)[i - 1]]]

(* The base as a list of messages: a call appends one, removes one, or     *)
(* drops the oldest ones, and nothing else ever happens to the list.       *)
Area == INSTANCE MessageArea
          WITH msgs <- StoredIds, next <- base.uidNext,
               max <- base.max, skip <- base.skip
AreaSpec == Area!Spec

(* No kill and no dropped message makes the high water mark cover a        *)
(* message it did not cover: a program that resumes at the mark never      *)
(* passes over a message it has not seen (sq_help.c 329-333, sq_msg.c      *)
(* 409-429).  Covered are the ids up to the mark, as GetHighWater reads it.*)
MarkNeverSkipsAhead ==
  [][\/ \A i \in 1 .. base'.num :
          base'.idx[i].uid <= base'.hwm => base'.idx[i].uid <= base.hwm
     \/ \E m \in 0 .. base.num : SetHighWater(m)]_vars

---------------------------------------------------------------------------
(***************************************************************************)
(* What a comment of the source says, and the calls do not keep.           *)
(***************************************************************************)
(* A message whose frame becomes the last one was either added or has      *)
(* replaced the last one (sq_write.c 296-300).                             *)
TailIsReplaced ==
  [][\A h \in Handles :
       LET r == handle'[h]
       IN r.mode = "create" /\ r.foWrite # handle[h].foWrite
          /\ r.foWrite = base'.last /\ r.foRead # NULL_FRAME
          => r.foRead = base.last]_vars
===========================================================================
