---------------------------- MODULE SquishIndex ----------------------------
(* The index of a Squish area (src/src/sq_idx.c): the .sqi file, shared by *)
(* the processes that have the area open, and for each of them the buffer  *)
(* that Lock, UidToMsgn and the message limit read it into: a list of      *)
(* segments and the range of records to write back at the end.             *)
(*                                                                         *)
(* Each API call is one step, and a message may be written or abandoned as *)
(* long as its record names no frame; that the calls which change the      *)
(* number of messages exclude each other and start from the header on disk *)
(* is SquishLock's business, and what is in the frames SquishBase's.       *)
EXTENDS Integers, Sequences, SequencesExt

CONSTANTS
  Handles,      \* openings of the area
  NoHandle,     \* nobody has the area locked
  SegmentSize,  \* records that fill a segment
  MoreSpace,    \* records a segment grows by
  Ahead,        \* records the file is extended by when it is too short (64)
  Limits,       \* <<max, skip>> pairs the area is given with SetMaxMsg: at
                \* most max messages (0: any number), the first skip stay
  MaxUid        \* bound: ids assigned

ASSUME IndexAssumption ==
  /\ NoHandle \notin Handles
  /\ SegmentSize \in Nat \ {0} /\ MoreSpace \in Nat \ {0}
  /\ Ahead \in Nat \ {0}
  /\ Limits \subseteq Nat \X Nat /\ MaxUid \in Nat

VARIABLES
  file,    \* the records of the .sqi file
  hdr,     \* num_msg in the header on disk
  next,    \* uid in the header on disk
  locked,  \* the handle whose MsgLock holds the area
  ix       \* of each handle: num_msg and its HIDX

vars == <<file, hdr, next, locked, ix>>

(* SQIDX: an id, and whether the record names a frame.                     *)
NoUid == 0
Record == [ofs : BOOLEAN, uid : 0 .. MaxUid]
Blank == [ofs |-> FALSE, uid |-> NoUid]
Zero  == Blank      \* what the system fills a gap with; no message either

(* lDeltaLo and lDeltaHi are NoDelta until something is stored.            *)
NoDelta == -1

(* In the shape of struct _sqidx: buf is fBuffer, alloc lAllocatedRecords. *)
Opened(n) == [num |-> n, buf |-> 0, seg |-> <<>>, alloc |-> 0,
              lo |-> NoDelta, hi |-> NoDelta]

Init ==
  /\ file = <<>> /\ hdr = 0 /\ next = 1 /\ locked = NoHandle
  /\ ix = [h \in Handles |-> Opened(0)]

Least(a, b) == IF a <= b THEN a ELSE b
Most(a, b)  == IF a <= b THEN b ELSE a

---------------------------------------------------------------------------
(***************************************************************************)
(* The buffer.  The operators take x, the HIDX of a handle, and the file f *)
(* as a pair s = [x |-> .., f |-> ..] and return one; `ok' is their return *)
(* value.                                                                  *)
(***************************************************************************)
Segments(x) == [i \in DOMAIN x.seg |-> x.seg[i].recs]
Buffered(x) == FlattenSeq(Segments(x))

(* What SidxGet of the handle sees.                                        *)
Virtual(x, f) == IF x.buf = 0 THEN f ELSE Buffered(x)

(* The number of records in the segments before the i'th.                  *)
Before(x, i) == Len(FlattenSeq(SubSeq(Segments(x), 1, i - 1)))

SegmentsOf(x, n) ==
  {i \in DOMAIN x.seg : Before(x, i) < n /\ n <= Before(x, i) + Len(x.seg[i].recs)}

SetSize(f, n) == [i \in 1 .. n |-> IF i <= Len(f) THEN f[i] ELSE Zero]

WriteAt(f, n, rs) ==
  [i \in 1 .. Most(Len(f), n + Len(rs) - 1) |->
     IF i >= n /\ i < n + Len(rs) THEN rs[i - n + 1]
     ELSE IF i <= Len(f) THEN f[i] ELSE Zero]

(* Segment i of an index of n messages as read from the file.              *)
ReadSegment(f, n, i) ==
  LET first == (i - 1) * SegmentSize
  IN [max  |-> Least(n - first + MoreSpace, SegmentSize),
      recs |-> SubSeq(f, first + 1, Least(first + SegmentSize, n))]

BeginBuffer(s) ==
  IF s.x.buf # 0 THEN [s EXCEPT !.x.buf = @ + 1]
  ELSE IF Len(s.f) < s.x.num THEN [s EXCEPT !.ok = FALSE]
  ELSE [s EXCEPT !.x.buf = 1, !.x.alloc = Len(s.f),
                 !.x.seg = [i \in 1 .. s.x.num \div SegmentSize + 1 |->
                              ReadSegment(s.f, s.x.num, i)]]

(* The file grows ahead of the buffer.                                     *)
Extend(s) ==
  IF s.x.num <= s.x.alloc THEN s
  ELSE [s EXCEPT !.x.alloc = s.x.num + Ahead,
                 !.f = WriteAt(@, s.x.num + Ahead, <<Blank>>)]

AppendNoGrow(s, r) ==
  LET last == Len(s.x.seg)
  IN [s EXCEPT !.x.seg[last].recs = Append(@, r)]

AppendIndexRecord(s, r) ==
  LET e    == Extend(s)
      last == Len(e.x.seg)
      used == Len(e.x.seg[last].recs)
      max  == e.x.seg[last].max
  IN IF last > 0 /\ used < max
     THEN [e EXCEPT !.x.seg[last].recs = Append(@, r)]
     ELSE IF last > 0 /\ max < SegmentSize
     THEN [e EXCEPT !.x.seg[last].recs = Append(@, r),
                    !.x.seg[last].max = @ + MoreSpace]
     ELSE [e EXCEPT !.x.seg = Append(@, [max |-> MoreSpace, recs |-> <<r>>])]

TouchHiOnly(s, n) ==
  [s EXCEPT !.x.lo = IF @ = NoDelta THEN n ELSE @,
            !.x.hi = IF @ = NoDelta THEN n ELSE Most(@, n)]

(* The range of changed records comes to contain n.                        *)
Touch(s, n) ==
  [s EXCEPT !.x.lo = IF @ = NoDelta THEN n ELSE Least(@, n),
            !.x.hi = IF @ = NoDelta THEN n ELSE Most(@, n)]

SidxPut(s, n, r) ==
  IF s.x.buf = 0 THEN [s EXCEPT !.f = WriteAt(@, n, <<r>>)]
  ELSE IF SegmentsOf(s.x, n) # {}
  THEN LET i == CHOOSE i \in SegmentsOf(s.x, n) : TRUE
       IN Touch([s EXCEPT !.x.seg[i].recs[n - Before(s.x, i)] = r], n)
  ELSE IF n = s.x.num + 1 THEN Touch(AppendIndexRecord(s, r), n)
  ELSE [s EXCEPT !.ok = FALSE]

RemoveKeepsLast(s, n) ==
  [s EXCEPT !.f = IF n > Len(@) THEN @ ELSE Append(RemoveAt(@, n), Last(@))]

(* Without a buffer the records behind n move down in the file and the     *)
(* last becomes blank; with one only those of n's segment move, and the    *)
(* blank goes to the last segment.                                         *)
RemoveFromFile(s, n) ==
  [s EXCEPT !.f = IF n > Len(@) THEN @ ELSE Append(RemoveAt(@, n), Blank)]

RemoveFromSegment(s, n) ==
  LET i == CHOOSE i \in SegmentsOf(s.x, n) : TRUE
      c == AppendIndexRecord(
             [s EXCEPT !.x.seg[i].recs = RemoveAt(@, n - Before(s.x, i))], Blank)
  IN [c EXCEPT !.x.lo = IF @ = NoDelta THEN n ELSE Least(@, n),
               !.x.hi = Len(Buffered(c.x))]

RemoveIndexEntry(s, n) ==
  IF s.x.buf = 0 THEN RemoveFromFile(s, n)
  ELSE IF SegmentsOf(s.x, n) = {} THEN [s EXCEPT !.ok = FALSE]
  ELSE RemoveFromSegment(s, n)

WriteDeltaShort(s) ==
  LET v == Buffered(s.x)
      g == SetSize(s.f, s.x.num)
  IN IF s.x.lo = NoDelta \/ s.x.lo > Len(v) THEN g
     ELSE WriteAt(g, s.x.lo, SubSeq(v, s.x.lo, Least(s.x.hi, Len(v)) - 1))

(* The file is cut to the messages there are, then the changed range is    *)
(* written over it.                                                        *)
WriteDelta(s) ==
  LET v == Buffered(s.x)
      g == SetSize(s.f, s.x.num)
  IN IF s.x.lo = NoDelta \/ s.x.lo > Len(v) THEN g
     ELSE WriteAt(g, s.x.lo, SubSeq(v, s.x.lo, Least(s.x.hi, Len(v))))

EndBuffer(s) ==
  IF s.x.buf = 0 THEN [s EXCEPT !.ok = FALSE]
  ELSE IF s.x.buf > 1 THEN [s EXCEPT !.x.buf = @ - 1]
  ELSE [s EXCEPT !.f = WriteDelta(s), !.x.buf = 0, !.x.seg = <<>>]

---------------------------------------------------------------------------
(***************************************************************************)
(* The calls of the code above.                                            *)
(***************************************************************************)
(* Nobody else has the area locked.                                        *)
MayEnter(h) == locked \in {NoHandle, h}

At(h) == [x |-> ix[h], f |-> file, ok |-> TRUE]

(* _SquishExclusiveBegin refreshes num_msg from the header.                *)
Fresh(h) == [At(h) EXCEPT !.x.num = hdr]

Install(h, s) == file' = s.f /\ ix' = [ix EXCEPT ![h] = s.x]

(* _SquishReduceMaxMsgs: the surplus goes, one record after the other, and *)
(* its buffer nests in the one of a locked area.                           *)
Surplus(n, max, skip) ==
  IF max = 0 \/ n < max \/ n <= skip THEN 0 ELSE n - max + 1

ReduceMaxMsgs(s, max, skip) ==
  LET k == Surplus(s.x.num, max, skip)
      d[j \in 0 .. k] ==
        IF j = 0 THEN BeginBuffer(s)
        ELSE RemoveIndexEntry([d[j - 1] EXCEPT !.x.num = @ - 1], skip + 1)
  IN IF k = 0 THEN s ELSE EndBuffer(d[k])

(* Open for creation: the surplus goes, and the new message's record is    *)
(* put behind the others with an id of its own and no frame yet.           *)
CreateMsg(h, max, skip) ==
  LET s == ReduceMaxMsgs(Fresh(h), max, skip)
      t == SidxPut(s, s.x.num + 1, [ofs |-> FALSE, uid |-> next])
      n == s.x.num + 1
  IN /\ MayEnter(h) /\ next <= MaxUid
     /\ s.ok /\ next' = next + 1
     /\ Install(h, IF t.ok THEN [t EXCEPT !.x.num = n] ELSE t)
     /\ hdr' = IF t.ok THEN n ELSE s.x.num
     /\ UNCHANGED locked

(* Open for replacement: the record of message n loses its frame.          *)
BlankOld(h, n) ==
  LET s == Fresh(h)
      v == Virtual(s.x, s.f)
  IN /\ MayEnter(h) /\ n <= s.x.num
     /\ n <= Len(v) /\ v[n].ofs
     /\ Install(h, SidxPut(s, n, [v[n] EXCEPT !.ofs = FALSE]))
     /\ UNCHANGED <<hdr, next, locked>>

(* The first write of a message gives its record the frame, without        *)
(* exclusive access.                                                       *)
UpdateIndex(h, n) ==
  LET v == Virtual(ix[h], file)
  IN /\ n <= ix[h].num /\ n <= Len(v)
     /\ v[n].uid # NoUid /\ ~v[n].ofs
     /\ Install(h, SidxPut(At(h), n, [v[n] EXCEPT !.ofs = TRUE]))
     /\ UNCHANGED <<hdr, next, locked>>

(* The number is checked before the header is read.                        *)
KillMsg(h, n) ==
  LET v == Virtual(ix[h], file)
      s == RemoveIndexEntry(Fresh(h), n)
  IN /\ MayEnter(h) /\ n <= ix[h].num
     /\ n <= Len(v) /\ v[n].ofs
     /\ Install(h, IF s.ok THEN [s EXCEPT !.x.num = @ - 1] ELSE s)
     /\ hdr' = IF s.ok THEN hdr - 1 ELSE hdr
     /\ UNCHANGED <<next, locked>>

(* MsgLock, and the lock a search for an id takes: num_msg is what the     *)
(* handle has in memory.                                                   *)
LockArea(h) ==
  LET s == BeginBuffer(At(h))
  IN /\ locked = NoHandle /\ s.ok
     /\ locked' = h
     /\ Install(h, s)
     /\ UNCHANGED <<hdr, next>>

UnlockArea(h) ==
  /\ locked = h
  /\ locked' = NoHandle
  /\ Install(h, EndBuffer(At(h)))
  /\ UNCHANGED <<hdr, next>>

(* Closing the last message before it was written takes it off num_msg;    *)
(* its record stays where it is.                                           *)
AbandonMsg(h) ==
  LET n == ix[h].num
      v == Virtual(ix[h], file)
  IN /\ MayEnter(h) /\ n \in 1 .. Len(v)
     /\ v[n].uid # NoUid /\ ~v[n].ofs
     /\ hdr' = IF hdr = n THEN n - 1 ELSE hdr
     /\ ix' = [ix EXCEPT ![h].num = hdr']
     /\ UNCHANGED <<file, next, locked>>

(* Close, which unlocks a locked area first, and open again.               *)
Reopen(h) ==
  /\ file' = IF locked = h THEN EndBuffer(At(h)).f ELSE file
  /\ locked' = IF locked = h THEN NoHandle ELSE locked
  /\ ix' = [ix EXCEPT ![h] = Opened(hdr)]
  /\ UNCHANGED <<hdr, next>>

Next ==
  \E h \in Handles :
    \/ \E l \in Limits : CreateMsg(h, l[1], l[2])
    \/ LockArea(h) \/ UnlockArea(h)
    \/ AbandonMsg(h) \/ Reopen(h)
    \/ \E n \in 1 .. MaxUid : BlankOld(h, n) \/ UpdateIndex(h, n) \/ KillMsg(h, n)

Spec == Init /\ [][Next]_vars

---------------------------------------------------------------------------
(***************************************************************************)
(* Properties.                                                             *)
(***************************************************************************)
(* Every variable keeps its type; no segment holds more records than were  *)
(* allocated for it (sq_idx.c 316, the assertion dwMax >= dwUsed).         *)
TypeOK ==
  /\ file \in Seq(Record)
  /\ hdr \in 0 .. MaxUid /\ next \in 1 .. MaxUid + 1
  /\ locked \in Handles \cup {NoHandle}
  /\ \A h \in Handles :
       /\ ix[h].num \in 0 .. MaxUid
       /\ ix[h].buf = (IF locked = h THEN 1 ELSE 0)
       /\ \A i \in DOMAIN ix[h].seg :
            /\ ix[h].seg[i].recs \in Seq(Record)
            /\ Len(ix[h].seg[i].recs) <= ix[h].seg[i].max
            /\ ix[h].seg[i].max < SegmentSize + MoreSpace

(* A process that has the area for itself finds in the index exactly the   *)
(* messages, whichever of them are in the buffer and whichever in the      *)
(* file, and through every filling and flushing of the buffer: the         *)
(* segments and the range written back are a list of records.              *)
Sole == CHOOSE h \in Handles : TRUE
Records == SubSeq(Virtual(ix[Sole], file), 1, ix[Sole].num)
Flat == INSTANCE FlatIndex WITH recs <- Records
IndexIsFlat == Flat!Spec

(* Behind the last message no record names a frame: a search that takes    *)
(* the size of the buffer for the number of messages (sq_uid.c 127) never  *)
(* finds a message at a second number.  (It may find the id of one that    *)
(* was never written.)                                                     *)
NoGhosts ==
  \A h \in Handles :
    LET v == Virtual(ix[h], file)
    IN /\ ix[h].num <= Len(v)
       /\ \A i \in ix[h].num + 1 .. Len(v) : ~v[i].ofs

(* The index that is not being buffered has a record for every message     *)
(* that the header counts (sq_idx.c 575: the size that it really should    *)
(* be).                                                                    *)
IndexComplete ==
  locked = NoHandle =>
    /\ Len(file) >= hdr
    /\ \A i \in 1 .. hdr : file[i].uid # NoUid
=============================================================================
