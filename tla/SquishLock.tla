---------------------------- MODULE SquishLock ----------------------------
(* The lock protocol of a Squish area (src/src/sq_lock.c, with the copies  *)
(* between the header on disk and the one in memory of sq_area.c and       *)
(* sq_help.c, and the area lock that UidToMsgn takes in sq_uid.c).         *)
(*                                                                         *)
(* A handle is one opening of the area by one process.  Several handles    *)
(* share the .sqd file: its header, and the lock on its first byte that    *)
(* the operating system grants to one process at a time and takes back     *)
(* when the process closes the file or dies.  Every other variable is a    *)
(* field of the handle's own SQDATA.  The steps of one API call of one     *)
(* handle interleave with those of the others.                             *)
EXTENDS Integers

CONSTANTS
  Handles,    \* open area handles, each in a process of its own
  NoHandle,   \* holder of the byte lock when nobody has it
  WordSize,   \* number of values of the C type `word' (65536)
  Retry,      \* failed attempts after which waitlock2 gives up
  CarryOn,    \* may a handle be used after Lock or UidToMsgn failed on it?
  MaxDepth,   \* bound: nested Lock calls of one handle
  MaxUid      \* bound: message ids assigned

ASSUME HandlesAssumption == NoHandle \notin Handles
ASSUME BoundsAssumption ==
  /\ MaxDepth \in Nat \ {0} /\ MaxUid \in Nat /\ Retry \in Nat
  /\ WordSize \in Nat /\ WordSize > MaxDepth + 2
  /\ CarryOn \in BOOLEAN

VARIABLES
  owner,           \* process that holds the lock on byte 0 of the .sqd file
  disk,            \* header in the .sqd file
  issued,          \* history: ids of the messages the header on disk counts
  pc,              \* where the handle's current call is
  call,            \* which call waits for the lock
  tries,           \* attempts waitlock2 has left
  mem,             \* header fields kept in SQDATA
  fLocked,         \* SQDATA.fLocked
  fLockFunc,       \* SQDATA.fLockFunc
  fHaveExclusive,  \* SQDATA.fHaveExclusive
  job,             \* what the body of the exclusive section did to mem
  held,            \* the caller's view: Lock calls that succeeded, not undone
  failed           \* the caller's view: a Lock or UidToMsgn call has failed

shared == <<owner, disk, issued>>
flags  == <<fLocked, fLockFunc, fHaveExclusive>>
caller == <<held, failed>>
vars   == <<owner, disk, issued, pc, call, tries, mem, fLocked, fLockFunc,
            fHaveExclusive, job, held, failed>>

Word   == 0 .. WordSize - 1
Header == [uid : 1 .. MaxUid + 1, num_msg : 0 .. MaxUid]
Calls  == {"exclusive", "lock", "uid"}
Points == {"closed", "idle", "wait", "header", "update", "write", "release",
           "buffer", "search"}

(***************************************************************************)
(* 16-bit counters: ++ and -- wrap around.                                 *)
(***************************************************************************)
Inc(w) == IF w = WordSize - 1 THEN 0 ELSE w + 1

DecNoWrap(w) == w - 1
Dec(w) == IF w = 0 THEN WordSize - 1 ELSE w - 1

NewHeader == [uid |-> 1, num_msg |-> 0]

Init ==
  /\ owner = NoHandle
  /\ disk = NewHeader
  /\ issued = {}
  /\ pc = [h \in Handles |-> "closed"]
  /\ call = [h \in Handles |-> "exclusive"]
  /\ tries = [h \in Handles |-> 0]
  /\ mem = [h \in Handles |-> NewHeader]
  /\ fLocked = [h \in Handles |-> 0]
  /\ fLockFunc = [h \in Handles |-> 0]
  /\ fHaveExclusive = [h \in Handles |-> FALSE]
  /\ job = [h \in Handles |-> "none"]
  /\ held = [h \in Handles |-> 0]
  /\ failed = [h \in Handles |-> FALSE]

Goto(h, p) == pc' = [pc EXCEPT ![h] = p]

(***************************************************************************)
(* Opening reads the header without a lock and starts with clear flags.    *)
(***************************************************************************)
OpenArea(h) ==
  /\ pc[h] = "closed"
  /\ Goto(h, "idle")
  /\ mem' = [mem EXCEPT ![h] = disk]
  /\ UNCHANGED <<shared, call, tries, flags, job, caller>>

(* The operating system's side of giving the byte lock back.               *)
Released(h) == IF owner = h THEN NoHandle ELSE owner

(* Everything a handle has in memory is gone; closing the descriptor, or   *)
(* the end of the process, drops the byte lock.                            *)
Forget(h) ==
  /\ owner' = Released(h)
  /\ fLocked' = [fLocked EXCEPT ![h] = 0]
  /\ fLockFunc' = [fLockFunc EXCEPT ![h] = 0]
  /\ fHaveExclusive' = [fHaveExclusive EXCEPT ![h] = FALSE]
  /\ held' = [held EXCEPT ![h] = 0]
  /\ failed' = [failed EXCEPT ![h] = FALSE]
  /\ job' = [job EXCEPT ![h] = "none"]
  /\ Goto(h, "closed")
  /\ UNCHANGED <<disk, issued, call, tries, mem>>

(* Between calls fHaveExclusive is clear, so the close only has the area   *)
(* lock to undo, whatever its depth, before it closes the files.           *)
CloseArea(h) == pc[h] = "idle" /\ Forget(h)

Crash(h) == pc[h] # "closed" /\ Forget(h)

(***************************************************************************)
(* _SquishLockBase and the wait for the byte lock inside it.               *)
(***************************************************************************)
AfterLock(c) == IF c = "exclusive" THEN "header" ELSE "buffer"

LockBase(h, c) ==
  /\ call' = [call EXCEPT ![h] = c]
  /\ fLocked' = [fLocked EXCEPT ![h] = Inc(@)]
  /\ IF fLocked[h] # 0
     THEN Goto(h, AfterLock(c)) /\ UNCHANGED tries
     ELSE Goto(h, "wait") /\ tries' = [tries EXCEPT ![h] = Retry]

AcquireAnyway(h) ==
  /\ pc[h] = "wait"
  /\ owner' = h
  /\ Goto(h, AfterLock(call[h]))
  /\ UNCHANGED <<disk, issued, call, tries, mem, flags, job, caller>>

AcquireLock(h) ==
  /\ pc[h] = "wait" /\ owner \in {NoHandle, h}
  /\ owner' = h
  /\ Goto(h, AfterLock(call[h]))
  /\ UNCHANGED <<disk, issued, call, tries, mem, flags, job, caller>>

RetryForever(h) ==
  /\ pc[h] = "wait" /\ owner \notin {NoHandle, h}
  /\ tries[h] > 0
  /\ UNCHANGED vars

RetryLock(h) ==
  /\ pc[h] = "wait" /\ owner \notin {NoHandle, h}
  /\ tries[h] > 0
  /\ tries' = [tries EXCEPT ![h] = @ - 1]
  /\ UNCHANGED <<shared, pc, call, mem, flags, job, caller>>

TimedOut(h) ==
  /\ pc[h] = "wait" /\ owner \notin {NoHandle, h} /\ tries[h] = 0

(***************************************************************************)
(* _SquishUnlockBase and apiSquishUnlock, from the counters they find:     *)
(* nLocked and nFunc are the values of fLocked and fLockFunc at that point.*)
(***************************************************************************)
UnlockBaseAtOnce(h, nLocked) ==
  /\ fLocked' = [fLocked EXCEPT ![h] = Dec(nLocked)]
  /\ owner' = Released(h)

UnlockBase(h, nLocked) ==
  /\ fLocked' = [fLocked EXCEPT ![h] = Dec(nLocked)]
  /\ owner' = IF Dec(nLocked) = 0 THEN Released(h) ELSE owner

UnlockFuncAtOnce(h, nFunc, nLocked) ==
  /\ fLockFunc' = [fLockFunc EXCEPT ![h] = Dec(nFunc)]
  /\ UnlockBase(h, nLocked)

UnlockFunc(h, nFunc, nLocked) ==
  /\ fLockFunc' = [fLockFunc EXCEPT ![h] = Dec(nFunc)]
  /\ IF Dec(nFunc) = 0
     THEN UnlockBase(h, nLocked)
     ELSE /\ fLocked' = [fLocked EXCEPT ![h] = nLocked]
          /\ UNCHANGED owner

(***************************************************************************)
(* Exclusive sections.  The application may call unless an earlier failure *)
(* told it to stop.                                                        *)
(***************************************************************************)
CanCall(h) == pc[h] = "idle" /\ (failed[h] => CarryOn)

ExclusiveBegin(h) ==
  /\ CanCall(h) /\ ~fHaveExclusive[h]
  /\ LockBase(h, "exclusive")
  /\ UNCHANGED <<shared, mem, fLockFunc, fHaveExclusive, job, caller>>

ExclusiveTimeout(h) ==
  /\ TimedOut(h) /\ call[h] = "exclusive"
  /\ fLocked' = [fLocked EXCEPT ![h] = Dec(@)]
  /\ Goto(h, "idle")
  /\ UNCHANGED <<shared, call, tries, mem, fLockFunc, fHaveExclusive, job,
                 caller>>

KeepOldHeader(h) ==
  /\ pc[h] = "header"
  /\ fHaveExclusive' = [fHaveExclusive EXCEPT ![h] = TRUE]
  /\ Goto(h, "update")
  /\ UNCHANGED <<shared, call, tries, mem, fLocked, fLockFunc, job, caller>>

ReadHeader(h) ==
  /\ pc[h] = "header"
  /\ mem' = [mem EXCEPT ![h] = disk]
  /\ fHaveExclusive' = [fHaveExclusive EXCEPT ![h] = TRUE]
  /\ Goto(h, "update")
  /\ UNCHANGED <<shared, call, tries, fLocked, fLockFunc, job, caller>>

ReadHeaderFails(h) ==
  /\ pc[h] = "header"
  /\ UnlockBase(h, fLocked[h])
  /\ Goto(h, "idle")
  /\ UNCHANGED <<disk, issued, call, tries, mem, fLockFunc, fHaveExclusive,
                 job, caller>>

(* The body of the section: a new message, a killed one, or an update that *)
(* leaves the two counters alone (or fails).                               *)
Update(h, j, m) ==
  /\ pc[h] = "update"
  /\ job' = [job EXCEPT ![h] = j]
  /\ mem' = [mem EXCEPT ![h] = m]
  /\ Goto(h, "write")
  /\ UNCHANGED <<shared, call, tries, flags, caller>>

CreateMsg(h) ==
  /\ mem[h].uid <= MaxUid /\ mem[h].num_msg < MaxUid
  /\ Update(h, "create", [uid |-> mem[h].uid + 1,
                          num_msg |-> mem[h].num_msg + 1])

KillMsg(h) ==
  /\ mem[h].num_msg > 0
  /\ Update(h, "kill", [mem[h] EXCEPT !.num_msg = @ - 1])

LeaveCounters(h) == Update(h, "none", mem[h])

(* _SquishExclusiveEnd: write the header back, then unlock.                *)
WriteHeader(h) ==
  /\ pc[h] = "write"
  /\ disk' = mem[h]
  /\ issued' = IF job[h] = "create" THEN issued \cup {mem[h].uid - 1}
                                    ELSE issued
  /\ Goto(h, "release")
  /\ UNCHANGED <<owner, call, tries, mem, flags, job, caller>>

WriteHeaderFails(h) ==
  /\ pc[h] = "write"
  /\ Goto(h, "release")
  /\ UNCHANGED <<shared, call, tries, mem, flags, job, caller>>

ReleaseHeader(h) ==
  /\ pc[h] = "release"
  /\ UnlockBase(h, fLocked[h])
  /\ fHaveExclusive' = [fHaveExclusive EXCEPT ![h] = FALSE]
  /\ job' = [job EXCEPT ![h] = "none"]
  /\ Goto(h, "idle")
  /\ UNCHANGED <<disk, issued, call, tries, mem, fLockFunc, caller>>

(***************************************************************************)
(* apiSquishLock.                                                          *)
(***************************************************************************)
LockArea(h) ==
  /\ CanCall(h) /\ held[h] < MaxDepth
  /\ fLockFunc' = [fLockFunc EXCEPT ![h] = Inc(@)]
  /\ IF fLockFunc[h] # 0
     THEN /\ held' = [held EXCEPT ![h] = @ + 1]
          /\ UNCHANGED <<pc, call, tries, fLocked>>
     ELSE LockBase(h, "lock") /\ UNCHANGED held
  /\ UNCHANGED <<shared, mem, fHaveExclusive, job, failed>>

LockTimeout(h) ==
  /\ TimedOut(h) /\ call[h] = "lock"
  /\ fLocked' = [fLocked EXCEPT ![h] = Dec(@)]
  /\ failed' = [failed EXCEPT ![h] = TRUE]
  /\ Goto(h, "idle")
  /\ UNCHANGED <<shared, call, tries, mem, fLockFunc, fHaveExclusive, job,
                 held>>

LockBuffered(h) ==
  /\ pc[h] = "buffer" /\ call[h] = "lock"
  /\ held' = [held EXCEPT ![h] = @ + 1]
  /\ Goto(h, "idle")
  /\ UNCHANGED <<shared, call, tries, mem, flags, job, failed>>

(* The index cannot be read into memory (short file, no memory).           *)
LockNotBuffered(h) ==
  /\ pc[h] = "buffer" /\ call[h] = "lock"
  /\ UnlockBase(h, fLocked[h])
  /\ failed' = [failed EXCEPT ![h] = TRUE]
  /\ Goto(h, "idle")
  /\ UNCHANGED <<disk, issued, call, tries, mem, fLockFunc, fHaveExclusive,
                 job, held>>

UnlockArea(h) ==
  /\ CanCall(h) /\ held[h] > 0 /\ fLockFunc[h] # 0
  /\ UnlockFunc(h, fLockFunc[h], fLocked[h])
  /\ held' = [held EXCEPT ![h] = @ - 1]
  /\ UNCHANGED <<disk, issued, pc, call, tries, mem, fHaveExclusive, job,
                 failed>>

(***************************************************************************)
(* apiSquishUidToMsgn: lock the area, search the index, unlock.            *)
(***************************************************************************)
UidToMsgn(h) ==
  /\ CanCall(h)
  /\ fLockFunc' = [fLockFunc EXCEPT ![h] = Inc(@)]
  /\ IF fLockFunc[h] # 0
     THEN Goto(h, "search") /\ UNCHANGED <<call, tries, fLocked>>
     ELSE LockBase(h, "uid")
  /\ UNCHANGED <<shared, mem, fHaveExclusive, job, caller>>

UidBuffered(h) ==
  /\ pc[h] = "buffer" /\ call[h] = "uid"
  /\ Goto(h, "search")
  /\ UNCHANGED <<shared, call, tries, mem, flags, job, caller>>

(* The failed lock is undone by an apiSquishUnlock that finds fLockFunc at *)
(* 1 and so decrements fLocked a second time.                              *)
UidFails(h) ==
  /\ \/ TimedOut(h)
     \/ pc[h] = "buffer"
  /\ call[h] = "uid"
  /\ fLockFunc' = [fLockFunc EXCEPT ![h] = Dec(@)]
  /\ IF Dec(fLockFunc[h]) = 0
     THEN /\ fLocked' = [fLocked EXCEPT ![h] = Dec(Dec(@))]
          /\ owner' = IF Dec(fLocked[h]) = 0 \/ Dec(Dec(fLocked[h])) = 0
                      THEN Released(h) ELSE owner
     ELSE UnlockBase(h, fLocked[h])
  /\ failed' = [failed EXCEPT ![h] = TRUE]
  /\ Goto(h, "idle")
  /\ UNCHANGED <<disk, issued, call, tries, mem, fHaveExclusive, job, held>>

SearchDone(h) ==
  /\ pc[h] = "search"
  /\ UnlockFunc(h, fLockFunc[h], fLocked[h])
  /\ Goto(h, "idle")
  /\ UNCHANGED <<disk, issued, call, tries, mem, fHaveExclusive, job, caller>>

(***************************************************************************)
(* What the application decides, and what a call does once it is made.     *)
(***************************************************************************)
Request(h) ==
  \/ OpenArea(h) \/ CloseArea(h) \/ Crash(h)
  \/ ExclusiveBegin(h) \/ LockArea(h) \/ UnlockArea(h) \/ UidToMsgn(h)

Continue(h) ==
  \/ AcquireLock(h) \/ RetryLock(h)
  \/ ExclusiveTimeout(h) \/ ReadHeader(h) \/ ReadHeaderFails(h)
  \/ CreateMsg(h) \/ KillMsg(h) \/ LeaveCounters(h)
  \/ WriteHeader(h) \/ WriteHeaderFails(h) \/ ReleaseHeader(h)
  \/ LockTimeout(h) \/ LockBuffered(h) \/ LockNotBuffered(h)
  \/ UidBuffered(h) \/ UidFails(h) \/ SearchDone(h)

Next == \E h \in Handles : Request(h) \/ Continue(h)

Spec == Init /\ [][Next]_vars

(* A call that was made is executed: the process is scheduled.             *)
FairSpec == Spec /\ \A h \in Handles : WF_vars(Continue(h))

---------------------------------------------------------------------------
(* Every field keeps to its C type; the words wrap, they never overflow.   *)
TypeOK ==
  /\ owner \in Handles \cup {NoHandle}
  /\ disk \in Header
  /\ issued \subseteq 0 .. MaxUid
  /\ pc \in [Handles -> Points]
  /\ call \in [Handles -> Calls]
  /\ tries \in [Handles -> 0 .. Retry]
  /\ mem \in [Handles -> Header]
  /\ fLocked \in [Handles -> Word]
  /\ fLockFunc \in [Handles -> Word]
  /\ fHaveExclusive \in [Handles -> BOOLEAN]
  /\ job \in [Handles -> {"none", "create", "kill"}]
  /\ held \in [Handles -> Nat]
  /\ failed \in [Handles -> BOOLEAN]

(* Two processes are never inside _SquishExclusiveBegin/End at once: the   *)
(* read, change and write-back of the header by one call is not            *)
(* interleaved with another's (sq_lock.c 186-187).                         *)
MutualExclusion ==
  \A h, k \in Handles : fHaveExclusive[h] /\ fHaveExclusive[k] => h = k

(* While an application holds an area lock it was told it has (Lock        *)
(* returned 0 and it has not called Unlock), its process owns byte 0,      *)
(* whatever exclusive sections and uid lookups come and go inside.         *)
LockPromise == \A h \in Handles : held[h] > 0 => owner = h

(* fLocked answers "Do we have byte 0 locked?" (api_sq.h 145) whenever a   *)
(* usable handle is not just waiting for the lock.                         *)
FlagTruth ==
  \A h \in Handles :
    pc[h] # "wait" /\ ~failed[h] => (fLocked[h] # 0 <=> owner = h)

(* A message id about to be published by the header write is not one that  *)
(* another message was given, whatever calls failed, timed out or crashed. *)
UidsFresh ==
  \A h \in Handles :
    pc[h] = "write" /\ job[h] = "create" => mem[h].uid - 1 \notin issued

(* Every change of the header on disk is one whole update of what was      *)
(* there before: no create or kill of another process is lost.             *)
Hdr == INSTANCE SquishHeader WITH hdr <- disk
HeaderAtomic == Hdr!Spec

(***************************************************************************)
(* The invariant behind the safety properties, for handles that stop after *)
(* a failed lock (CarryOn = FALSE): where a handle is, and how many area   *)
(* locks its caller holds, determine both counters and the byte lock.      *)
(***************************************************************************)
InSection(h) == pc[h] \in {"header", "update", "write", "release"}

(* A Lock or UidToMsgn call has counted itself in fLockFunc already.       *)
Asking(h) == \/ pc[h] = "wait" /\ call[h] # "exclusive"
             \/ pc[h] \in {"buffer", "search"}

(* The call has counted itself in fLocked.                                 *)
Entered(h) == InSection(h) \/ pc[h] \in {"wait", "buffer"}

Holding(h) == \/ InSection(h) \/ pc[h] \in {"buffer", "search"}
              \/ held[h] > 0

CountersOf(h) ==
  /\ held[h] <= MaxDepth
  /\ failed[h] => pc[h] = "idle" /\ held[h] = 0
  /\ pc[h] = "closed" => held[h] = 0
  /\ pc[h] \in {"wait", "buffer"} => held[h] = 0
  /\ pc[h] = "buffer" => call[h] # "exclusive"
  /\ fHaveExclusive[h] <=> pc[h] \in {"update", "write", "release"}
  /\ owner = h <=> Holding(h)
  /\ ~failed[h] =>
       /\ fLockFunc[h] = held[h] + (IF Asking(h) THEN 1 ELSE 0)
       /\ fLocked[h] = (IF held[h] > 0 \/ pc[h] = "search" THEN 1 ELSE 0)
                       + (IF Entered(h) THEN 1 ELSE 0)

(* Both counters of every handle say exactly which calls are in progress   *)
(* and which locks are held, whatever failed, timed out or crashed before. *)
CountersAgree == \A h \in Handles : CountersOf(h)

(* Inside the section mem is the header on disk with one update applied.   *)
CopyOf(h) ==
  /\ pc[h] = "update" => mem[h] = disk
  /\ pc[h] = "write" =>
       \/ job[h] = "none" /\ mem[h] = disk
       \/ /\ job[h] = "create"
          /\ mem[h] = [uid |-> disk.uid + 1, num_msg |-> disk.num_msg + 1]
       \/ /\ job[h] = "kill" /\ disk.num_msg > 0
          /\ mem[h] = [disk EXCEPT !.num_msg = @ - 1]

HeaderCurrent ==
  /\ \A h \in Handles : CopyOf(h)
  /\ \A u \in issued : u < disk.uid

(* A call returns even if another process holds the lock for good: the     *)
(* wait is bounded by SQUISH_LOCK_RETRY.                                   *)
CallReturns ==
  \A h \in Handles : pc[h] \notin {"idle", "closed"}
                       ~> pc[h] \in {"idle", "closed"}
===========================================================================
