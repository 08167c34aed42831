-------------------------- MODULE SquishLockProofs --------------------------
(* Proofs about the lock protocol of a Squish area, for any number of      *)
(* processes, any width of the counters and any retry count, as long as an *)
(* application stops using an area on which Lock or UidToMsgn has failed   *)
(* (ASSUME ~CarryOn; MCSquishLock_uid.cfg shows what happens when it does  *)
(* not, and LockPromise fails too with CarryOn = TRUE).                    *)
EXTENDS SquishLock, TLAPS

(* The wrapping counters stay words.                                       *)
LEMMA WordArithmetic ==
  ASSUME NEW w \in Word
  PROVE  Inc(w) \in Word /\ Dec(w) \in Word
BY BoundsAssumption DEF Word, Inc, Dec

(* Every field of every handle keeps to its type, in every behaviour of    *)
(* the protocol, disciplined or not.                                       *)
THEOREM TypeCorrect == Spec => []TypeOK
<1> USE BoundsAssumption DEF shared, flags, caller, Goto, Calls, Points
<1>1. Init => TypeOK
  BY DEF Init, TypeOK, NewHeader, Word, Header
<1>2. TypeOK /\ [Next]_vars => TypeOK'
  <2> SUFFICES ASSUME TypeOK, [Next]_vars PROVE TypeOK'
    OBVIOUS
  <2> USE DEF TypeOK
  <2>1. CASE UNCHANGED vars
    BY <2>1 DEF vars
  <2>2. ASSUME NEW h \in Handles, Request(h) PROVE TypeOK'
    <3>1. CASE OpenArea(h)
      BY <3>1 DEF OpenArea
    <3>2. CASE CloseArea(h)
      BY <3>2 DEF CloseArea, Forget, Released, Word
    <3>3. CASE Crash(h)
      BY <3>3 DEF Crash, Forget, Released, Word
    <3>4. CASE ExclusiveBegin(h)
      BY <3>4, WordArithmetic DEF ExclusiveBegin, LockBase, AfterLock
    <3>5. CASE LockArea(h)
      BY <3>5, WordArithmetic DEF LockArea, LockBase, AfterLock
    <3>6. CASE UnlockArea(h)
      BY <3>6, WordArithmetic DEF UnlockArea, UnlockFunc, UnlockBase, Released
    <3>7. CASE UidToMsgn(h)
      BY <3>7, WordArithmetic DEF UidToMsgn, LockBase, AfterLock
    <3>8. QED
      BY <2>2, <3>1, <3>2, <3>3, <3>4, <3>5, <3>6, <3>7
      DEF Request
  <2>3. ASSUME NEW h \in Handles, Continue(h) PROVE TypeOK'
    <3>1. CASE AcquireLock(h)
      BY <3>1 DEF AcquireLock, AfterLock
    <3>2. CASE RetryLock(h)
      BY <3>2 DEF RetryLock
    <3>3. CASE ExclusiveTimeout(h)
      BY <3>3, WordArithmetic DEF ExclusiveTimeout
    <3>4. CASE ReadHeader(h)
      BY <3>4 DEF ReadHeader
    <3>5. CASE ReadHeaderFails(h)
      BY <3>5, WordArithmetic DEF ReadHeaderFails, UnlockBase, Released
    <3>6. CASE CreateMsg(h)
      BY <3>6 DEF CreateMsg, Update, Header
    <3>7. CASE KillMsg(h)
      BY <3>7 DEF KillMsg, Update, Header
    <3>8. CASE LeaveCounters(h)
      BY <3>8 DEF LeaveCounters, Update
    <3>9. CASE WriteHeader(h)
      <4>1. mem[h].uid - 1 \in 0 .. MaxUid
        BY DEF Header
      <4>2. issued' \subseteq 0 .. MaxUid
        BY <3>9, <4>1 DEF WriteHeader
      <4>3. QED
        BY <3>9, <4>2 DEF WriteHeader
    <3>10. CASE WriteHeaderFails(h)
      BY <3>10 DEF WriteHeaderFails
    <3>11. CASE ReleaseHeader(h)
      BY <3>11, WordArithmetic DEF ReleaseHeader, UnlockBase, Released
    <3>12. CASE LockTimeout(h)
      BY <3>12, WordArithmetic DEF LockTimeout
    <3>13. CASE LockBuffered(h)
      BY <3>13 DEF LockBuffered
    <3>14. CASE LockNotBuffered(h)
      BY <3>14, WordArithmetic DEF LockNotBuffered, UnlockBase, Released
    <3>15. CASE UidBuffered(h)
      BY <3>15 DEF UidBuffered
    <3>16. CASE UidFails(h)
      BY <3>16, WordArithmetic DEF UidFails, UnlockBase, Released
    <3>17. CASE SearchDone(h)
      BY <3>17, WordArithmetic DEF SearchDone, UnlockFunc, UnlockBase, Released
    <3>18. QED
      BY <2>3, <3>1, <3>2, <3>3, <3>4, <3>5, <3>6, <3>7, <3>8, <3>9, <3>10, <3>11, <3>12, <3>13, <3>14, <3>15, <3>16, <3>17
      DEF Continue
  <2>4. QED
    BY <2>1, <2>2, <2>3 DEF Next
<1>3. QED
  BY <1>1, <1>2, PTL DEF Spec

(* The invariant of the lock counters rests on two facts: a step of one       *)
(* handle leaves what the invariant says of another alone, and re-         *)
(* establishes what it says of itself.                                     *)
Untouched(k) ==
  /\ pc'[k] = pc[k] /\ call'[k] = call[k]
  /\ held'[k] = held[k] /\ failed'[k] = failed[k]
  /\ fLocked'[k] = fLocked[k] /\ fLockFunc'[k] = fLockFunc[k]
  /\ fHaveExclusive'[k] = fHaveExclusive[k]
  /\ owner' = k <=> owner = k

(* A handle nobody touched still satisfies its part of the invariant.      *)
LEMMA UntouchedKeepsCounters ==
  ASSUME NEW k \in Handles, CountersOf(k), Untouched(k)
  PROVE  CountersOf(k)'
BY DEF CountersOf, Untouched, InSection, Asking, Entered, Holding

(* A step of one handle touches no other: a lock is granted only when it   *)
(* is free, and a handle gives back only the lock that is its own.         *)
LEMMA StepIsLocal ==
  ASSUME TypeOK, NEW h \in Handles, NEW k \in Handles, k # h,
         Request(h) \/ Continue(h)
  PROVE  Untouched(k)
<1> USE HandlesAssumption
    DEF TypeOK, shared, flags, caller, Goto, Untouched
<1>1. CASE OpenArea(h)
  BY <1>1 DEF OpenArea
<1>2. CASE CloseArea(h)
  BY <1>2 DEF CloseArea, Forget, Released
<1>3. CASE Crash(h)
  BY <1>3 DEF Crash, Forget, Released
<1>4. CASE ExclusiveBegin(h)
  BY <1>4 DEF ExclusiveBegin, LockBase, AfterLock
<1>5. CASE LockArea(h)
  BY <1>5 DEF LockArea, LockBase, AfterLock
<1>6. CASE UnlockArea(h)
  BY <1>6 DEF UnlockArea, UnlockFunc, UnlockBase, Released
<1>7. CASE UidToMsgn(h)
  BY <1>7 DEF UidToMsgn, LockBase, AfterLock
<1>8. CASE AcquireLock(h)
  BY <1>8 DEF AcquireLock, AfterLock
<1>9. CASE RetryLock(h)
  BY <1>9 DEF RetryLock
<1>10. CASE ExclusiveTimeout(h)
  BY <1>10 DEF ExclusiveTimeout, TimedOut
<1>11. CASE ReadHeader(h)
  BY <1>11 DEF ReadHeader
<1>12. CASE ReadHeaderFails(h)
  BY <1>12 DEF ReadHeaderFails, UnlockBase, Released
<1>13. CASE CreateMsg(h)
  BY <1>13 DEF CreateMsg, Update
<1>14. CASE KillMsg(h)
  BY <1>14 DEF KillMsg, Update
<1>15. CASE LeaveCounters(h)
  BY <1>15 DEF LeaveCounters, Update
<1>16. CASE WriteHeader(h)
  BY <1>16 DEF WriteHeader
<1>17. CASE WriteHeaderFails(h)
  BY <1>17 DEF WriteHeaderFails
<1>18. CASE ReleaseHeader(h)
  BY <1>18 DEF ReleaseHeader, UnlockBase, Released
<1>19. CASE LockTimeout(h)
  BY <1>19 DEF LockTimeout, TimedOut
<1>20. CASE LockBuffered(h)
  BY <1>20 DEF LockBuffered
<1>21. CASE LockNotBuffered(h)
  BY <1>21 DEF LockNotBuffered, UnlockBase, Released
<1>22. CASE UidBuffered(h)
  BY <1>22 DEF UidBuffered
<1>23. CASE UidFails(h)
  BY <1>23 DEF UidFails, UnlockBase, Released, TimedOut
<1>24. CASE SearchDone(h)
  BY <1>24 DEF SearchDone, UnlockFunc, UnlockBase, Released
<1>25. QED
  BY <1>1, <1>2, <1>3, <1>4, <1>5, <1>6, <1>7, <1>8, <1>9,
     <1>10, <1>11, <1>12, <1>13, <1>14, <1>15, <1>16, <1>17, <1>18,
     <1>19, <1>20, <1>21, <1>22, <1>23, <1>24
  DEF Request, Continue

(* A step of a handle re-establishes its own part of the invariant.        *)
LEMMA StepKeepsCounters ==
  ASSUME ~CarryOn, TypeOK, NEW h \in Handles, CountersOf(h),
         Request(h) \/ Continue(h)
  PROVE  CountersOf(h)'
<1> USE HandlesAssumption, BoundsAssumption
    DEF TypeOK, shared, flags, caller, Goto, CountersOf, InSection, Asking,
        Entered, Holding, CanCall, Word, Inc, Dec
<1>1. CASE OpenArea(h)
  BY <1>1 DEF OpenArea
<1>2. CASE CloseArea(h)
  BY <1>2 DEF CloseArea, Forget, Released
<1>3. CASE Crash(h)
  BY <1>3 DEF Crash, Forget, Released
<1>4. CASE ExclusiveBegin(h)
  BY <1>4 DEF ExclusiveBegin, LockBase, AfterLock
<1>5. CASE LockArea(h)
  BY <1>5 DEF LockArea, LockBase, AfterLock
<1>6. CASE UnlockArea(h)
  BY <1>6 DEF UnlockArea, UnlockFunc, UnlockBase, Released
<1>7. CASE UidToMsgn(h)
  BY <1>7 DEF UidToMsgn, LockBase, AfterLock
<1>8. CASE AcquireLock(h)
  BY <1>8 DEF AcquireLock, AfterLock
<1>9. CASE RetryLock(h)
  BY <1>9 DEF RetryLock
<1>10. CASE ExclusiveTimeout(h)
  BY <1>10 DEF ExclusiveTimeout, TimedOut
<1>11. CASE ReadHeader(h)
  BY <1>11 DEF ReadHeader
<1>12. CASE ReadHeaderFails(h)
  BY <1>12 DEF ReadHeaderFails, UnlockBase, Released
<1>13. CASE CreateMsg(h)
  BY <1>13 DEF CreateMsg, Update
<1>14. CASE KillMsg(h)
  BY <1>14 DEF KillMsg, Update
<1>15. CASE LeaveCounters(h)
  BY <1>15 DEF LeaveCounters, Update
<1>16. CASE WriteHeader(h)
  BY <1>16 DEF WriteHeader
<1>17. CASE WriteHeaderFails(h)
  BY <1>17 DEF WriteHeaderFails
<1>18. CASE ReleaseHeader(h)
  BY <1>18 DEF ReleaseHeader, UnlockBase, Released
<1>19. CASE LockTimeout(h)
  BY <1>19 DEF LockTimeout, TimedOut
<1>20. CASE LockBuffered(h)
  BY <1>20 DEF LockBuffered
<1>21. CASE LockNotBuffered(h)
  BY <1>21 DEF LockNotBuffered, UnlockBase, Released
<1>22. CASE UidBuffered(h)
  BY <1>22 DEF UidBuffered
<1>23. CASE UidFails(h)
  BY <1>23 DEF UidFails, UnlockBase, Released, TimedOut
<1>24. CASE SearchDone(h)
  BY <1>24 DEF SearchDone, UnlockFunc, UnlockBase, Released
<1>25. QED
  BY <1>1, <1>2, <1>3, <1>4, <1>5, <1>6, <1>7, <1>8, <1>9,
     <1>10, <1>11, <1>12, <1>13, <1>14, <1>15, <1>16, <1>17, <1>18,
     <1>19, <1>20, <1>21, <1>22, <1>23, <1>24
  DEF Request, Continue

(* Whatever calls fail, time out or crash, the counters of every handle    *)
(* keep agreeing with its place in the protocol and with the byte lock.    *)
THEOREM CountersCorrect ==
  ASSUME ~CarryOn
  PROVE  Spec => []CountersAgree
<1>1. Init => CountersAgree
  <2> SUFFICES ASSUME Init, NEW h \in Handles PROVE CountersOf(h)
    BY DEF CountersAgree
  <2>1. /\ pc[h] = "closed" /\ owner # h /\ held[h] = 0
        /\ fLocked[h] = 0 /\ fLockFunc[h] = 0
        /\ ~failed[h] /\ ~fHaveExclusive[h]
    BY HandlesAssumption DEF Init
  <2>2. QED
    BY <2>1, BoundsAssumption
    DEF CountersOf, InSection, Asking, Entered, Holding
<1>2. TypeOK /\ CountersAgree /\ [Next]_vars => CountersAgree'
  <2> SUFFICES ASSUME TypeOK, CountersAgree, [Next]_vars,
                      NEW k \in Handles
               PROVE  CountersOf(k)'
    BY DEF CountersAgree
  <2>1. CountersOf(k)
    BY DEF CountersAgree
  <2>2. CASE UNCHANGED vars
    BY <2>1, <2>2
    DEF vars, CountersOf, InSection, Asking, Entered, Holding
  <2>3. CASE Next
    <3>1. PICK h \in Handles : Request(h) \/ Continue(h)
      BY <2>3 DEF Next
    <3>2. CASE k = h
      BY <2>1, <3>1, <3>2, StepKeepsCounters
    <3>3. CASE k # h
      BY <2>1, <3>1, <3>3, StepIsLocal, UntouchedKeepsCounters
    <3>4. QED
      BY <3>2, <3>3
  <2>4. QED
    BY <2>2, <2>3
<1>3. QED
  BY <1>1, <1>2, TypeCorrect, PTL DEF Spec

(* No two processes read, change and write back the header at once.        *)
THEOREM MutualExclusionHolds ==
  ASSUME ~CarryOn
  PROVE  Spec => []MutualExclusion
<1>1. CountersAgree => MutualExclusion
  BY DEF CountersAgree, CountersOf, MutualExclusion, Holding, InSection
<1>2. QED
  BY <1>1, CountersCorrect, PTL

(* A lock the application was told it has is one its process owns.         *)
THEOREM LockPromiseHolds ==
  ASSUME ~CarryOn
  PROVE  Spec => []LockPromise
<1>1. CountersAgree => LockPromise
  BY DEF CountersAgree, CountersOf, LockPromise, Holding
<1>2. QED
  BY <1>1, CountersCorrect, PTL

(* fLocked tells a usable handle whether its process has byte 0 locked.    *)
THEOREM FlagTruthHolds ==
  ASSUME ~CarryOn
  PROVE  Spec => []FlagTruth
<1>1. TypeOK /\ CountersAgree => FlagTruth
  BY DEF TypeOK, CountersAgree, CountersOf, FlagTruth, Holding, InSection,
         Asking, Entered, Points
<1>2. QED
  BY <1>1, CountersCorrect, TypeCorrect, PTL

(* Steps keep the copies of the header current.  Only the write of the     *)
(* header needs more than its own definition: it leaves no stale copy      *)
(* behind because nobody else is between reading and writing.              *)
LEMMA StepKeepsHeader ==
  ASSUME TypeOK, CountersAgree, HeaderCurrent, NEW h \in Handles,
         Request(h) \/ Continue(h)
  PROVE  HeaderCurrent'
<1> USE DEF TypeOK, shared, flags, caller, Goto, HeaderCurrent, CopyOf
<1>1. CASE OpenArea(h)
  BY <1>1 DEF OpenArea
<1>2. CASE CloseArea(h)
  BY <1>2 DEF CloseArea, Forget, Released
<1>3. CASE Crash(h)
  BY <1>3 DEF Crash, Forget, Released
<1>4. CASE ExclusiveBegin(h)
  BY <1>4 DEF ExclusiveBegin, LockBase, AfterLock
<1>5. CASE LockArea(h)
  BY <1>5 DEF LockArea, LockBase, AfterLock
<1>6. CASE UnlockArea(h)
  BY <1>6 DEF UnlockArea, UnlockFunc, UnlockBase, Released
<1>7. CASE UidToMsgn(h)
  BY <1>7 DEF UidToMsgn, LockBase, AfterLock
<1>8. CASE AcquireLock(h)
  BY <1>8 DEF AcquireLock, AfterLock
<1>9. CASE RetryLock(h)
  BY <1>9 DEF RetryLock
<1>10. CASE ExclusiveTimeout(h)
  BY <1>10 DEF ExclusiveTimeout, TimedOut
<1>11. CASE ReadHeader(h)
  BY <1>11 DEF ReadHeader
<1>12. CASE ReadHeaderFails(h)
  BY <1>12 DEF ReadHeaderFails, UnlockBase, Released
<1>13. CASE CreateMsg(h)
  BY <1>13 DEF CreateMsg, Update
<1>14. CASE KillMsg(h)
  BY <1>14 DEF KillMsg, Update
<1>15. CASE LeaveCounters(h)
  BY <1>15 DEF LeaveCounters, Update
<1>16. CASE WriteHeader(h)
  <2>1. owner = h
    BY <1>16 DEF WriteHeader, CountersAgree, CountersOf, Holding, InSection
  <2>2. \A k \in Handles : k # h => pc[k] \notin {"update", "write"}
    BY <2>1 DEF CountersAgree, CountersOf, Holding, InSection
  <2>3. \A k \in Handles : pc'[k] \notin {"update", "write"}
    BY <2>2, <1>16 DEF WriteHeader
  <2>4. \A u \in issued' : u < disk'.uid
    BY <1>16 DEF WriteHeader, Header
  <2>5. QED
    BY <2>3, <2>4
<1>17. CASE WriteHeaderFails(h)
  BY <1>17 DEF WriteHeaderFails
<1>18. CASE ReleaseHeader(h)
  BY <1>18 DEF ReleaseHeader, UnlockBase, Released
<1>19. CASE LockTimeout(h)
  BY <1>19 DEF LockTimeout, TimedOut
<1>20. CASE LockBuffered(h)
  BY <1>20 DEF LockBuffered
<1>21. CASE LockNotBuffered(h)
  BY <1>21 DEF LockNotBuffered, UnlockBase, Released
<1>22. CASE UidBuffered(h)
  BY <1>22 DEF UidBuffered
<1>23. CASE UidFails(h)
  BY <1>23 DEF UidFails, UnlockBase, Released, TimedOut
<1>24. CASE SearchDone(h)
  BY <1>24 DEF SearchDone, UnlockFunc, UnlockBase, Released
<1>25. QED
  BY <1>1, <1>2, <1>3, <1>4, <1>5, <1>6, <1>7, <1>8, <1>9,
     <1>10, <1>11, <1>12, <1>13, <1>14, <1>15, <1>16, <1>17, <1>18,
     <1>19, <1>20, <1>21, <1>22, <1>23, <1>24
  DEF Request, Continue

(* What a process is about to write is the header on disk with exactly one *)
(* update applied, and every published id is below the next one.           *)
THEOREM HeaderIsCurrent ==
  ASSUME ~CarryOn
  PROVE  Spec => []HeaderCurrent
<1>1. Init => HeaderCurrent
  BY DEF Init, HeaderCurrent, CopyOf
<1>2. TypeOK /\ CountersAgree /\ HeaderCurrent /\ [Next]_vars => HeaderCurrent'
  <2> SUFFICES ASSUME TypeOK, CountersAgree, HeaderCurrent, [Next]_vars
               PROVE  HeaderCurrent'
    OBVIOUS
  <2>1. CASE UNCHANGED vars
    BY <2>1 DEF vars, HeaderCurrent, CopyOf
  <2>2. CASE Next
    BY <2>2, StepKeepsHeader DEF Next
  <2>3. QED
    BY <2>1, <2>2
<1>3. QED
  BY <1>1, <1>2, TypeCorrect, CountersCorrect, PTL DEF Spec

(* A published message id is never handed out again.                       *)
THEOREM UidsFreshHolds ==
  ASSUME ~CarryOn
  PROVE  Spec => []UidsFresh
<1>1. TypeOK /\ HeaderCurrent => UidsFresh
  BY DEF TypeOK, Header, HeaderCurrent, CopyOf, UidsFresh
<1>2. QED
  BY <1>1, TypeCorrect, HeaderIsCurrent, PTL

(* The protocol implements the abstract header: each step of it is one     *)
(* whole create, one whole kill, or leaves the header as it was.           *)
THEOREM HeaderAtomicHolds ==
  ASSUME ~CarryOn
  PROVE  Spec => HeaderAtomic
<1>1. Init => Hdr!Init
  BY DEF Init, NewHeader, Hdr!Init
<1>2. TypeOK /\ HeaderCurrent /\ [Next]_vars => [Hdr!Next]_(Hdr!vars)
  <2> SUFFICES ASSUME TypeOK, HeaderCurrent, [Next]_vars
               PROVE  [Hdr!Next]_(Hdr!vars)
    OBVIOUS
  <2> USE DEF Hdr!vars, shared, flags, caller
  <2>1. CASE UNCHANGED vars
    BY <2>1 DEF vars
  <2>2. ASSUME NEW h \in Handles, WriteHeader(h)
        PROVE  [Hdr!Next]_(Hdr!vars)
    <3>1. pc[h] = "write" /\ disk' = mem[h] /\ CopyOf(h)
      BY <2>2 DEF WriteHeader, HeaderCurrent
    <3>2. CASE job[h] = "none"
      BY <2>2, <3>1, <3>2 DEF WriteHeader, CopyOf
    <3>3. CASE job[h] = "create"
      <4>1. disk.uid \in Nat /\ disk.uid \notin issued
        BY DEF TypeOK, Header, HeaderCurrent
      <4>2. disk' = [uid |-> disk.uid + 1, num_msg |-> disk.num_msg + 1]
        BY <3>1, <3>3 DEF CopyOf
      <4>3. issued' = issued \cup {disk.uid}
        BY <2>2, <3>1, <3>3, <4>1, <4>2 DEF WriteHeader
      <4>4. QED
        BY <4>1, <4>2, <4>3 DEF Hdr!Next, Hdr!CreateMsg
    <3>4. CASE job[h] = "kill"
      <4>1. disk.num_msg > 0 /\ disk' = [disk EXCEPT !.num_msg = @ - 1]
        BY <3>1, <3>4 DEF CopyOf
      <4>2. issued' = issued
        BY <2>2, <3>4 DEF WriteHeader
      <4>3. QED
        BY <4>1, <4>2 DEF Hdr!Next, Hdr!KillMsg
    <3>5. QED
      BY <3>2, <3>3, <3>4 DEF TypeOK
  <2>3. ASSUME NEW h \in Handles, Request(h) \/ Continue(h), ~WriteHeader(h)
        PROVE  UNCHANGED <<disk, issued>>
    BY <2>3 DEF Request, Continue, OpenArea, CloseArea, Crash, Forget,
       ExclusiveBegin, LockArea, UnlockArea, UidToMsgn, AcquireLock,
       RetryLock, ExclusiveTimeout, ReadHeader, ReadHeaderFails, CreateMsg,
       KillMsg, LeaveCounters, Update, WriteHeaderFails, ReleaseHeader,
       LockTimeout, LockBuffered, LockNotBuffered, UidBuffered, UidFails,
       SearchDone
  <2>4. QED
    BY <2>1, <2>2, <2>3 DEF Next
<1>3. QED
  BY <1>1, <1>2, TypeCorrect, HeaderIsCurrent, PTL
  DEF Spec, HeaderAtomic, Hdr!Spec
=============================================================================
