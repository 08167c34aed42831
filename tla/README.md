# A verification project for SMAPI

SMAPI is the message-area library of the Husky Fidonet programs: one C API
(`smapi/msgapi.h`) over three formats of message base, Squish (`src/sq_*.c`),
JAM (`src/api_jam.c`) and `*.MSG` directories (`src/api_sdm.c`). Several
programs (a tosser, an editor, a packer) open the same base at the same time,
each with its own in-memory copy of part of the base's state; the file locks of
the library are all that keeps them apart.

This directory holds TLA+ models of the library, TLC configurations that check
them on small instances, and proofs checked by TLAPS. Paths in the modules are
those of the repository; `sq_lock.c 243` is line 243 of `src/sq_lock.c`.

## 1. Inventory

| Component | State | Operations | Talks to |
|---|---|---|---|
| Squish lock protocol (`sq_lock.c`, used by every other `sq_*.c`) | byte lock on the `.sqd` file; per handle `fLocked`, `fLockFunc`, `fHaveExclusive`; header on disk and its copy in `SQDATA` | `_SquishExclusiveBegin/End`, `apiSquishLock/Unlock`, `_SquishLockBase/UnlockBase` | the operating system's locks (`waitlock2` of huskylib), index buffer, header I/O |
| Squish message base (`sq_msg.c`, `sq_write.c`, `sq_kill.c`, `sq_help.c`, `sq_misc.c`) | frames of the `.sqd` file in a message chain and a free chain, both doubly linked; header fields; cursor (`cur_msg`, `foCur/foPrev/foNext`); open message handles | open (read, update, create, replace), write, close, kill, message limit, high water mark | lock protocol, index |
| Squish index (`sq_idx.c`) | records of the `.sqi` file; per process a buffered copy in segments with a range of changed records | get, put, append, remove, begin/end buffer | base, lock |
| Squish id search (`sq_uid.c`) | none | binary search under an area lock | index, lock |
| Squish areas (`sq_area.c`) | list of open areas | create, open, close | all of the above |
| Squish reading (`sq_read.c`) | read position of a handle | read parts of a message | base |
| JAM base (`api_jam.c`) | `.jhr/.jdt/.jdx` files; per process the header info, the table of active messages, a message handle | the same API | `Jam_Lock` on byte 0 of the header file |
| `*.MSG` area (`api_sdm.c`) | one file per message; per process the sorted table of ids, the highest id and the mark, which is kept in the first message | the same API | directory scans, no lock at all |
| Dispatch (`msgapi.c`) | valid-handle marks, error code | open by type, validity checks, control-text helpers | all formats |
| Serialisation (`structrw.c`) | none | pack and unpack records; `read_allidx` reads the table of active JAM messages | files |
| `semaphor.c`, `smapi.pas`, `make/` | - | OS wrappers nobody calls, a Pascal binding, project files | - |

What is hard in this code, and what makes each part correct:

* **Lock protocol.** Two nested counters and a flag stand for one byte lock.
  Every failure path (timeout, unreadable header, buffer that cannot be read)
  has to leave them matching the lock. Correct: at most one process in a
  section; a successful Lock means the lock is held; what is written back to
  the header is derived from what was on disk at the lock; ids are never given
  twice; a call comes back even if the lock never becomes free.
* **Message base.** Every operation mends two linked lists, an index, five
  header fields and a three-frame cursor piece by piece. Correct: chain and
  index say the same, the free chain is whole, no frame is lost or in both, the
  cursor is what the index would have given, ids grow and agree with the frames,
  and for its user the area is a list of messages that grows at the end, loses
  one message to a kill and the oldest ones to the limit.
* **Index buffer.** Segments with a range of changed records, nested begin and
  end, and a cut of the file at the end have to behave as the flat file; no
  record behind the last message may name a frame.
* **JAM.** Three files are appended to one after the other, taken back on
  failure, and rewritten from a table that is as old as the process wants; the
  number of messages is read at open and corrected when the table is. Correct:
  the index names for every message its one header that is not deleted and the
  text it was last given; an old table still names its own messages and can be
  searched; no number reaches behind it but that of a process's first kill.
* **`*.MSG`.** No lock, ids of deleted messages are given out again, and the
  mark lives in memory until close. Correct: a written message is not
  overwritten, a table names the files it was read from, a mark that was set
  gets to disk.

`PROJECT.json` lists the hazards line by line with the properties that cover
them, or why none does.

## 2. Modules

| Module | What it is |
|---|---|
| `SquishHeader` | abstract: the header of an area changes by whole creates and kills |
| `SquishLock`, `SquishLockProofs` | the lock protocol of several processes, step by step; implements `SquishHeader`; proofs |
| `MessageArea` | abstract: an area is a list of ids with a limit |
| `SquishBase`, `SquishBaseProofs` | chains, index, header, cursor and message handles, call by call; implements `MessageArea`; proofs |
| `FlatIndex` | abstract: the index is a list of records |
| `SquishIndex`, `SquishIndexProofs` | the index file and the processes' segment buffers; implements `FlatIndex`; proofs |
| `SquishUid`, `SquishUidProofs` | the binary search for an id, probe by probe; proofs |
| `Ascending`, `AscendingProofs` | a finite set of numbers in ascending order; what is true of it |
| `Recursion` | lemmas: induction over numbers, and what a recursive function is |
| `JamBase`, `JamBaseProofs` | the files, lock, tables and handles of a JAM base; proofs |
| `SdmArea`, `SdmAreaProofs` | a `*.MSG` directory and its processes; proofs |
| `MC...` | instances for TLC |

### SquishLock

A *handle* is one opening of the area by one process. `owner` is the byte lock,
`disk` the header in the file, `issued` a history variable; all other variables
are fields of the handle's `SQDATA` (`mem`, `fLocked`, `fLockFunc`,
`fHaveExclusive`), its program counter (`pc`, `call`, `tries`, `job`) or the
caller's view (`held`: Locks not yet undone, `failed`). Each C function is cut
where another process can act: taking the byte lock (with the retries of
`waitlock2`), reading the header, changing the copy, writing it, releasing.
Counters wrap as the C type `word` does. `Crash` ends a process anywhere; the
operating system then drops its lock. Header reads and writes and the reading of
the index may fail. Only `uid` and `num_msg` of the header are kept: they stand
for all fields that are read, changed and written back.

`CarryOn` says whether a caller goes on using a handle on which Lock or UidToMsgn
has failed. With `CarryOn = FALSE` the protocol is right (checked and proved);
with `CarryOn = TRUE` it is not (section 5).

### SquishBase

One process, every API call one step. The record `base` holds `frame` (the
headers), `body` (the id that `_SquishWriteXmsg` stores in the frame, all that
is kept of a message), `idx`, the header fields and the cursor. The operators
`InsertFreeChain`, `RemoveFreeChain`, `LinkMessageFrame`, `FixMemoryPointers`
... are the C functions of that name: they take a base and return one, and the
field `ok` is the C return value, so that early returns keep what was changed
before them. A frame is named by its ordinal instead of its byte offset and a
length is a member of `Sizes`, so the first-fit search of the free chain is kept
and byte arithmetic is not. A frame that was allocated but not yet written has
type `"none"` (no `SQHDRID`).

`DiskFull` says where the disk may be full; `Polite` says that the application
kills and creates nothing while it has a message open for writing, writes a
replacement before it closes it, and does not try a failed write again. The
passing runs are about polite applications with room on the disk.

Simplifications: high_msg (always num_msg), keep_days (stored, never used), the
hash of the index record and the frame's clen are left out; the buffered index
during `_SquishReduceMaxMsgs` is modelled by its net effect, which `SquishIndex`
derives from the segments.

### SquishIndex and FlatIndex

`file` is the `.sqi` file, `hdr` and `next` are num_msg and uid of the header on
disk, `locked` says whose MsgLock holds the area, and `ix` has for every handle
num_msg as it remembers it and its `HIDX`: how deep buffers are nested, the
segments with the records in them, and the range `lo .. hi` of changed records.
`BeginBuffer`, `AppendIndexRecord`, `SidxPut`, `RemoveIndexEntry` and
`EndBuffer` are the C functions; each takes and returns the pair of file and
`HIDX`, with and without a buffer. An API call is one step: begin and end of the
buffer around MsgLock and the message limit, appending at a create, writing the
record at a write, removing at a kill, and closing a new message unwritten,
which leaves its id in a record behind num_msg. Writing the record of a message
is a step of its own, as in the code, where the handle may be written long after
it was opened. That the calls which change the number of messages exclude each
other is `SquishLock`'s result and is built into `MayEnter`.

For one process, `IndexIsFlat` maps the state to a plain list: the records of
the buffer or of the file up to num_msg. `NoGhosts` says that no record behind
the last message names a frame (the record of an abandoned message keeps its id
there; UidToMsgn under MsgLock can find it, at the number num_msg + 1).

Failing reads and writes of the index file are left out; so is the blanking of
the replaced record's hash.

### SquishUid

`apiSquishUidToMsgn` with its variables (`low`, `high`, `try`, `seen` for
`sqi.umsgid`, `rc`), one action per turn of its loop. Between searches messages
are created, written, abandoned and killed, and the area locked and unlocked, so
the index is what a real one is. `idx` is what the search reads, the *buffered*
index, which may be longer than `num` (num_msg): while MsgLock is in force a
kill leaves a blank record at the end, with the id -1 (`Blank`), and a create
that was abandoned leaves its record with its id (`AbandonMsg`). Without MsgLock
the search fills the buffer itself, with num_msg records (`Visible`). `framed`
are the messages that are written, the only ones that can be killed; `msgn` is
the number the handle of a new message keeps. A message that the limit drops
goes as by a kill.

While a search runs the index does not change; what happens when its lock fails
is in `SquishLock`. `SidxGet` cannot fail here, since the numbers it gets are
within the size of the buffer. `Several` says whether new messages may be open
side by side. With `FALSE` at most one abandoned id is behind num_msg, then only
blank records, and the search is right; with `TRUE` it is not (section 5).

`AnswerCorrect` says what the *messages* are promised: the one that has the id
is found; an exact search gives no record of another id; with UID_PREV the
answer is the last record with a smaller id, with UID_NEXT the first message
with a greater one when there is one. It promises nothing where the code departs
from the documentation: for UID_NEXT when no message follows, for UID_PREV in an
empty index; and it lets an answer be the number of an abandoned or a blank
record, num_msg + 1 or above, where no message fits (section 5).

### JamBase

The three files are sequences, a position is the ordinal of the record there,
and BaseMsgNum is 1 (as `Jam_OpenFile` sets it), so an id is a position in the
index. `idx` names headers, a header keeps JMSG_DELETED, its message number and
its text (HeaderType); `active` is ActiveMsgs on disk, `owner` holds byte 0 of
the header file. Of a process there are `area` (num_msg, modified, locked, and
the table once it has been read, with the header as it was read in every slot),
`msgh` and `kill`. `stored` remembers where the text is that a message was
last given; it is history and no action's guard reads it. `wild` is set when a
call indexes the table behind its end: what the process does then is undefined,
so the behaviour ends there (`Undefined`).

A call is one step, because it does all it does to the files under the lock,
with one exception: KillMsg reads the header *before* it takes the lock, so it
is two (`KillMsg`, then `KillUnderLock` or `KillBusy`). `WriteNewFails` stops
after the text, the header or the index record and cuts the files back; its
returns keep the lock, as the code's do. `Close` writes the header info back as
this process knows it, without the lock.

`Rewriters` and `Killers` are the processes that replace, update and delete; in
the run and in the theorems one process does, and any other appends. `Polite`:
no message is killed while the process has one open for rewriting
(`smapi.pas` 570: "It is an error to kill a message which is currently open").

`KillMsg` checks its number against num_msg, which comes from the header info
and may be too high until the table is read, and then reads the table, as
`Jam_PosHdrMsg` does: the check is not made again, and the table may be shorter
than the number (section 5). `OpenMsg` does check again (`Checked`), and
`OnlyKillGoesWild` says that a kill by a process without a table is the one call
that ever reaches behind a table. A write is one step under the lock, and so is
the reading of the table, although `read_allidx` takes no lock: a table read in
the middle of another process's write, which misses the message being written,
does not occur here.

Left out: reading, the high water mark, the hash that decides whether a control
line fits (`grown` is a choice), subfields and control lines, the deletion of a
base, writing a handle of a new message twice, the unchecked writes of
replacements, and `HARD_WRITE_HDR`, which no build file defines.

### SdmArea

`disk` gives for each id the inode of its file, `body` what is in each inode, so
that a file that was unlinked or truncated while another process has it open is
what the operating system makes of it. Of a process there are `area` (num_msg,
highest id, cursor, table, mark) with the history field `saw`, `new` (a message
about to be created) and `msgh`. `home` and `wanted` are history.

Creating is two steps: `NextId` looks for a free id, `MakeFile` opens the file
with O_CREAT and O_TRUNC and without O_EXCL (or `MakeFileFails`, which leaves
the count and the highest id raised). The create counts the message twice and
leaves one table entry unwritten; `Garbage` is what memory may hold there. The
mark is what the first message of an echo area says; `Fetched` reads it when it
is first asked for, which makes message 1 the current one. `MayMark` and
`MayKill`: the mark is set only in areas whose first message is a mark, and the
message with the mark is not deleted (a mark in an area without one overwrites
the first message, or goes into 0.msg).

Left out: writing over an existing message, reading and read positions, the
conversion of headers and control lines, and a mark that cannot be written at
the close (`api_sdm.c` 254 ignores the result, and the file is already cut).
That the process whose table is looked at is the only one to delete is part of
the run and of the theorem: in another process's old table an id that was given
out again names the new file, by the reuse of ids alone.

## 3. Runs

| Run | Instance | Shows |
|---|---|---|
| `lock` | 2 handles, 5-valued words, 1 retry, nesting 2, 2 ids, fair | mutual exclusion, Lock's promise, counters, fresh ids; the header changes atomically; every call returns (182 742 states) |
| `lock_uid` | callers that carry on | violation, see 5 |
| `base_chains` | 1 message handle, 3 frames, 2 lengths, 4 ids | the six invariants of `SquishBase`, and `MessageArea` (342 669 states) |
| `base_limit` | 1 message handle, 3 frames, 1 length, 4 ids, limits 2 and 3 (one skipped message), marks | the same with dropping at the limit, and the high water mark (242 823 states) |
| `base_stale` | 2 message handles, not polite | violation, see 5 |
| `uid_search` | 5 ids, new messages one after the other, with MsgLock, fair | the search excludes nothing that could be the answer, is right, and ends (232 108 states) |
| `index` | 1 handle, segments of 2 records, growth by 1, 2 records ahead, 5 ids, with and without limits | the index is a list of records; nothing behind its end names a frame (437 750 states) |
| `index_shared` | 2 handles, 3 ids | violation, see 5 |
| `jam_kept` | editor and tosser, 3 index records, 3 headers, 3 texts, failing writes | written messages stay until deleted, tables stay true, searches find what there is, only a first kill reaches behind a table (558 568 states) |
| `sdm_kept` | reader and tosser, 4 ids, 3 files, with and without a mark, failing creates | no message is overwritten, tables stay true, marks get to disk (591 064 states) |
| `sdm_race` | two creators | violation, see 5 |
| `sdm_mark` | 3 ids, 4 files | violation, see 5 |

**Bounds.** Two processes are enough for a race on one lock, and a crash plus a
reopening supplies a third actor; a word of 5 values lets the counters wrap
within the bound; nesting 2 has an inner and an outer Lock. Three frames give a
first, a middle and a last message, two neighbours on the free chain, and a
mixture; two lengths make the first-fit search skip a frame; four ids let a
message be created after three were, and let two be dropped at once. With the
limit, (2,0) and (3,1) drop one or two messages with and without a message in
front of them. Five ids give every index of up to five records out of five,
that is, ranges of odd and even length, three halvings deep, and the wanted id
before, between, on and after the records, with up to five records behind the
messages. Segments of two records put the
boundary inside an index of five, on and beside the record that is removed or
appended. Three JAM records allow a replacement or a grown update beside two
appends, a kill in front of, at and behind another message, and a write that
fails on files that are empty or not. Three files and four ids in a directory
are a mark, a message that is deleted and one that gets its id.

**Fairness.** `FairSpec` of `SquishLock` has weak fairness on `Continue(h)`, the
steps of a call that has begun: a process that is not dead gets to run. Nothing
is assumed of the start of calls, of crashes, nor of the lock ever becoming
free; `CallReturns` rests on the bounded number of attempts of `waitlock2`. In
`SquishUid` a search that has begun goes on (`Probe \/ Answer`): it waits for
nothing. `Jam_Lock` waits without bound, so nothing of the kind holds there: a
process that keeps the lock stops the others. Deadlock is checked in every run.

**Mutants.** Every property of a passing run comes with a plausible bug in a
mapped definition (`AcquireAnyway`, `BypassForward`, `CursorStays`,
`WriteDeltaShort`, `CutIndexOnly`, `KillKeepsTable`, `FreeNumber`, ...), kept
beside the definition it breaks.

## 4. Proofs

**`SquishLockProofs`** proves for any set of handles, any word size above the
nesting depth plus two, any number of retries and ids:

* `TypeCorrect`: `Spec => []TypeOK`, with no further assumption;
* under `~CarryOn`: `CountersCorrect`, `MutualExclusionHolds`,
  `LockPromiseHolds`, `FlagTruthHolds`, `HeaderIsCurrent`, `UidsFreshHolds`, and
  `HeaderAtomicHolds`, that is, `Spec` implements `SquishHeader!Spec`.

The invariant is `TypeOK /\ CountersAgree /\ HeaderCurrent`. Mutual exclusion is
not inductive: it needs to know that every handle in a section holds the byte
lock, which depends on `fLocked` being zero exactly when it does not, which
depends on how many Locks the caller has not undone and where its call stands.
`CountersAgree` says that, handle by handle. The argument: a step of handle `h`
changes the fields of `h` only and `owner` only from or to `h` (`StepIsLocal`,
`UntouchedKeepsCounters`), so it keeps `CountersOf(k)` of any other `k`; for `h`
itself it is one case per action (`StepKeepsCounters`). `HeaderCurrent` (inside
the section the copy is the header on disk plus one update) then follows since
only the holder of the lock writes the header (`StepKeepsHeader`), and gives the
refinement. The assumption `~CarryOn` is needed: `lock_uid` shows it
for the exclusion, and with `CarryOn = TRUE` `LockPromise` fails as well.

**`SquishUidProofs`** proves for any bound on the ids, so for an index of any
length: `UidTypeCorrect`, `SearchIsSound` and `AnswersAreCorrect`, assuming
`~Several` (with `Several = TRUE` TLC finds `SearchSound` violated). The
invariant is `TypeOK`, `SearchSound` and `OneOpen`. `Sorted`, in `SearchSound`,
says that the ids ascend as far as the blank records, and that behind num_msg at
most the first record is not blank. A new message takes that record, so it has
an id above all others; this rests on `OneOpen`: at most one message is new, and
while one is, all records behind num_msg are blank. The rest of `SearchSound` is
about the search: ids below `low` are smaller and ids above `high` greater, and
the record looked at last touches one end of the range. That last part is what
the answer needs: when the range is empty that record is next to the place of
the id, and `Preceding` and `Following` are right in both cases. That there are
fewer records than ids assigned (`Len(idx) < uidNext`) keeps the bounds within
their type.

**`AscendingProofs`** shows that `InOrder(S)` lists a finite set of integers,
each once and in ascending order. The function is defined by counting the
smaller elements instead of by recursion, so no induction scheme is needed
beyond the library's facts about cardinality.

**`JamBaseProofs`** proves `JamTypeCorrect`, `IndexMatchesHolds`,
`HeadersNamedHolds`, `TableSoundHolds`, `SearchFindsHolds` and
`OnlyKillGoesWildHolds` for any number of processes and any lengths of the files,
assuming `SoleEditor` (one process rewrites and deletes; any others append) and
`Polite`. The invariant
`Inv` has four parts besides the types:

* `FilesInv`: index and headers that are not deleted name each other, one to
  one, and the header's text is the message's, the one last stored;
* `TableOK`, for every process: the table is in order and each slot's header and
  text exist and are of the slot's own message;
* `TableLive`, for the sole editor only: the slots *are* the files' live headers.
  This is where `SoleEditor` enters: a second editor would make the first one's
  slots name deleted headers, and what is written through them would bring the
  message back;
* `HandleOK`, `KillOK`: an open handle and a half-done kill agree with the slot
  of their number. `Polite` enters here: a kill shifts the numbers of the table
  below an open handle. A kill whose number is not the table's ends the
  behaviour (`wild`), so one that is half done has a slot.

The argument splits each step into what it does to the files (`NewFiles`,
`RewrittenFiles`, `KilledFiles`, `CutIs`: statements about four sequences, with
no state in them), and what that means for a table (`SlotStays`: positions in
files that only grow stay; `LiveStays`). `OthersStay` says that the other
processes keep their part of the invariant, and `OneStep` and `QuietStep` put the
parts together; then there is one lemma per action.

**`SdmAreaProofs`** proves for any number of processes and files `TypeCorrect`
without assumptions; `MessagesKeptHolds` with `OneCreator` (`sdm_race` shows that
the assumption is needed); `TableTrueHolds` with `OneCreator` and `SoleKiller`;
`MarkKeptHolds` with `OneCreator` and `OneMarker` (who sets the mark is the only
one to delete). The invariant: no two ids name one inode and only id 1 holds a
mark (`FilesApart`); the id a creator has found is still free (`NewIdFree`); who
writes to an inode is the only one to have its message there (`WriterAlone`);
a table of an area with a mark begins with it, and a mark that is to be written
back was read from there (`MarkListed`, `MarkThere`). For the tables there is
`TableInv`: ascending, and the highest id is the last one's, which is
what keeps an id that was given out again from slipping into an old table.

`SearchFindsHolds` is about the binary search of `JamUidToMsgn`, a recursive
function on pairs of bounds: in every table that a process has read, of any
length and however old, it gives the number of the id, or else of the one
before, or of the one after when there is one. `Within` is a closed form of its
answers: from the place where the id belongs and the bounds alone, with the
cases where the bounds exclude that place. `WithinSteps` shows that it satisfies
the recursion, and induction on the distance of the bounds that nothing else
does.

**`Recursion`** supplies what these and the next two modules need of numbers:
a set of numbers that is not empty has a least one (from the library's
well-foundedness of `<`), induction as a statement about sets (`Induction`,
`InductionUpTo`), and the existence of the function that a sequence of steps
runs through (`RecursiveFunction`). They speak of sets and functions instead of
operators, which is why they can be cited where the library's induction theorems
cannot.

**`SquishBaseProofs`** proves for any number of frames, ids, sizes, message
handles and for any limits: `BaseIsTyped`, `ChainAlwaysMatchesIndex`,
`FreeChainAlwaysSound`, `NoFrameEverLost`, `CursorAlwaysMatchesIndex`,
`UidsAlwaysAgree`; the refinement `ImplementsArea`
(every call, with all its frames and links, is one step of `MessageArea` or
none); and the action property `MarkIsKept`. They assume `Careful`:

* `Polite`: a kill or create beside an open handle leaves that handle with stale
  links or a stale number, see `base_stale` and section 5;
* `DiskFull = {}`: with a full disk a replacement loses its message, and the
  close counts it off a second time;
* a limit is none, or leaves two messages behind those that stay. One less, and
  a create at the limit finds no frame to link to and fails after it has dropped
  them.

The invariant `IInv` says that the base is `Sound`: at most one handle is open
(`Alone`), and there are a message chain `c` of `n` frames and a free chain `q`
of `k` such that (`Shape`)

* `TwoChains`: every frame is linked to its neighbours, both ends of both chains
  are what the header says, and the frames below the end of the file are those
  of the two chains, each in one of them and once; `Typed`: their types are
  those of their chain, and a message that is being replaced is marked;
* `Indexed`, `Numbered`: index record `i` names frame `c[i]`, except the record
  of the message that an open handle has not written yet, which names none; ids
  ascend, are below the next one and are what the frames hold;
* `OnCursor`: the three frames of the cursor are `c` at its number and around;
* `OnMessage`: a handle's number, id and frame are those of its message, or the
  message has no frame yet;
* `Roomy`: a limit leaves at least two messages behind those it skips, so that a
  create that kills the oldest has a message to link to.

A chain is a function from the integers that is NULL_FRAME outside `1 .. n`, so
that "the link of frame `i` is `c[i + 1]`" needs no cases at the ends, and
unlinking and linking in are shifts of the function. Walking the links, which
the properties do recursively, gives the chain by induction (`Recursion`). A
write takes a frame out and puts another one in; in between the base is not
sound, and `Gap` says what holds there: everything but the links and fields of
the place `m`. There is one lemma per C helper on the frames of a base, then one
per call, each saying both that the base stays sound and what it did to the list
of ids (`Moves`), which gives the refinement.

**`SquishIndexProofs`** proves for any size of the segments, of their growth and
of what the file is extended by: `IndexIsTyped`, `NeverGhosts`, `IndexHasAll`
and `ImplementsFlatIndex`. They assume `Single`, one process with the area open
(`index_shared` shows that two do not share the index; what keeps two writers
apart is `SquishLock`), and `LimitsLeaveOne`: with a limit not above the number
of messages that stay, records that name frames would be left behind the last
message. The invariant: num_msg in memory is the header's, a buffer is open
exactly when the process holds the lock, and there is a list `v` that the
process sees (`Held`) and that is `Good`, that is, messages up to num_msg and no
frame behind.
`Held` is the heart of it: without a buffer `v` is the file; with one it is what
the segments hold together, no segment is overfull, and every record up to
num_msg *outside* the range `lo .. hi` is the same in the file. So the range may
be too large (it is never reset), but never too small, and cutting the file and
writing the range over it gives the list (`DeltaWritten`). That needs three
groups of lemmas:

* lists of lists: `FlattenSeq` is recursive, so the segments' intermediate sums
  are a `Chained` function, and storing, removing or appending in one segment
  changes the sums from there on (`ChainPut`, `ChainCut`, `ChainAppend`);
* the helpers of `sq_idx.c` on a `HIDX`, one by one: growing the file,
  appending, putting (`EntryPut`), removing (`EntryRemoved`), reading segments by
  multiples of their size (`SegmentsRead`), ending the buffer (`BufferEnded`);
* the limit, a recursive function again: `After` are the states in which `j`
  records were dropped, each dropping leads to the next (`OneMoreDropped`), and
  `MessagesReduced` says what is left, in a buffer of its own or nested in
  MsgLock's.

Then there is one lemma per call, which gives its effect on `v`, and a list of
five moves that `FlatIndex` allows.

**Only model-checked:** the two liveness properties (`CallReturns`,
`SearchEnds`), which need fairness and ENABLED.

## 5. What disagrees with the code's own words

| Run | What happens |
|---|---|
| `lock_uid` | `UidToMsgn` unlocks after a failed Lock; `fLocked` wraps to 65535 and the handle never locks again |
| `base_stale` | a replacement of the last message is written after another message was appended: that one falls off the chain |
| `index_shared` | Unlock cuts the shared index file to the number of messages of this process's memory, which Lock does not refresh: records others have appended are lost |
| `sdm_race` | two processes find the same id free, and the second truncates the first one's message |
| `sdm_mark` | the high water mark stays when the message it names is killed, and covers the next message that gets its id |

Met while modelling, with no run spent on them:

* Squish, ids: with UID_NEXT UidToMsgn is documented to give the following
  message, and 0 with MERR_NOENT "if no valid message could be found"
  (`smapi.pas` 636-644); when none follows the code gives the last record's
  number (`sq_uid.c` 180). In an empty area UID_PREV answers 1
  and UID_NEXT 2, which are no messages. Under MsgLock the search sees records
  behind num_msg (`sq_uid.c` 127 takes the size of the buffer), so an exact search
  for an abandoned id, or UID_NEXT at the end, can answer num_msg + 1 or more. New
  messages that are open side by side under MsgLock and abandoned leave their ids
  behind num_msg; the next create overwrites only the first of these records, the
  index is out of order, and a search can miss a message (`SquishUid` with
  `Several = TRUE`: `SearchSound` fails).
* Squish, base: a handle opened for a new message keeps its number when an
  earlier message is killed, and writes its frame into that index record, which
  is not its message's any more (`sq_write.c` 585; `Polite = FALSE`:
  `ChainMatchesIndex` fails); the high water field is documented as a number
  (`api_sq.h` 91) but holds an id; closing an unwritten replacement leaves an
  index record without a frame; a full disk while a message is replaced deletes
  it, and the close takes one more off num_msg (`DiskFull = {"frame"}` or
  `{"body"}`); a limit that drops everything after the skipped messages makes the
  create fail (`Limits = {<<1, 0>>}`); KillMsg reports success when it cannot get
  the lock (`sq_kill.c` 128); the index record of a written message is updated
  outside the exclusive section (`sq_write.c` 675); the cursor's next frame stays
  NULL_FRAME after another process has appended (`sq_help.c` 225).
* Squish, lock: a Lock that failed leaves `fLockFunc` at 1, so the next Lock
  succeeds without a lock (`LockPromise` with `CarryOn = TRUE`).
* JAM: KillMsg as a process's first call indexes behind the end of the table when
  the number of messages in the header info is too high: the number is checked
  (`api_jam.c` 1079) before the table is read (1085, 2026), and not again, while
  the comment at 151 relies on the first OpenMsg to correct the count. With
  `~wild` as an invariant of `MCJamBase` TLC shows it in 12 states. UID_NEXT when
  no message follows gives the last one here too (1298), where the documentation
  says 0; `SearchFinds` promises nothing for that case;
  each process overwrites the header info at its close; the error returns
  of a write keep the lock; the writes of a replacement are not checked;
  SetHighWater refuses valid ids once messages were deleted (`api_jam.c` 1320);
  a kill while a message is open makes the handle write to the next one's slot.
* `*.MSG`: opening MSGNUM_NEXT always fails (`api_sdm.c` 305-314); in an empty
  echo area the first message goes to 1.msg, which is the mark's, because the
  test that avoids it looks at the number asked for instead of the id
  (`api_sdm.c` 372); the table is shifted before the file is unlinked, so a
  failed unlink leaves them different (838); the close ignores whether the mark
  was written (254); the first fetch of the mark moves
  the cursor; a new message is counted twice; a mark overwrites the first
  message of an area without one.

## 6. Plan

The plan of the first version (lock, base, search; then index, JAM and `*.MSG`)
is carried out but for two modules:

* `SquishShared`, frames and index of one base in the hands of several
  processes. The interleavings of whole calls on chains and cursors of two
  processes exceed what can be explored within reasonable bounds: `SquishIndex`
  has the part that goes wrong (the cut of the index), `SquishLock` the part that
  protects it.
* the list of open areas, handle validity and dispatch: sequential code of a few
  lines without interaction.

Every invariant, action property and refinement that a passing run checks is
also a theorem (section 4). Next would be an abstract mailbox that all three
formats implement, which needs ids and numbers to be related alike in all of
them; the fields of the base that `SquishLock` abstracts to `uid` and `num_msg`
in one model with it; and weaker hypotheses for some theorems, above all a base
on a disk that may be full, up to the one failing call.

## 7. Not modelled

* Message contents, dates, addresses and control text (`msgapi.c`, `structrw.c`,
  the conversions of `api_jam.c` and `api_sdm.c`): conversions without protocol.
* Reading positions (`sq_read.c` and the read calls): clamped offsets within one
  message.
* The JAM high water mark and the deletion of bases.
* `semaphor.c`, called by nothing in the library; the alternative lock of
  `ALTLOCKING` builds; the Pascal binding and the build files.
* Crashes in the middle of an update of the message files: the library has no
  recovery, and an interrupted update leaves what was written so far.
  `SquishLock` has crashes, of the header and the lock only.
* Failing reads and writes of the Squish index file; failing writes of JAM
  replacements.
