# A verification of doggOS

doggOS is a small 32-bit kernel for one x86 core. This directory holds TLA+
modules that model its components, the TLC configurations that check them on
small instances and TLAPS proofs about them. `PROJECT.json` maps every definition
to the lines of `src/` it translates.

## 1. The system

| component | code | state | operations | what is hard |
|---|---|---|---|---|
| threads and scheduler | `kernel/proc/thread.c`, `proc.c`, `proc_a.asm` | current thread, ready and waiting lists, delete list, pool of slots; per thread state, flags, condition, `queue_next` | create, wait, detach, terminate, yield, the scheduler's loop, the cleanup thread | the timer preempts a thread anywhere, also under a spinlock; the scheduler itself cannot be preempted |
| spinlocks and conditions | `kernel/rt/atm_a.asm` | one word each | lock, try, unlock; signal, clear | nothing disables interrupts while a lock is held |
| processes | `kernel/proc/proc.c` | process list, page directory, mapped ranges | create, wait, terminate | tears down mappings other threads use |
| virtual ranges | `kernel/mem/mngr.c` | one array: free ranges, then used ranges | allocate (first fit), free (merge) | both halves of one array move against each other |
| physical pages | `kernel/mem/mngr.c` | ranges of pages with free counts | allocate and free one or many | several ranges, scans past the end |
| page tables | `kernel/mem/pmap.c` | directory and tables | map, unmap, look up | running out of pages in the middle |
| heap | `kernel/rt/alloc.c` | per thread buckets of chunks; pages of their own for large blocks | malloc, free | a free has the address only |
| pools, lists, queues | `kernel/rt/pool.c`, `objlist.c`, `queue.c` | pages of objects with a free list | allocate, free | no live caller |
| streams | `kernel/io.c` | chained buffers, offsets, count, condition | read, write, wait | written by an interrupt handler while a thread reads |
| disks | `kernel/dev/dsk.c`, `ide.c` | command pages, command queue, transfer state | enqueue, driver thread, interrupt | queue without a lock, errors |
| devices, interrupts | `kernel/dev/dev.c`, `kernel/irq` | device list, handler table | create, start, dispatch, end of interrupt | start twice |
| keyboard, terminal, shell | `kernel/dev/kb.c`, `ps2.c`, `sys/term.c`, `sys/shell.c` | modifier keys, line buffer | key event, read line | the stream's wake-ups |
| PUP file system | `kernel/fs/pup.c`, `fs.c` | block cache, block bitmask | format, mount, find or load a block, read, allocate a block | two loaders of one block |
| memory at boot | `kernel/mem/mem.c` | the firmware's ranges, page headers, kernel mappings | one pass before paging is on | rounding, in several places of one computation |
| mkfs | `tools/mkfs/mkfs.c` | line buffer, image in memory, files | commands | one buffer for every line |
| PCI, ACPI, VGA | `dev/pci.c`, `k_acpi.c`, `gfx` | hardware registers | start-up | not modelled: straight-line I/O |

The components meet in the scheduler: every blocking operation (waiting for a
thread, for a disk command, for a key) is a `WaitCondition` on a word that a
thread or an interrupt handler sets, and every list that is not local to a
thread is protected by a spinlock that does not keep the timer out.

## 2. The modules and the plan

| modules | proofs | component | checked by |
|---|---|---|---|
| `Sched` (section 3) | `SchedProofs` | threads, scheduler, cleanup thread, timer | `MCSched` |
| `Stream`, implementing `Channel` (4) | `StreamProofs` | the terminal's stream between the keyboard's interrupt and the shell | `MCConsole` |
| `VRanges`, implementing `RangeAllocator` (5) | `VRangesProofs` | virtual address ranges | `MCMemory`, `MCVRanges` |
| `Disk`, `IDECopy` (6) | `DiskProofs`, `IDECopyProofs` | disk commands, the driver thread, the IDE interrupt, the bytes it copies | `MCDisk`, `MCFiles`, `MCIDECopy` |
| `PhysPages`, extended by `PageMap`; `Heap`, `Boot`, `Process` (7) | `PageMapProofs` | physical pages, page tables and big blocks; small heaps; the memory map at boot; loading and ending processes | `MCMemory` |
| `Keyboard`, `Terminal`, extended by `Shell`; `Format`, `Interrupts` (8) | `KeyboardProofs` | from a scan code to the screen; formatted output; interrupt controllers, devices and the start | `MCConsole` |
| `PupCache`, `CachePages`, `PupVolume`, `Mkfs` (9) | `PupProofs` | the file system's block cache, its entries' pages, volumes and block bitmasks, the mkfs tool | `MCFiles` |

`MCMemory`, `MCConsole` and `MCFiles` each take several modules that share no state
(the code they stand for shares none either, except through calls that the modules
take as inputs). The variable `part` is chosen in the first state and says which of
them the behaviour exercises; the others keep their first state. So one run explores
the sum of their state spaces, never the product, and a property of a part is checked
on all behaviours of that part. The modules that have theorems are taken by
`EXTENDS`, so that the run checks the very definitions the theorems are about:
`MCMemory` extends `VRanges` and `PageMap`, `MCConsole` extends `Stream` and `Keyboard`,
`MCFiles` extends `IDECopy`, `PupCache`, `PupVolume`
and `CachePages`. That is why the latter have names like `MapInit`, `CacheNext` and
`VolumeSpec`. The other parts are instances, each with variables of its own.

### What is proved

| theorem | hypothesis beyond the assumptions on constants | checked as |
|---|---|---|
| `TypeCorrect`, `OneListAlways`, `ListsMatchAlways`, `LifecycleAlways` | no timer at `detach_check` | `TypeOK`, `OneList`, `ListsMatchStates`, `Lifecycle` |
| `WaitedThreadsLive` | no timer at `detach_check` | `WaitedThreadLives` |
| `WaitReturnsRight` | no timer at `detach_check`, `term_return` | `WaitReturnsValue` |
| `StreamTypes`, `ReadsStayInTurn`, `StreamKeepsPromise` | none | `TypeOK`, `ReadsInTurn`, `ChannelSpec` |
| `RangeTypes`, `RangesStayRight`, `AllocatorKeepsPromise` | `UsesAssumption` | `TypesOK`, `RangesRight`, `AllocatorSpec` |
| `MapTypesRight`, `ListsRight`, `AllocationsRight` | `MapAssumption`, `TablesAlone`: nobody maps in a directory entry whose table is being made | `TypesOK`, `PageListsRight`, `AllocationsBacked` |
| `TypedAsMeant` | `KeyAssumption`: every scan code is one of the table's | `KeysAsMeant` |
| `CacheTypes`, `ReadsRight`, `ListStable` | none; in `ReadsAreRight`, entries whose condition began as clear | `TypesOK`, `ReadsAreRight`, `ListStableWhileRead` |
| `OwnersRight` | `VolumeAssumption`; in the property, a volume whose size fits in 32 bits and that its tables leave room in | `BlocksAreOwners` |
| `EntriesStayRight` | `PagesAssumption` | `EntriesKept` |
| `DiskTypes`, `QueueStaysInOrder`, `ReadsComplete`, `BuffersLent`, `CmdsAreReused` | none | `TypeOK`, `QueueInOrder`, `ReadReturnsAll`, `BufferStillLent`, `CmdsReused` |
| `ServedReadsRight` | `AllServed`: only reads of the kinds that the handler serves | `ServedRight` |

Only model-checked, and why:
 - the liveness properties: fairness and ENABLED are beyond the prover;
 - `ChunksRight` of `Heap` (sizes are powers of two, whose laws need induction over
   data), and the lines of `Shell` and `Format` (recursive operators, which the prover
   does not take);
 - `ProcessPagesRight`, `BootMemoryRight` and `SessionRight`: no proof yet.

What is left for the plan: the keyboard's handler, the heap and the range allocator split at the allocator's lock, in one
composition, for the deadlock that a handler's allocation could cause.

## 3. Sched: threads and their scheduler

### State

`cur` is `k_proc_core_state.current_thread` and `spc` where the scheduler is in
`k_proc_RunScheduler` or `k_proc_RunThread`. `list` holds the lists that are
threaded through `queue_next`: the global ready, waiting and delete lists, the
pool, and the local ones of the scheduler (`scan`, `resume`) and of the cleanup
thread (`doomed`). `pc[t]` is the step of the operation a thread is in, with
`arg[t]` its operand; `state`, `detached`, `cond`, `wait` and `ret` are the fields
of the thread's structure. `owner` is the one piece of ghost state: who holds the
handle of a thread, so that a handle is not used after it was detached (the code's
callers, `k_proc_WaitProcess` and the system call, use it so).

### Actions

One action per group of instructions between two points at which another party
can see a change. `SchedTakeWaiting`, `SchedTestWaiting`, `SchedResume`,
`SchedPick` and `SchedRequeue` are the scheduler's loop; `CleanTry` to `CleanDone`
and `DestroyThread` are `k_proc_CleanupThread`; `Create*`, `Wait*`, `Detach*` and
`Term*` are the operations of a thread; `Timer` is the APIC interrupt, allowed at
the points `TimerPoints` names. Interrupt handlers appear as `SignalCondition`.

### Runs

| run | timer | bound | shows |
|---|---|---|---|
| `sched_safety` | everywhere but at `detach_check` and `term_return` | three slots | type, `OneList`, `ListsMatchStates`, `WaitedThreadLives`, `WaitReturnsValue`, `Lifecycle` |
| `sched_progress` | also not under a list's lock nor inside the ending | two slots, one device condition | `SchedulerGetsLock`, `ReadyRuns`, `JoinerResumes`, `DetachedReclaimed`, no deadlock |
| `sched_value` | everywhere | three slots | violation of `WaitReturnsValue` |
| `sched_spin` | everywhere, with fairness | two slots, one condition | violation of `SchedulerGetsLock` |

Three slots are enough for a creator, a thread that ends, and a third that takes
over the slot of the second while the first still works on it; with two slots
nobody can recycle a slot under somebody else. The bound on slots stands for the
pool's growth by a page, which adds slots and changes nothing else. `sched_safety`
does not check for deadlock: there the scheduler may spin for good on a lock whose
holder was preempted, which is what `sched_spin` is about.

What each excluded point costs, found by putting it back: at `create_unlock`,
`detach_unlock` or `clean_unlock` the scheduler hangs (`sched_spin`); at
`term_return` the joiner reads an old value (`sched_value`); at `term_signal` it is
never woken; at `term_mark` a detach in between leaks the slot; at `detach_check`
the slot may be destroyed and used again before the test, so that a live thread is
detached or one is put on the delete list twice.

### Fairness

The scheduler's steps are weakly fair: it runs with interrupts off, so it always
goes on. The steps of the cleanup thread, of a thread inside an operation, and
the timer are strongly fair: they are enabled only while the thread has the
processor, and a time slice is longer than a step. Nothing is assumed of what
threads call; a thread may compute for ever.

### Proofs (`SchedProofs`)

For every set of threads, every pool and every set of timer points without
`detach_check`: `TypeCorrect`, `OneListAlways`, `ListsMatchAlways` and
`LifecycleAlways`. The hypothesis is needed: with the timer at `detach_check`,
TLC finds `OneList` violated. The assumptions are those of `Sched` about its
constants: the slots, the conditions and the two special threads are different
objects, and the free list holds every slot but `Main`'s, once.

`OneList` is not inductive: an insertion keeps it only if the thread is on no list
at that moment, which depends on who inserts. The invariant `IInv` adds
 - `Matches`, which is `ListsMatchStates` list by list;
 - `Processor`: the thread that has the processor, or had it last, is on no list;
 - `Finished`: a thread that is over is in no operation but `TerminateThread`;
 - `LocalLists`: the local lists are empty outside their loops, so taking a whole
   list loses nothing;
 - `PoolLock`: the holder of the pool's lock finds a slot;
 - `Operands`, `Creators`: a thread under construction is known to its creator only;
 - `Detachers`: the flag lets one `DetachThread` through for each thread, and what
   it found TERMINATED stays so, and off the lists, until it is queued.

The lemmas `PushFront`, `PushBack`, `PopHead`, `TakeList` and `ConcatList` say what
the five ways of changing a list do to membership and exclusivity; each action's
lemma uses one or two of them. `Invariance` combines them; the others follow.

The second half of `SchedProofs` is about handles, and needs another invariant on top of
`IInv`.
That a slot survives while somebody waits for the thread does not follow from the
lists: it is the protocol of its callers, that only the holder of a handle waits for
the thread or detaches it, and does one after the other. `HInv` says so:
 - `Holders`: who waits for or detaches a thread holds its handle, and waits only
   while the detached flag is clear;
 - `Held`: a thread whose handle is held exists, and so does its holder; once the flag
   is set the holder is inside `DetachThread`;
 - `Flagged`: nothing becomes DETACHED but through the flag;
 - `UnderLock`: between the insertion and the release of the lock the thread stays in
   the queue, so its slot is not destroyed before the holder has let go of the handle;
 - `Fresh`: nobody holds the handle of a thread that is still being created;
 - `Blocked`: a thread that is blocked waits for its operand.

`WaitedThreadsLive` follows from these. For `WaitReturnsRight` the invariant `Values`
follows the value through the three ways a wait can end, each of which sees something
else: the state TERMINATED (`Ended`), the condition when it is tested (`Announced`),
the condition when the scheduler tests it (`Resumed`); `Delivered` is what they lead
to. `Ended` holds because a thread between its end and its value has the processor,
which is what the hypothesis about `term_return` is for.

Only model-checked: the four liveness properties.


## 4. Stream: bytes from the keyboard's interrupt to a thread

### State and actions

A stream (`k_io_stream_t`) is a chain of buffers (`next`, `last`, `data`), a read
and a write position in it (`rbuf`, `roff`, `wbuf`, `woff`), the count `avail` and
the condition `cond`. Bytes are numbered in the order of writing, so that a byte
that is lost, repeated or overtaken can be told from the right one. `got` is what
the reader has been given.

`WriteStreamData`, `WriteCopy`, `WriteCount` and `SignalStream` are the keyboard's
handler; `ReadStream`, `WaitStream`, `ReadTest`, `ReadCopy`, `ReadLoad`,
`ReadStore` and `ReadDone` the thread in `k_io_ReadStream`. The handler runs behind
an interrupt gate: the reader makes no step while `hpc` is not `idle`, and the
handler may start between any two steps of the reader, also between the load and
the store of `available_count -= data_offset` (the kernel is built with `-O0`).

### Part `stream` of the run `console`

| property | says |
|---|---|
| `ReadsInTurn`, `EveryReadDelivers` | no read returns without a byte: `k_sys_TerminalReadLine` does not look at the status |
| `ReadsInTurn`, `ReadsBehindWrites` | the reader copies only what has been written, although the count may be wrong |
| `ChannelSpec` | the stream implements `Channel`: the bytes come out once each, in order |
| `KeyWakesReader` | a key that finds a reader waiting makes its read return |

The last two properties hold although updates of `avail` do get lost. What keeps
the stream right is that every lost update is on the safe side (`avail` is never
more than what is there) and that the condition is only left signalled by a write
whose bytes are counted. The price is that bytes whose announcement was overwritten
stay in the stream until the next key: "every byte is eventually read" is not a
property of this code, and the liveness property is about keys that find a waiting
reader.

Bounds: buffers of `BufSize` 2 bytes, reads and writes of 1 to 3 bytes (ending
inside, at and beyond a buffer's end), `MaxBytes` 6 bytes in all, four buffers. The
count, the offsets and the buffers only meet in differences and remainders, so
three full buffers show every boundary case. Fairness (`FairSpec`): a handler that
has started ends (nothing can interrupt it), and the reader is scheduled again and
again between handlers (`ReadyRuns` of the scheduler). Writing is not fair: nobody
has to press a key. Deadlock is not checked for the same reason.

Assumed: `buffer->next` and `stream->read`, which the code does not set, are zero,
as in a page that was just mapped. Not modelled: `k_io_FreeStream`, clearing reads
(no caller sets the flag) and the flags that block a stream.

### Proofs (`StreamProofs`)

For buffers of any size, any reads and writes and any number of bytes, without
further hypothesis. The invariant:
 - `CountsRight`: `avail` with what is copied but not counted yet never exceeds what is
   between the two offsets, whatever updates were lost. It is an inequality, because a
   count that the handler raises between the reader's load and store is lost;
 - `SignalsRight`: a condition that the reader will see signalled stands for a byte
   that is counted;
 - `ChainRight`: the buffers form one chain, of which the write position is in the
   last, and each written place holds its byte;
 - `GotInOrder`: what the reader has is the bytes up to its offset.

`StreamKeepsPromise` is the refinement: each step is a step of `Channel` or leaves its
variables alone.

## 5. VRanges: the allocator of virtual address ranges

### State and actions

`ranges` is the array `k_mem_virtual_ranges.ranges`, unused slots included,
`free_count` and `range_count` its two marks. `held` is ghost state: which ranges
callers have got and not given back. `AllocSplit` and `AllocExact` are the two
branches of `k_mem_AllocVirtualRange`, with the loops that shift entries as
`MoveUp` and `MoveDown`. `FreeVirtualRange` is the whole of
`k_mem_FreeVirtualRange`, its four cases as `MergeBoth`, `MergeNext`, `MergePrev`
and `NoMerge`; an address that starts no used range changes nothing. Each operation
holds the allocator's spinlock from the first read to the last write and is one
step.

`RangeAllocator` is what callers rely on: a range that is handed out consists of
pages of the arena that nobody holds, and stays with its holder. `AllocatorSpec`
says that `VRanges` implements it.

### Runs

`use` is chosen at the start and says what callers do: in `partial` no request takes
a whole free range, in `keep` nothing is given back, in `any` neither restriction
holds.

| run | `Uses` | shows |
|---|---|---|
| `memory`, part `vranges` | `partial`, `keep` | `RangesRight`: the free part is sorted, merged and complete, no gap is overlooked, `AllocatorSpec`; in `partial` the used part is what callers hold |
| `vranges_exact` | `any` | violation of `UsedRangesAreHeld` |

The branch for a request that takes a whole free range writes `size` into the
entry's `start` and, because the entries up to the used range's place were moved
down first, writes it one slot too far. The range is handed out properly (that is
what `keep` shows), but the entry that should let it be freed names another range.
`vranges_exact` is that violation.

Bounds: a page of 4 bytes, requests of 3, 4, 5 and 12 bytes (one, one, two and three
pages: rounding up from below, exactly and from above), two ranges at boot that do
not touch (`TwoRanges`), `Cap` entries. Two boot ranges make every combination of
neighbours occur; `Cap` is more than the arena can be cut into, so the
bound is never what stops a request.

### Proofs (`VRangesProofs`)

For any free ranges at boot, any sizes and an array of any length. The hypothesis
`UsesAssumption` is that callers keep to `partial` or `keep`: with `any` the promise is
broken (`vranges_exact`). The invariant:
 - `FreeApart`: the free entries are sorted and no two of them touch;
 - `PagesSplit`: every page of the arena is free or in use, never both. This is what
   ties the array to the callers, and what the refinement rests on;
 - `HeldApart`: what callers hold is disjoint;
 - `UsedListed`, for `partial`: the used part of the array is sorted and has exactly
   the ranges in use, so that the search for an address finds it;
 - `LastStays`, for `partial`: behind a range that is given back there is a free one,
   so the search for its place does not run into the used part.

The lemmas `MovedUp`, `MovedDown`, `ReplacesRight` and `Merged` carry the loops: what
a shift does to each place, and that each of the four ways to merge replaces a run of
neighbouring free entries by one with the same pages.

## 6. Disk and IDECopy: reading from a disk

### Disk: state and actions

The pool: `pages` (in the order of `cmd_pages`), the place `cur` of
`cur_cmd_page`, `next_free`, `used_count`. The queue: `cmds` and `last_cmd`. Both
run through the commands' field `next`, as in the code. Of a command's address and
size the module keeps how many sectors it covers (`blocks`) and how many of them
have been copied (`copied`); `condition`, `transfer` and `sectors` are its other
fields. `pending` is what the controller has still to deliver. `order` is ghost
state: the commands linked and not yet taken.

| actor | actions | code |
|---|---|---|
| reading thread | `AllocFromPage`, `AllocNewPage`, `EnqueueTest`, `EnqueueFirst`, `EnqueueAppend`, `EnqueueLast`, `WaitCmd`, `FreeDiskCmd` | `k_dev_DiskRead` and what it calls |
| driver thread | `TakeHead`, `LoadNext`, `StoreNext`, `TestTail`, `ClearTail`, `ReadNothing`, `ReadStart`, `ReadIssue`, `ReadTurn` | `k_dev_DiskThread`, `k_IDE_Read` |
| interrupt | `SectorRead`, `SectorError` | `k_IDE_InterruptHandler` |

The pool's operations hold `cmd_page_lock` and are one step. The queue has no lock,
so every access to it is a step of its own. `readers` is chosen at the start: a
single reader and the driver are preempted anywhere; with several readers the timer
is kept out of the queue's operations (from the test to the tail in
`k_dev_EnqueueDiskCmd`, from the head to the tail in `k_dev_DiskThread`).
A wait for a condition is a guard; how threads wait and wake is `Sched`'s subject.

### Runs of Disk

| run | threads | `Errors` | shows |
|---|---|---|---|
| `disk_safety` | up to 3, pages of 2 commands | yes | type, `CmdsReused` (`CmdsAccounted` and `NoIdlePage`), `QueueInOrder`, `ReadReturnsAll`, `BufferStillLent` |
| `disk_return` | up to 2, pages of 1 command | no | `ReadReturns`, no deadlock |

* One reader is how the kernel uses the disk today (only the shell reads): the
  missing lock does no harm. `last_cmd` does go stale (the driver may take a command
  before its thread has stored the tail), but it is only read when the queue is not
  empty, and with one reader it then never is.
* With several readers and the timer anywhere the queue is not safe: two threads can
  both find it empty, and a thread can append to a head that is being unlinked.
  With the timer kept out of the queue the runs show that everything else (the reuse
  of commands, the pages, the driver's portions) is right for several readers.
* `ReadReturns` depends on a detail: the driver may still be waiting for
  `transfer_condition` of a command that its reader has freed and another thread has
  taken. It wakes up only because `k_dev_AllocDiskCmd` leaves that field alone (the
  line that would clear the whole command is disabled; the mutant
  `AllocFromPage_Clear` enables it and the driver hangs).
* After an error the driver waits for ever, and every later read with it. The code
  says nothing about what should happen, so `disk_safety` checks what still holds and
  allows the deadlock; `ReadReturns` is checked without errors.

Bounds: `MaxSectors` 2 and reads of up to 3 sectors give reads with one and with two
portions (`disk_return` has reads without any, too); three threads on pages of two commands need a second page and go
back to the first. A third page is there so that a page added in vain would show.
The threads of `disk_safety` are symmetric: no definition names one. Fairness
(`FairSpec`): strong for the threads and the driver (the scheduler runs each of them
again and again, and whoever runs is alone in the queue), weak for the controller.

Proved (`DiskProofs`), for any number of readers, pages, commands in a page and sectors
in a portion, with and without errors: `DiskTypes`, `QueueStaysInOrder`,
`ReadsComplete`, `BuffersLent` and `CmdsAreReused`. The assumptions are `Disk`'s: pages
and portions are not empty, the first page is one of the pages, there are finitely many
threads, and null is neither a command nor a thread. None of the invariants is inductive:
that a read returns with all its sectors depends on the driver's portions, these on whose
command the driver has, and that on the queue. `IInv` has
 - `Alone`: there is one reader, or nobody shares the queue;
 - `ThreadsRight`: what each place in `k_dev_DiskRead` relies on. A command that is about
   to be linked has a null `next`; whoever appends finds the tail right; a command whose
   condition is set has all its sectors, unless there was an error;
 - `QueueRight`: the links run through `order`, everything in it is waited for and
   untouched, and `last_cmd` is right unless a thread is between its two stores;
 - `DriverRight`: what the driver has taken is waited for and no longer queued, and while
   it waits for the controller one of three things holds. `Serving`: copied, owed by the
   controller and left for later portions add up to the read. `Delivered`: the last sector has
   come, and the command may be another thread's by now, so nothing is said about it but
   that its `transfer_condition` is set. `GivenUp`: there was an error;
 - `PoolRight`: every page's free list, and no free command before `cur`.

A single reader needs no lock because of `TakenWaited`: the driver is inside the queue only
for a command that somebody waits for (`NoClash`); with one reader that is its own, so it
is not about to link another. Its last store, to `last_cmd`, may still
be due, which is why the tail is only promised when nobody is at `last`. The link `next`
serves the free lists and the queue, and the proof keeps the two apart: free lists run
through commands that nobody holds (`PoolKept`), the queue through commands that are held
(`PoolStep`). `Popped`, `Pushed` and `ChainedRight` say what taking, giving back and a new
page do to a list.

### IDECopy

The bytes of one read. A byte of the disk is represented by its address, and the
memory behind the caller's buffer is kept, so that a byte in a wrong place and a
byte too many both show. `SectorRead` is the handler for one sector: words before
the position are thrown away, at an odd position half a word is, then whole words
are copied, limited by the size of the whole read.

Part `copy` of the run `files` takes the reads of `Served`: inside one sector with position and size
of the same parity, up to the end of a sector, or an odd number of bytes from a
sector's last byte into the next. They get their bytes, keep what is behind the
buffer and are told. On this instance no other read is ever told: `ide_any` takes
all reads and violates `CallerTold`. A read of an odd size from an even address never completes,
and one that ends inside its second or a later sector runs over the end of
the buffer and does not complete either (but for the third case above). The file
system reads whole blocks and, when it mounts, the root structure from the start of
a block, which are served. Addresses of more than 32 bits, which
`k_dev_DiskRead` cuts off, are not modelled.

Bounds: sectors of 8 bytes, every position in two sectors, sizes from 0 to 24. The
copy depends on position and size only through the remainder by 8 and by 2 and
through the number of sectors. A read that has been served stops, so deadlock is not
checked.

Proved (`IDECopyProofs`): `ServedReadsRight`, `ServedRight` for sectors of every even
size and for every position and size of a read, under `AllServed`: `Requests` has only
reads of the kinds `Served`. The hypothesis is needed, as `ide_any` shows. `IInv` has
the three stages of a read. In `First`, nothing is copied and the position is
`SkipCount`. In `Later`, the handler is at the start of a sector and what is left
fills whole sectors, or the read began at the last byte of a sector, and an even
number of bytes is left in one more. In `Finished`, all is copied and the caller has
been told, at the last sector. `Written` says what the buffer and the memory behind it
hold at each stage. `CopiedWords` computes what one sector gives, the byte at an odd
position and the words that both the sector and the buffer have; `FirstSector` and
`LaterSector` compare that with what is left, for each kind of read, and `CopyKeeps`
is the step itself. `NoSectors`: a read that needs no sector has no bytes, so that it
is right to signal it at once.

## 7. Memory: PhysPages, PageMap, Heap, Boot, Process

| module | state | actions |
|---|---|---|
| `PhysPages` | each range's stack of `free_pages`, the headers `used_pages` (index and flags); ghost: `held`, pages callers have | `AllocPhysicalPage`, `FreePhysicalPages` |
| `PageMap` | `pdir`, `table`, the allocations `live`, and `call`, how far each caller has got and its local variables | `BigAlloc`, then for each page `BigAllocPage` and `MapLinearAddress` as `TestTable`, `AllocTable`, `LinkTable`, `ClearTable`, `EnterPage`; `BigFree` in four steps. The steps of several callers are interleaved |
| `Heap` | each thread's `buckets`, the bucket every page was cut for, ghost: what is `given` out | `Malloc`, `Free` |
| `Boot` | `stage` of `k_mem_Init`, the firmware's ranges, the areas cut out of them, the pages, the virtual ranges | one action per part of `k_mem_Init`; `MapNext` is one `MapKernelData` |
| `Process` | free pages, their contents, processes with their maps, the place a load is `at` | `CreateProcess`, `LoadPage`, `NextSegment`, `FinishProcess`, `TerminateProcess` |

| run `memory`, part | shows |
|---|---|
| `map` | `PageListsRight`, with `FreeIndexRight`: a free page's header names its place in the stack. `HeldNotFree`: a free stops at the next allocation. `LastRangeKept`: the walk that does not stop at the first page loses pages of every range but the last. `AllocationsBacked`, with `LiveIsBacked` and `BackingIsPrivate`: allocations have pages of their own, although `BigFree` unmaps only the first page and addresses are used again over what it left |
| `heap` | `ChunksRight`, with `ChunksPartitionPages` and `ChunkHasRoom`: in any order of calls, by any thread, the chunks listed and given out cover each page exactly; `k_rt_Free` has the address only and finds the right heap and bucket |
| `boot` | `BootMemoryRight`, for memory maps where every prange gets written and no size wraps: `AreasApart`, arrays and pages do not overlap, and, where each area lies behind the one before, `OtherPagesStayFree` |
| `process` | `ProcessPagesRight`: `Loaded` for plain images (`Plain`), over pages with old contents; `PagesAccounted` for all images |
| `vranges` | section 5 |

The run `boot_headers` is the violation of `HeadersSuffice`: the headers are counted
before their own pages are taken out and the pages after, and the rounding may leave
the last page without headers. What the code does outside the other conditions, each
found with TLC by leaving the condition out:
 - without `TablesAlone` `AllocationsBacked` fails: two callers find one directory entry
   unused, both make a table, and the second's drops the mappings in the first's
   (pmap.c:38); the locks of `rt/alloc.c` (lines 35, 56, 65 and 81) that would keep the
   callers apart are commented out. The model has both stores, and takes no lock;
 - without `InOrder` `OtherPagesStayFree` fails: where both sides of a virtual range remain,
   the loop that should move the ranges behind it up (mem.c:160) never runs, so that
   the new range takes the next one's place;
 - without `Plain` `Loaded` fails: the padding is counted from the size of the copy and
   not from the place in the page (proc.c:336), so the zeros behind a segment that starts
   inside a page cover its last bytes, and in a page two segments share those in front of
   a segment cover the other one's. Where the memory of a segment goes on in pages of
   which the file has nothing, nothing is written to them (`Stale`).

`Boot` keeps `prange_count` as it was before the headers were cut (mem.c:294), so that a
block they use up leaves a prange that nothing writes: it is then any of `Leftovers`.
Sizes wrap at `Wrap`. `LoadPage` puts bytes of the file, zeros, or nothing in each byte
of a page: `Stale` is what the page held, `Unmapped` a byte with no page.

Bounds. `map`: two callers, two directory entries of two addresses, ranges of two and six
pages, allocations of one and two pages, two of them at a time: both tables get
made, and allocations meet the addresses of earlier ones. A call waits while the last
range has no page (`RoomLeft`): without a page the code would go on with address 0.
What the processor keeps of old page tables (the TLB) is left out; the code
accesses a table through the directory entry as it is at that moment, and so does the
model. `heap`: three units to a page and chunks of one and two units, so that a page is
cut for either bucket, with a rest; two pages, three things given out. `boot`: pages of
32 bytes, RAM in two blocks of several places and sizes, aligned and not, some used up
by the headers, numbers that wrap at 2048. `process`: three processes, segments that start
and end anywhere, share pages, and go on in pages of which the file has nothing.

Proofs (`PageMapProofs`), for any ranges of RAM, any callers, any number of tables and
entries and any lengths. `MapAssumption` asks that the header behind the last one of a
range reads as zero (`UsedBeyond`; the walk of a free looks there), and `TablesAlone` is
the condition that the code does not keep by itself. The invariant:
 - `ListRight` and `FreeIndexRight`: the page at each place of a free list has a header
   that names the place, so that one page is never listed twice;
 - `LastInUse`: a page of the last range is in use exactly if it was given out or is a
   table, and no page is both or two tables;
 - `MappedRight`: every address that leads to a page has it alone. It speaks of the
   addresses `BigFree` leaves mapped, too: without them the allocations' pages could
   not be kept apart when addresses are used again. A table that is linked and not yet
   cleared counts as empty (`Q`): whatever lies in it, nobody looks;
 - `LiveRight`: the allocations are apart and mapped;
 - `CallRight`: of each call under way, the addresses and pages it has taken are its own
   and as much of them is mapped as its step says (`Owning`, `Holding`, `TableRight`);
 - `CallsApart`: no two calls hold one page, one address or one table.

Out of the prover's reach is `Heap`: the sizes of chunks are powers of two.
`BootMemoryRight` and `ProcessPagesRight` are only model-checked.

What the modules contain but no property promises: pages that `BigFree` leaves
mapped are never used again; the last page of an area that ends inside a page stays in
the virtual ranges; a stack page stays mapped in the kernel; the process list is not
kept (`prev` is the process itself). No live code creates a process.

## 8. The console: Keyboard, Terminal, Shell, Format, Interrupts

| module | state | actions |
|---|---|---|
| `Keyboard` | bytes in the controller, the modifiers of `k_dev_keyboard_t`, the bytes `typed` into the stream; ghost: keys held down, bytes expected | `Press`, `Release` of the environment; `Scanset1Key` |
| `Terminal` | operators on a record: the ring of rows, the cursor in the ring and on the screen, the scroll | `TerminalPuts` and what it calls, `Screen` |
| `Shell` | the terminal, the line being read, the characters waiting, whether the line has a zero | `PrintPrompt`, reading a character, carrying out a line, the crash handler's question |
| `Format` | the format, the argument, the output array | one turn of `k_vasfmt` |
| `Interrupts` | lines requested and in service in both controllers, handlers, devices, the disk's command | `Interrupt`, the steps of `k_Init`, `DeviceReady`, disk commands |

| run `console`, part | shows |
|---|---|
| `keyboard` | `KeysAsMeant`, with `ModifiersAsHeld` and `CharsAsTyped`: with any keys pressed, repeated and released, the modifiers are those held down, and every press of another key writes the byte of its table, which is a zero for a key without a character |
| `shell` | `LineAsSeen`, with `CursorsAgree`: ring and screen stay joined; `ScreenShowsLine`: what is on the screen before the cursor is what the command will be, for a line without zeros; `LineFits` |
| `format` | `TextRight`, with `PrintedAsMeant`: the output of a format that is `Understood` is that of a reference definition; `EndsInArray`: the zero behind it lies in the caller's array, although lengths of what did not fit are counted |
| `interrupts` | `InterruptsAnswered`, with `NothingLeftInService`, `StartEnds` and `DiskAnswers` |
| `stream` | section 4 |

A key without a character (Control, Tab, an arrow, the keypad's slash) writes a zero
into the stream, and one whose number is behind the tables' ends (Escape, the function
keys) the byte that lies there: `KeyLut` and `ShiftKeyLut` are the tables with what
follows them. The shell stores a zero in its line and prints nothing, so from then on
the screen lacks a character, and a backspace erases one of the prompt or of the
line instead; commands are compared up to the first zero. `ScreenShowsLine` therefore
speaks of lines without one (`unseen`); the cursor and the buffer's end are right
with any.

`Understood` leaves out what `k_vasfmt` reads otherwise than it is written: a modifier
stays set, so that a `%x` behind a `%llx` takes two words; an unknown directive prints and
reads nothing; a percent sign at the end steps over the format's zero. The run has these
formats, and the end of the array is kept with them (`EndsInArray`), but not the end
of the buffer: the length of a hexadecimal number that does not fit is counted all the
same (k_string.c:234), and the last zero lies up to fifteen bytes behind the buffer.
`k_sys_TerminalPrintf` passes less than the size of its array.

`k_Init` takes interrupts before the keyboard's handler is set. A key pressed then is
dispatched to no handler and never acknowledged; its line stays in service and holds
back the disk's, for whose answer the start then waits. `lost` records such a key, and
the three properties are stated for behaviours without one.

Fairness: in part `interrupts` the processor's steps, the disk and the taking of
requested lines are weakly fair: nothing else runs on the processor. Pressing a key is
not fair. Part `stream` has the fairness of section 4.

Bounds: five key events of a key with a character, one without, one behind the prefix, one
behind the tables' ends, and the modifiers; a display of two rows of three cells over a ring of five
rows, six characters typed (lines longer than a row, than the screen and than the
buffer); formats of up to three turns, with numbers on both sides of every power of
the base and at both ends (words of nine bits); four ticks and keys, two disk commands.

In `Terminal` rows that scroll into view are cleared, but at the ring's end the rows
behind it are cleared in other memory; old text may then be in view below the cursor.
A second byte behind the prefix is always there when it is read. Codes that the scan code
tables have no entry for (the Windows keys, Pause) are left out: the key read from
behind the tables could be any, a modifier included. A `%s` that takes a number for an
address, after a directive that was not understood, is left out as well.

Proved (`KeyboardProofs`): `TypedAsMeant`, `KeysAsMeant` for any keys and any number of
events. `KeyAssumption` says that the prefix 0xe0 is no key, that no modifier is among
the other keys, and that the tables have a byte for each of these. `CharsAsTyped` says something only of what has been decoded, and
`ModifiersAsHeld` only of an empty controller; neither is inductive, since the handler may
be any number of bytes behind. `IInv` looks ahead (`Ahead`): there is a sequence of modes,
one for each place in the controller, that begins with what the handler keeps (`Kept`), goes
on as the handler would at each byte (`Turn`) and ends with what the user means (`Meant`);
and what is written on the way is always a beginning of what is expected. A key event makes the
sequence longer at one end (`Arrive`), the handler shorter at the other (`Advance`).
`Paired` says that no prefix is without its byte, so the handler never takes a shift
behind a prefix for a key, nor the reverse.

## 9. Files: PupCache, CachePages, PupVolume, Mkfs

| module | state | actions |
|---|---|---|
| `PupCache` | the set's lock and count of readers, its list, the entries; each thread's place in a read | one per step that others can see of `k_fs_PupRead`, `PupFindCacheEntry`, `PupFindOrLoadCacheEntry` |
| `CachePages` | the pages of entries, the current one, free entries, freeable pages | `AllocFromPage`, `AllocFromNewPage`, `FreeCacheEntry` |
| `PupVolume` | the disk's blocks that matter, the mounted root and bitmask, threads in `AllocBlock` | `FormatPartition`, `MountVolume`, `UnmountVolume`, `AllocBlock` with `ReadByte`, `GetBlock` and `SearchAgain` |
| `Mkfs` | the line buffer, whether the input has ended, the image in memory, files | `WithArgument` (`create`, `mount`, `save`, `cd`, `mkdir`, `mkfrom`), `NoArgumentTaken` (`dir`, `tree`, `interactive`, `quit`, anything else), each on the text that `ReadLine`, `ReadLastLine` or `ReadNothing` leaves in the buffer |

| run `files`, part | shows |
|---|---|
| `cache` | `ReadsAreRight`: a read over several entries, which other threads load at the same time, returns its blocks in order, if its entries began with their condition clear; `ListStableWhileRead`; `EveryReadEnds` |
| `pages` | `EntriesKept`, with `EntriesOnce` and `NoEntryMissed`: no entry is given twice, none is out of the cursor's reach |
| `volume` | `BlocksAreOwners`, with `BlocksGivenOnce`, and `BlocksOutsideMetadata`, `BitmaskLargeEnough` for volumes of several sizes that fit (`VolumeFits`) |
| `mkfs` | `SessionRight`, with `ArgumentAsTyped` and `MountBringsBack`, in interactive mode, for lines that end in a newline |
| `copy` | section 6 |

Fairness in part `cache`: weak for each thread's steps, as the scheduler runs each
again and again (`ReadyRuns`), and a thread that spins gives way to the timer.

Two threads that miss one block both load it, and the block is cached twice: the
second look is before the lock. As nothing writes to the cache, reads stay right. If
the second look after a failed attempt for the lock finds nothing the code goes on
with a NULL entry; this is the state `fault`, in which a read ends too.

What lies outside these conditions, each found with TLC by leaving the condition out:
 - without `BeganClear` `ReadsAreRight` fails: `k_fs_PupAllocCacheEntry` never sets an entry's
   condition (pup.c:239), so that one left set by its last use, or by the memory's,
   lets a reader pass before the block is loaded. `NewEntry` takes the condition as an
   input, and `was_set` keeps what it began as;
 - of volumes whose size in bytes wraps (pup.c:81, from 2^20 blocks on) `BitmaskLargeEnough`
   is false: the bitmask has no bit for most blocks. `Bytes` wraps at `Wrap`, as does the
   count of free blocks (`Free`);
 - of volumes with fewer blocks than their tables take `BlocksOutsideMetadata` is false: the
   count of free blocks is near 2^32 (pup.c:667). The search then leaves the bitmask
   (`Outside`), reads memory of others (`BytesRead`), any byte at all, and gives out
   blocks behind the volume's end.
An image is saved and loaded with `Bytes` of it; a volume that this cuts off before the
end of its tables is not mounted again (`TablesSaved`), for then nothing is known of
its bitmask.

Proofs (`PupProofs`). For any finite set of threads, any size of an entry and any
volume: `LockHeld` and `ReadersCounted` say where the lock is held and that `read_count`
is the number of threads between counting in and out; from them the list is stable
while it is read (`ListStable`). `EntryCovers`, `LoadedFirst` and `CopiedSoFar` say that
the entry a thread works on has its next block, that an entry is used only when
loaded, and that what was copied is the request's part before `first_block`; entries
are appended and stay loaded (`Grown`), so what another thread does keeps them.
For any threads and volumes: `OwnersRight` promises nothing of a volume that does not fit. It
rests on
`SearchesRight` (a thread about to swap a byte read its bit as clear), on
`OwnedMarked` (every block given out has its mark, in memory while mounted and on the
disk after) and on the layout, the arithmetic of the bitmask's size, where `Wrap` is any number.
For any pages, and any number of entries on one above zero (`PagesAssumption`):
`EntriesStayRight` rests on `ListsRight` (no page is twice in a list or in both, and
`index` of a page is its place in `entry_pages`), on `CursorRight` (the pages before the
one where allocation begins are all given out) and on `EntriesRight` (of each page the
free entries, each once, and those in use together are all). `DropPage` needs all three:
the pages behind the one given up are renumbered, and the cursor, if it stood on the
page, goes back to the first, where nothing lies before it. Without `index` in the
invariant `LowerPage`, which compares two indices, could leave a free entry behind.

Outside of interactive mode a line of `Mkfs` has one zero behind it, and a name
without a value takes as its value what an earlier line left there; the two properties
say nothing of that mode, where an error ends the tool. At the end of its input the
interactive tool does not end: a last line without a newline loses its last character,
and then the old line is parsed again and again, a character shorter each time
(`Cut`; of a command or a name only a `Fragment` is left), until the code writes in front of
the buffer, where the model stops. A file that was saved without an image is empty;
mounting it frees the image in memory and mounts what lies in other memory, or faults.

Bounds: two threads, three of four blocks, two to an entry; four pages of two cache
entries; volumes of 3 to 40 blocks (those of 3 and of 40 do not fit) of two bytes, with
sizes that wrap at 64 (bitmasks that end inside and at the
end of a block), three allocations; sessions of five lines.

## 10. Not modelled

* Object pools (`rt/pool.c`): their only user is the table of PUP nodes, which no live
  code reaches. Object lists and queues have no caller; the ring buffer is empty.
* The PUP node tree, directories, file handles and paths: their functions are
  commented out in the source or return at once.
* System calls: a table of one-line forwards. Exceptions: they stop the machine.
* PCI, ACPI, VGA, the local APIC: register access without decisions.
* `k_main.c`: apart from starting the shell its functions are commented out.
* Writes to disks of type DISK: the IDE driver has no function for them.
* `rt/string.c`: pure helpers without state.
