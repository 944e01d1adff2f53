-------------------------------- MODULE Disk --------------------------------
(***************************************************************************)
(* Reading from a disk (kernel/dev/dsk.c and the control part of ide.c).   *)
(* A thread takes a command from a pool of pages, links it to the disk's   *)
(* queue and waits for its condition; the disk's driver thread takes       *)
(* commands from the queue and gives them to the controller in portions;   *)
(* the controller interrupts once for every sector.                        *)
(*                                                                         *)
(* A command's link `next' serves the free list of its page and the queue. *)
(* The pool's operations hold cmd_page_lock and are one step each; the     *)
(* queue has no lock and is modelled access by access.  The interrupt      *)
(* handler is one step.  The copying of bytes is in IDECopy.               *)
(***************************************************************************)
EXTENDS Naturals, Sequences, FiniteSets

CONSTANTS
  Threads,     \* the threads that may read
  Pages,       \* the pages k_rt_Malloc can return
  FirstPage,   \* the page the disk starts with
  PageSlots,   \* commands in a page
  MaxSectors,  \* K_DEV_IDE_MAX_SECTORS_PER_CMD
  Blocks,      \* the numbers of sectors that reads cover
  Errors,      \* whether the controller reports errors
  Null

ASSUME DiskAssumption ==
  /\ IsFiniteSet(Threads)
  /\ FirstPage \in Pages
  /\ PageSlots \in Nat \ {0} /\ MaxSectors \in Nat \ {0}
  /\ Blocks \subseteq Nat
  /\ Errors \in BOOLEAN

Cmds == Pages \X (1 .. PageSlots)

ASSUME NullAssumption == Null \notin Cmds \cup Threads

VARIABLES
  pages,      \* the pages from disk->cmd_pages on, in the order of index
  cur,        \* the place of disk->cur_cmd_page among them
  next_free,  \* page->next_free
  used_count, \* page->used_count
  next,       \* cmd->next
  cmds,       \* disk->cmds
  last_cmd,   \* disk->last_cmd
  blocks,     \* the sectors a command covers, from its address and size
  copied,     \* how many of them have been copied: address against size
  condition,  \* cmd->condition
  transfer,   \* cmd->transfer_condition
  sectors,    \* cmd->sector_count
  ide_cmd,    \* ide_disk->cmd
  pending,    \* sectors the controller has still to deliver
  failed,     \* whether the controller has reported an error
  pc,         \* where a thread is in k_dev_DiskRead
  mine,       \* the thread's cmd
  dpc,        \* where the driver thread is
  dcmd,       \* its cmd
  dnext,      \* the register that holds cmds->next
  block_count,\* its block_count
  order,      \* the commands linked and not yet taken, oldest first
  readers     \* the threads that do read

pool == <<pages, cur, next_free, used_count>>
queue == <<cmds, last_cmd, order>>
xfer == <<copied, sectors, ide_cmd, pending, failed>>
thread == <<pc, mine>>
driver == <<dpc, dcmd, dnext, block_count, readers>>
vars == <<pool, next, queue, blocks, condition, transfer, xfer, thread, driver>>

-----------------------------------------------------------------------------
(* InitDiskCmdPage chains the commands of a page. *)
Chained(p, links) ==
  [c \in Cmds |-> IF c[1] # p THEN links[c]
                  ELSE IF c[2] < PageSlots THEN <<p, c[2] + 1>> ELSE Null]

Init ==
  /\ pages = <<FirstPage>>
  /\ cur = 1
  /\ next_free = [p \in Pages |-> IF p = FirstPage THEN <<p, 1>> ELSE Null]
  /\ used_count = [p \in Pages |-> 0]
  /\ next = Chained(FirstPage, [c \in Cmds |-> Null])
  /\ cmds = Null /\ last_cmd = Null /\ order = <<>>
  /\ blocks = [c \in Cmds |-> 0]
  /\ copied = [c \in Cmds |-> 0]
  /\ condition = [c \in Cmds |-> FALSE]
  /\ transfer = [c \in Cmds |-> FALSE]
  /\ sectors = [c \in Cmds |-> 0]
  /\ ide_cmd = Null /\ pending = 0 /\ failed = FALSE
  /\ pc = [t \in Threads |-> "idle"]
  /\ mine = [t \in Threads |-> Null]
  /\ dpc = "idle" /\ dcmd = Null /\ dnext = Null /\ block_count = 0
  /\ readers \in SUBSET Threads \ {{}}

(* A single reader and the driver are preempted anywhere.  With several    *)
(* readers the timer is kept out of the operations of the queue: it has no *)
(* lock, and two readers inside it lose commands.                          *)
QueueFree(t) ==
  \/ Cardinality(readers) = 1
  \/ /\ \A u \in Threads \ {t} : pc[u] \notin {"first", "append", "last"}
     /\ t \in Threads => dpc \notin {"next", "store", "tail", "clear"}

(* A step of thread t from one place to another, and one of the driver. *)
Thread(t, from, to) ==
  /\ t \in readers
  /\ pc[t] = from /\ pc' = [pc EXCEPT ![t] = to]
  /\ QueueFree(t)

Driver(from, to) ==
  /\ dpc = from /\ dpc' = to
  /\ QueueFree(Null)

-----------------------------------------------------------------------------
(* The pages from cur on that have a free command. *)
Open == {i \in cur .. Len(pages) : next_free[pages[i]] # Null}

(* Mutant: the condition keeps the value its last use left. *)
TakeCmd_Signalled(t, p, c, L, n) ==
  /\ next_free' = [next_free EXCEPT ![p] = L[c]]
  /\ used_count' = [used_count EXCEPT ![p] = @ + 1]
  /\ next' = [L EXCEPT ![c] = Null]
  /\ blocks' = [blocks EXCEPT ![c] = n]
  /\ copied' = [copied EXCEPT ![c] = 0]
  /\ mine' = [mine EXCEPT ![t] = c]
  /\ UNCHANGED condition

(* The rest of AllocDiskCmd and the assignments of DiskRead: the command   *)
(* at the head of page p's free list, of links L, is for n sectors.        *)
TakeCmd(t, p, c, L, n) ==
  /\ next_free' = [next_free EXCEPT ![p] = L[c]]
  /\ used_count' = [used_count EXCEPT ![p] = @ + 1]
  /\ next' = [L EXCEPT ![c] = Null]
  /\ condition' = [condition EXCEPT ![c] = FALSE]
  /\ blocks' = [blocks EXCEPT ![c] = n]
  /\ copied' = [copied EXCEPT ![c] = 0]
  /\ mine' = [mine EXCEPT ![t] = c]

(* Mutant: the whole command is cleared, as the disabled SetBytes would. *)
AllocFromPage_Clear(t, n) ==
  /\ Thread(t, "idle", "test")
  /\ \E i \in Open :
       /\ \A j \in Open : i <= j
       /\ cur' = i
       /\ TakeCmd(t, pages[i], next_free[pages[i]], next, n)
       /\ transfer' = [transfer EXCEPT ![next_free[pages[i]]] = FALSE]
  /\ UNCHANGED <<pages, queue, sectors, ide_cmd, pending, failed, driver>>

(* AllocDiskCmd finds a page with a free command. *)
AllocFromPage(t, n) ==
  /\ Thread(t, "idle", "test")
  /\ \E i \in Open :
       /\ \A j \in Open : i <= j
       /\ cur' = i
       /\ TakeCmd(t, pages[i], next_free[pages[i]], next, n)
  /\ UNCHANGED <<pages, queue, transfer, sectors, ide_cmd, pending, failed, driver>>

(* AllocDiskCmd needs a new page.  (freeable_cmd_pages is always empty.) *)
AllocNewPage(t, n) ==
  /\ Thread(t, "idle", "test")
  /\ Open = {}
  /\ \E p \in Pages \ {pages[i] : i \in 1 .. Len(pages)} :
       /\ pages' = Append(pages, p)
       /\ TakeCmd(t, p, <<p, 1>>, Chained(p, next), n)
  /\ cur' = Len(pages) + 1
  /\ UNCHANGED <<queue, transfer, sectors, ide_cmd, pending, failed, driver>>

-----------------------------------------------------------------------------
(* EnqueueDiskCmd: is the queue empty? *)
EnqueueTest(t) ==
  /\ Thread(t, "test", IF cmds = Null THEN "first" ELSE "append")
  /\ UNCHANGED <<pool, next, queue, blocks, condition, transfer, xfer, mine, driver>>

EnqueueFirst(t) ==
  /\ Thread(t, "first", "last")
  /\ cmds' = mine[t]
  /\ order' = Append(order, mine[t])
  /\ UNCHANGED <<pool, next, last_cmd, blocks, condition, transfer, xfer, mine, driver>>

EnqueueAppend(t) ==
  /\ Thread(t, "append", "last")
  /\ last_cmd # Null
  /\ next' = [next EXCEPT ![last_cmd] = mine[t]]
  /\ order' = Append(order, mine[t])
  /\ UNCHANGED <<pool, cmds, last_cmd, blocks, condition, transfer, xfer, mine, driver>>

(* Mutant: the tail moves only when the queue was not empty. *)
EnqueueLast_Keep(t) ==
  /\ Thread(t, "last", "wait")
  /\ last_cmd' = IF last_cmd = Null THEN mine[t] ELSE last_cmd
  /\ UNCHANGED <<pool, next, cmds, order, blocks, condition, transfer, xfer, mine, driver>>

EnqueueLast(t) ==
  /\ Thread(t, "last", "wait")
  /\ last_cmd' = mine[t]
  /\ UNCHANGED <<pool, next, cmds, order, blocks, condition, transfer, xfer, mine, driver>>

(* DiskRead: WaitCondition(&cmd->condition) returns (see Sched). *)
WaitCmd(t) ==
  /\ Thread(t, "wait", "free")
  /\ condition[mine[t]]
  /\ UNCHANGED <<pool, next, queue, blocks, condition, transfer, xfer, mine, driver>>

Place(p) == CHOOSE i \in 1 .. Len(pages) : pages[i] = p

(* Mutant: allocation goes on at the page it was at. *)
FreeDiskCmd_Stay(t) ==
  /\ Thread(t, "free", "idle")
  /\ LET c == mine[t]
         p == c[1]
     IN  /\ next' = [next EXCEPT ![c] = next_free[p]]
         /\ next_free' = [next_free EXCEPT ![p] = c]
         /\ used_count' = [used_count EXCEPT ![p] = @ - 1]
  /\ mine' = [mine EXCEPT ![t] = Null]
  /\ UNCHANGED <<pages, cur, queue, blocks, condition, transfer, xfer, driver>>

(* Mutant: the rest of the page's free list is forgotten. *)
FreeDiskCmd_Unlinked(t) ==
  /\ Thread(t, "free", "idle")
  /\ LET c == mine[t]
         p == c[1]
     IN  /\ next_free' = [next_free EXCEPT ![p] = c]
         /\ used_count' = [used_count EXCEPT ![p] = @ - 1]
         /\ cur' = IF Place(p) < cur THEN Place(p) ELSE cur
  /\ mine' = [mine EXCEPT ![t] = Null]
  /\ UNCHANGED <<pages, next, queue, blocks, condition, transfer, xfer, driver>>

(* Mutant: used_count is not lowered. *)
FreeDiskCmd_Uncounted(t) ==
  /\ Thread(t, "free", "idle")
  /\ LET c == mine[t]
         p == c[1]
     IN  /\ next' = [next EXCEPT ![c] = next_free[p]]
         /\ next_free' = [next_free EXCEPT ![p] = c]
         /\ cur' = IF Place(p) < cur THEN Place(p) ELSE cur
  /\ mine' = [mine EXCEPT ![t] = Null]
  /\ UNCHANGED <<pages, used_count, queue, blocks, condition, transfer, xfer, driver>>

(* FreeDiskCmd.  cmd_page_count stays 0 (no code raises it), so a page     *)
(* that has become empty is never unlinked.                                *)
FreeDiskCmd(t) ==
  /\ Thread(t, "free", "idle")
  /\ LET c == mine[t]
         p == c[1]
     IN  /\ next' = [next EXCEPT ![c] = next_free[p]]
         /\ next_free' = [next_free EXCEPT ![p] = c]
         /\ used_count' = [used_count EXCEPT ![p] = @ - 1]
         /\ cur' = IF Place(p) < cur THEN Place(p) ELSE cur
  /\ mine' = [mine EXCEPT ![t] = Null]
  /\ UNCHANGED <<pages, queue, blocks, condition, transfer, xfer, driver>>

-----------------------------------------------------------------------------
(* DiskThread: cmd = disk->cmds.  On an empty queue it yields. *)
TakeHead ==
  /\ Driver("idle", "next")
  /\ cmds # Null
  /\ dcmd' = cmds
  /\ UNCHANGED <<pool, next, queue, blocks, condition, transfer, xfer, thread, dnext, block_count, readers>>

(* disk->cmds = disk->cmds->next: the loads, and the store. *)
LoadNext ==
  /\ Driver("next", "store")
  /\ dnext' = next[cmds]
  /\ UNCHANGED <<pool, next, queue, blocks, condition, transfer, xfer, thread, dcmd, block_count, readers>>

StoreNext ==
  /\ Driver("store", "tail")
  /\ cmds' = dnext
  /\ order' = Tail(order)
  /\ UNCHANGED <<pool, next, last_cmd, blocks, condition, transfer, xfer, thread, dcmd, dnext, block_count, readers>>

(* if(!disk->cmds) disk->last_cmd = NULL *)
TestTail ==
  /\ Driver("tail", IF cmds = Null THEN "clear" ELSE "read")
  /\ UNCHANGED <<pool, next, queue, blocks, condition, transfer, xfer, thread, dcmd, dnext, block_count, readers>>

ClearTail ==
  /\ Driver("clear", "read")
  /\ last_cmd' = Null
  /\ UNCHANGED <<pool, next, cmds, order, blocks, condition, transfer, xfer, thread, dcmd, dnext, block_count, readers>>

(* IDE_Read of a command that covers no sector. *)
ReadNothing ==
  /\ Driver("read", "idle")
  /\ blocks[dcmd] = 0
  /\ condition' = [condition EXCEPT ![dcmd] = TRUE]
  /\ UNCHANGED <<pool, next, queue, blocks, transfer, xfer, thread, dcmd, dnext, block_count, readers>>

(* IDE_Read: the command becomes the one of the interrupt handler. *)
ReadStart ==
  /\ Driver("read", "issue")
  /\ blocks[dcmd] > 0
  /\ block_count' = blocks[dcmd]
  /\ copied' = [copied EXCEPT ![dcmd] = 0]
  /\ ide_cmd' = dcmd
  /\ UNCHANGED <<pool, next, queue, blocks, condition, transfer, sectors, pending, failed, thread, dcmd, dnext, readers>>

Portion == IF block_count > MaxSectors THEN MaxSectors ELSE block_count

(* One turn of the loop of IDE_Read, up to WaitCondition.  The controller  *)
(* is ready, that is, it has nothing to deliver.                           *)
ReadIssue ==
  /\ Driver("issue", "transfer")
  /\ pending = 0
  /\ transfer' = [transfer EXCEPT ![dcmd] = FALSE]
  /\ sectors' = [sectors EXCEPT ![dcmd] = Portion]
  /\ pending' = Portion
  /\ UNCHANGED <<pool, next, queue, blocks, condition, copied, ide_cmd, failed, thread, dcmd, dnext, block_count, readers>>

(* WaitCondition(&ide_cmd->transfer_condition) returns. *)
ReadTurn ==
  /\ Driver("transfer", IF block_count > Portion THEN "issue" ELSE "idle")
  /\ transfer[dcmd]
  /\ block_count' = block_count - Portion
  /\ UNCHANGED <<pool, next, queue, blocks, condition, transfer, xfer, thread, dcmd, dnext, readers>>

-----------------------------------------------------------------------------
(* Mutant: the command is done when its portion is. *)
SectorRead_Portion ==
  /\ pending > 0
  /\ pending' = pending - 1
  /\ copied' = [copied EXCEPT ![ide_cmd] = @ + 1]
  /\ sectors' = [sectors EXCEPT ![ide_cmd] = @ - 1]
  /\ condition' = [condition EXCEPT ![ide_cmd] = @ \/ sectors'[ide_cmd] = 0]
  /\ transfer' = [transfer EXCEPT ![ide_cmd] = @ \/ sectors'[ide_cmd] = 0]
  /\ UNCHANGED <<pool, next, queue, blocks, ide_cmd, failed, thread, driver>>

(* IDE_InterruptHandler: a sector has been read. *)
SectorRead ==
  /\ pending > 0
  /\ pending' = pending - 1
  /\ copied' = [copied EXCEPT ![ide_cmd] = @ + 1]
  /\ sectors' = [sectors EXCEPT ![ide_cmd] = @ - 1]
  /\ condition' = [condition EXCEPT ![ide_cmd] = @ \/ copied'[ide_cmd] = blocks[ide_cmd]]
  /\ transfer' = [transfer EXCEPT ![ide_cmd] = @ \/ sectors'[ide_cmd] = 0]
  /\ UNCHANGED <<pool, next, queue, blocks, ide_cmd, failed, thread, driver>>

(* IDE_InterruptHandler: the controller has given the command up. *)
SectorError ==
  /\ Errors /\ pending > 0
  /\ pending' = 0
  /\ failed' = TRUE
  /\ condition' = [condition EXCEPT ![ide_cmd] = TRUE]
  /\ UNCHANGED <<pool, next, queue, blocks, transfer, copied, sectors, ide_cmd, thread, driver>>

-----------------------------------------------------------------------------
ThreadStep(t) ==
  \/ EnqueueTest(t) \/ EnqueueFirst(t) \/ EnqueueAppend(t) \/ EnqueueLast(t)
  \/ WaitCmd(t) \/ FreeDiskCmd(t)

DriverStep ==
  \/ TakeHead \/ LoadNext \/ StoreNext \/ TestTail \/ ClearTail
  \/ ReadNothing \/ ReadStart \/ ReadIssue \/ ReadTurn

Next ==
  \/ \E t \in Threads, n \in Blocks : AllocFromPage(t, n) \/ AllocNewPage(t, n)
  \/ \E t \in Threads : ThreadStep(t)
  \/ DriverStep
  \/ SectorRead
  \/ SectorError

Spec == Init /\ [][Next]_vars

(* Threads and the driver are scheduled again and again (Sched), each time *)
(* when nobody is kept out of the queue, and the controller ends what it   *)
(* has begun.                                                              *)
FairSpec ==
  /\ Spec
  /\ \A t \in Threads : SF_vars(ThreadStep(t))
  /\ SF_vars(DriverStep)
  /\ WF_vars(SectorRead)

-----------------------------------------------------------------------------
TypeOK ==
  /\ pages \in Seq(Pages) /\ cur \in 1 .. Len(pages)
  /\ next_free \in [Pages -> Cmds \cup {Null}]
  /\ used_count \in [Pages -> 0 .. PageSlots]
  /\ next \in [Cmds -> Cmds \cup {Null}]
  /\ {cmds, last_cmd, ide_cmd, dcmd, dnext} \subseteq Cmds \cup {Null}
  /\ order \in Seq(Cmds)
  /\ {blocks, copied, sectors} \subseteq [Cmds -> Nat]
  /\ {condition, transfer} \subseteq [Cmds -> BOOLEAN]
  /\ pending \in 0 .. MaxSectors /\ failed \in BOOLEAN /\ block_count \in Nat
  /\ pc \in [Threads -> {"idle", "test", "first", "append", "last", "wait", "free"}]
  /\ mine \in [Threads -> Cmds \cup {Null}] /\ readers \subseteq Threads
  /\ dpc \in {"idle", "next", "store", "tail", "clear", "read", "issue", "transfer"}

(* From h on, the links lead through the sequence s and end behind it. *)
Links(h, s) ==
  /\ h = IF s = <<>> THEN Null ELSE s[1]
  /\ \A i \in 1 .. Len(s) : next[s[i]] = IF i < Len(s) THEN s[i + 1] ELSE Null

Once(s) == \A i, j \in 1 .. Len(s) : s[i] = s[j] => i = j

Elements(s) == {s[i] : i \in 1 .. Len(s)}

Slots(p) == {c \in Cmds : c[1] = p}

Held == {mine[t] : t \in Threads} \ {Null}

(* The free list of a page, s, has n commands: those nobody holds. *)
FreeList(p, n, s) ==
  /\ Links(next_free[p], s) /\ Once(s)
  /\ Elements(s) = Slots(p) \ Held
  /\ n = PageSlots - used_count[p]

(* Every command of every page is either in the free list of its page or   *)
(* with one thread, and used_count is right, although free lists and the   *)
(* queue run through the same link.                                        *)
CmdsAccounted ==
  /\ \A t, u \in Threads : t # u /\ mine[t] = mine[u] => mine[t] = Null
  /\ \A p \in Elements(pages) :
       \E n \in 0 .. PageSlots : \E s \in [1 .. n -> Slots(p)] : FreeList(p, n, s)

(* The queue holds the commands that were linked and not yet taken, in the *)
(* order they were linked: none is lost, none is passed over, and a stale  *)
(* last_cmd is never used.                                                 *)
QueueInOrder ==
  /\ Links(cmds, order)
  /\ \A t \in Threads : pc[t] = "append" => cmds # Null /\ last_cmd = order[Len(order)]

(* A thread whose read has returned has all its sectors, also when its     *)
(* command was used before.                                                *)
ReadReturnsAll ==
  \A t \in Threads :
    pc[t] = "free" /\ ~failed => copied[mine[t]] = blocks[mine[t]]

(* The controller only fills the buffer of a thread that still waits for   *)
(* it: no command is given back while the interrupt handler uses it.       *)
BufferStillLent ==
  pending > 0 =>
    \E t \in Threads : mine[t] = ide_cmd /\ pc[t] \in {"last", "wait"}

(* A page is added only when every command of the others is in use. *)
NoIdlePage ==
  [][Len(pages') > Len(pages) =>
       \A p \in Elements(pages) : used_count[p] = PageSlots]_vars

(* Commands go back to the page they came from, and are taken from there   *)
(* again before the pool grows.                                            *)
CmdsReused == []CmdsAccounted /\ NoIdlePage

(* Every read returns, although the driver may still wait for a portion of *)
(* a command that its thread has given back and another has taken.         *)
ReadReturns ==
  \A t \in Threads : pc[t] = "wait" ~> pc[t] = "idle"
=============================================================================
