------------------------------ MODULE DiskProofs ------------------------------
(***************************************************************************)
(* Proofs about Disk, for any number of readers, pages, commands in a page *)
(* and sectors, with and without errors of the controller.                 *)
(***************************************************************************)
EXTENDS Disk, FiniteSetTheorems, SequenceTheorems, TLAPS

-----------------------------------------------------------------------------
(* The parts of the inductive invariant.                                   *)

(* A thread that reads, or the driver, is inside the queue. *)
Inside(t) == pc[t] \in {"first", "append", "last"}
DriverInside == dpc \in {"next", "store", "tail", "clear"}

(* There is one reader, or nobody shares the queue. *)
Alone ==
  \/ \E t \in Threads : readers = {t}
  \/ \A t \in Threads :
       Inside(t) => ~DriverInside /\ \A u \in Threads : Inside(u) => u = t

(* A thread has linked the command c and waits for it. *)
Waited(c) ==
  \E t \in Threads :
    t \in readers /\ mine[t] = c /\ pc[t] \in {"last", "wait"} /\ ~condition[c]

LastOf(s) == s[Len(s)]

(* What holds of thread t, by its place in k_dev_DiskRead.  The tail of    *)
(* the queue is right when the thread uses it, and a command that is done  *)
(* has all its sectors.                                                    *)
ThreadRight(t) ==
  /\ mine[t] = Null <=> pc[t] = "idle"
  /\ t \notin readers => pc[t] = "idle"
  /\ mine[t] # Null => mine[t][1] \in Elements(pages)
  /\ pc[t] \in {"test", "first", "append"} =>
       ~condition[mine[t]] /\ copied[mine[t]] = 0 /\ next[mine[t]] = Null
  /\ pc[t] = "first" => order = <<>>
  /\ pc[t] = "append" => order # <<>> /\ last_cmd = LastOf(order)
  /\ pc[t] = "last" => order = <<>> \/ LastOf(order) = mine[t]
  /\ pc[t] = "free" => condition[mine[t]]
  /\ pc[t] \in {"last", "wait", "free"} /\ condition[mine[t]] /\ ~failed =>
       copied[mine[t]] = blocks[mine[t]]

(* No two threads have the same command. *)
Apart == \A t, u \in Threads : t # u /\ mine[t] = mine[u] => mine[t] = Null

ThreadsRight == Apart /\ \A t \in Threads : ThreadRight(t)

(* The links run through what is queued, all of it is waited for, and      *)
(* last_cmd is right unless a thread is about to set it.                   *)
QueueRight ==
  /\ Links(cmds, order) /\ Once(order)
  /\ \A c \in Elements(order) : Waited(c) /\ copied[c] = 0
  /\ order # <<>> /\ (\A t \in Threads : pc[t] # "last") => last_cmd = LastOf(order)

(* The interrupt handler works for a thread that waits. *)
Serving ==
  /\ ~failed /\ Waited(dcmd) /\ dcmd \notin Elements(order)
  /\ sectors[dcmd] = pending /\ pending <= Portion
  /\ transfer[dcmd] <=> pending = 0
  /\ copied[dcmd] + pending + (block_count - Portion) = blocks[dcmd]
  /\ pending > 0 \/ block_count > Portion

(* The last portion has been delivered.  The command may belong to another *)
(* thread by now.                                                          *)
Delivered == ~failed /\ pending = 0 /\ transfer[dcmd] /\ block_count <= Portion

(* The controller has given up, and the driver waits for ever. *)
GivenUp == failed /\ pending = 0 /\ ~transfer[dcmd]

DriverRight ==
  /\ dpc \in {"next", "store"} => order # <<>> /\ dcmd = order[1]
  /\ dpc = "store" => dnext = IF Len(order) = 1 THEN Null ELSE order[2]
  /\ dpc \in {"tail", "clear", "read", "issue"} => Waited(dcmd) /\ dcmd \notin Elements(order)
  /\ dpc \in {"tail", "clear", "read"} => copied[dcmd] = 0
  /\ dpc = "clear" => order = <<>>
  /\ dpc = "issue" => /\ block_count > 0 /\ ide_cmd = dcmd
                      /\ copied[dcmd] + block_count = blocks[dcmd]
  /\ dpc = "transfer" => /\ block_count > 0 /\ ide_cmd = dcmd /\ dcmd \in Cmds
                         /\ Serving \/ Delivered \/ GivenUp
  /\ dpc # "transfer" => pending = 0 /\ ~failed

PageRight(p) == \E n \in 0 .. PageSlots : \E s \in [1 .. n -> Slots(p)] : FreeList(p, n, s)

(* The pages before cur have no free command. *)
PoolRight ==
  /\ Once(pages)
  /\ \A i \in 1 .. cur - 1 : next_free[pages[i]] = Null
  /\ \A p \in Elements(pages) : PageRight(p)
  /\ \A p \in Pages \ Elements(pages) : used_count[p] = 0

IInv == TypeOK /\ Alone /\ ThreadsRight /\ QueueRight /\ DriverRight /\ PoolRight

-----------------------------------------------------------------------------
(* The types, one by one.                                                  *)
LEMMA CommandTypes ==
  ASSUME TypeOK
  PROVE  /\ blocks \in [Cmds -> Nat] /\ copied \in [Cmds -> Nat] /\ sectors \in [Cmds -> Nat]
         /\ condition \in [Cmds -> BOOLEAN] /\ transfer \in [Cmds -> BOOLEAN]
BY DEF TypeOK

LEMMA PortionRight ==
  ASSUME block_count \in Nat
  PROVE  /\ Portion \in Nat /\ Portion <= block_count /\ Portion <= MaxSectors
         /\ block_count > 0 => Portion > 0
BY DiskAssumption DEF Portion

LEMMA PoolTypes ==
  ASSUME TypeOK
  PROVE  /\ next \in [Cmds -> Cmds \cup {Null}] /\ next_free \in [Pages -> Cmds \cup {Null}]
         /\ used_count \in [Pages -> 0 .. PageSlots] /\ mine \in [Threads -> Cmds \cup {Null}]
         /\ cur \in Nat /\ cur > 0 /\ cur <= Len(pages) /\ Len(pages) \in Nat
<1>1. pages \in Seq(Pages) /\ cur \in 1 .. Len(pages)
  BY DEF TypeOK
<1>2. Len(pages) \in Nat
  BY <1>1
<1>3. cur \in Nat /\ cur > 0 /\ cur <= Len(pages)
  BY <1>1, <1>2
<1> QED
  BY <1>2, <1>3 DEF TypeOK

LEMMA QueuedTypes ==
  ASSUME TypeOK
  PROVE  Elements(order) \subseteq Cmds
<1>1. order \in Seq(Cmds)
  BY DEF TypeOK
<1>2. \A i \in 1 .. Len(order) : order[i] \in Cmds
  BY <1>1, ElementOfSeq
<1> QED
  BY <1>2 DEF Elements

-----------------------------------------------------------------------------
(* Who is inside the queue.                                                *)

LEMMA OneReader ==
  ASSUME NEW S \in SUBSET Threads, Cardinality(S) = 1
  PROVE  \E t \in Threads : S = {t}
<1>1. IsFiniteSet(S)
  BY FS_Subset, DiskAssumption
<1>2. PICK t : S = {t}
  BY <1>1, FS_Singleton
<1> QED
  BY <1>2

LEMMA NullRight == Null \notin Cmds /\ Null \notin Threads
BY NullAssumption

LEMMA AloneThread ==
  ASSUME TypeOK, Alone, NEW t \in Threads, NEW a, NEW b, Thread(t, a, b),
         UNCHANGED driver
  PROVE  Alone'
<1>1. readers' = readers /\ dpc' = dpc /\ pc' = [pc EXCEPT ![t] = b] /\ DOMAIN pc = Threads
  BY DEF Thread, driver, TypeOK
<1>2. CASE Cardinality(readers) = 1
  BY <1>1, <1>2, OneReader DEF TypeOK, Alone
<1>3. CASE Cardinality(readers) # 1
  <2>1. \A u \in Threads \ {t} : pc[u] \notin {"first", "append", "last"}
    BY <1>3 DEF Thread, QueueFree
  <2>2. dpc \notin {"next", "store", "tail", "clear"}
    BY <1>3 DEF Thread, QueueFree
  <2>3. \A u \in Threads \ {t} : pc'[u] = pc[u]
    BY <1>1
  <2> QED
    BY <1>1, <2>1, <2>2, <2>3 DEF Alone, Inside, DriverInside
<1> QED
  BY <1>2, <1>3

LEMMA AloneDriver ==
  ASSUME TypeOK, Alone, NEW a, NEW b, Driver(a, b), UNCHANGED <<pc, readers>>
  PROVE  Alone'
<1>1. CASE Cardinality(readers) = 1
  BY <1>1, OneReader DEF TypeOK, Alone
<1>2. CASE Cardinality(readers) # 1
  <2>1. \A u \in Threads : pc[u] \notin {"first", "append", "last"}
    BY <1>2, NullRight DEF Driver, QueueFree
  <2> QED
    BY <2>1 DEF Alone, Inside
<1> QED
  BY <1>1, <1>2

(* A thread that takes a step is the only one inside, if any is. *)
LEMMA OthersOutside ==
  ASSUME IInv, NEW t \in Threads, NEW a, NEW b, Thread(t, a, b),
         NEW u \in Threads, u # t
  PROVE  ~Inside(u)
<1>1. CASE Cardinality(readers) = 1
  <2>1. PICK v \in Threads : readers = {v}
    BY <1>1, OneReader DEF IInv, TypeOK
  <2>2. u \notin readers
    BY <2>1 DEF Thread
  <2>3. pc[u] = "idle"
    BY <2>2 DEF IInv, ThreadsRight, ThreadRight
  <2> QED
    BY <2>3 DEF Inside
<1>2. CASE Cardinality(readers) # 1
  BY <1>2 DEF Thread, QueueFree, Inside
<1> QED
  BY <1>1, <1>2

(* What the driver takes is waited for. *)
LEMMA TakenWaited ==
  ASSUME IInv, dpc \in {"next", "store", "tail", "clear", "read", "issue"}
  PROVE  Waited(dcmd)
<1>1. CASE dpc \in {"next", "store"}
  <2>1. order # <<>> /\ dcmd = order[1] /\ order \in Seq(Cmds)
    BY <1>1 DEF IInv, DriverRight, TypeOK
  <2>2. dcmd \in Elements(order)
    BY <2>1 DEF Elements
  <2> QED
    BY <2>2 DEF IInv, QueueRight
<1> QED
  BY <1>1 DEF IInv, DriverRight

(* A thread that links a command and the driver are not both inside. *)
LEMMA NoClash ==
  ASSUME IInv, NEW t \in Threads, pc[t] \in {"first", "append"}
  PROVE  ~DriverInside
<1>1. t \in readers
  BY DEF IInv, ThreadsRight, ThreadRight
<1>2. CASE readers = {t}
  <2>1. ~Waited(dcmd)
    BY <1>2 DEF Waited
  <2> QED
    BY <2>1, TakenWaited DEF DriverInside
<1>3. CASE \A v \in Threads :
             Inside(v) => ~DriverInside /\ \A u \in Threads : Inside(u) => u = v
  BY <1>3 DEF Inside
<1> QED
  BY <1>1, <1>2, <1>3 DEF IInv, Alone

-----------------------------------------------------------------------------
(* What a step leaves alone.                                               *)

(* The pool is right as long as the links of free commands stay. *)
LEMMA PoolKept ==
  ASSUME IInv, UNCHANGED <<pool, mine>>, \A c \in Cmds \ Held : next'[c] = next[c]
  PROVE  PoolRight'
<1>1. /\ pages' = pages /\ cur' = cur /\ next_free' = next_free
      /\ used_count' = used_count /\ Held' = Held
  BY DEF pool, Held
<1>2. ASSUME NEW p, NEW n \in Nat, NEW s \in [1 .. n -> Slots(p)], FreeList(p, n, s)
      PROVE  FreeList(p, n, s)'
  <2>1. \A i \in 1 .. Len(s) : s[i] \in Cmds \ Held
    BY <1>2 DEF FreeList, Elements, Slots
  <2>2. Links(next_free[p], s)'
    BY <1>1, <1>2, <2>1 DEF FreeList, Links
  <2> QED
    BY <1>1, <1>2, <2>2 DEF FreeList
<1>3. ASSUME NEW p \in Elements(pages)
      PROVE  \E n \in 0 .. PageSlots : \E s \in [1 .. n -> Slots(p)] : FreeList(p, n, s)'
  <2>1. PICK n \in 0 .. PageSlots : \E s \in [1 .. n -> Slots(p)] : FreeList(p, n, s)
    BY <1>3 DEF IInv, PoolRight, PageRight
  <2>2. PICK s \in [1 .. n -> Slots(p)] : FreeList(p, n, s)
    BY <2>1
  <2>3. n \in Nat
    BY <2>1, DiskAssumption
  <2> QED
    BY <1>2, <2>1, <2>2, <2>3
<1> QED
  BY <1>1, <1>3 DEF IInv, PoolRight, PageRight, Once, Elements

(* What waits for its condition still does, and nothing has been copied. *)
StillWaited(S) == \A c \in S : Waited(c)' /\ copied'[c] = 0

LEMMA QueueKept ==
  ASSUME IInv, UNCHANGED <<next, queue>>, StillWaited(Elements(order)),
         \A t \in Threads : pc[t] = "last" => pc'[t] = "last"
  PROVE  QueueRight'
<1>1. next' = next /\ cmds' = cmds /\ last_cmd' = last_cmd /\ order' = order
  BY DEF queue
<1>2. Links(cmds, order)' /\ Once(order)'
  BY <1>1 DEF IInv, QueueRight, Links, Once
<1>3. \A c \in Elements(order') : Waited(c)' /\ copied'[c] = 0
  BY <1>1 DEF StillWaited
<1>4. order # <<>> /\ (\A t \in Threads : pc'[t] # "last") => last_cmd = LastOf(order)
  BY DEF IInv, QueueRight
<1> QED
  BY <1>1, <1>2, <1>3, <1>4 DEF QueueRight, LastOf, Elements

(* A command that no thread waits for is not queued. *)
LEMMA NotQueued ==
  ASSUME IInv, NEW t \in Threads, pc[t] \in {"test", "first", "append", "free"},
         NEW c \in Cmds, Waited(c)
  PROVE  mine[t] # c
<1>1. PICK u \in Threads : mine[u] = c /\ pc[u] \in {"last", "wait"}
  BY DEF Waited
<1> QED
  BY <1>1, NullRight DEF IInv, ThreadsRight, Apart

(* The driver and the interrupt handler change neither a thread nor, as    *)
(* far as a thread uses it, the queue; they finish a command of a thread   *)
(* that waits, with all its sectors.                                       *)
EndsRight(t) ==
  /\ pc[t] = "first" => order' = <<>>
  /\ pc[t] = "append" => order' # <<>> /\ last_cmd' = LastOf(order')
  /\ pc[t] = "last" => order' = <<>> \/ LastOf(order') = mine[t]

CommandRight(t) ==
  \/ condition'[mine[t]] = condition[mine[t]] /\ copied'[mine[t]] = copied[mine[t]]
  \/ /\ pc[t] \in {"last", "wait"}
     /\ condition'[mine[t]] /\ ~failed' => copied'[mine[t]] = blocks[mine[t]]

LEMMA ThreadsKept ==
  ASSUME IInv, UNCHANGED <<pages, next, thread, readers, blocks>>, failed => failed',
         \A t \in Threads : EndsRight(t),
         \A t \in Threads : mine[t] \in Cmds => CommandRight(t)
  PROVE  ThreadsRight'
<1>1. /\ pc' = pc /\ mine' = mine /\ readers' = readers /\ pages' = pages
      /\ blocks' = blocks /\ next' = next
  BY DEF thread
<1>2. Apart'
  BY <1>1 DEF IInv, ThreadsRight, Apart
<1>3. ASSUME NEW t \in Threads PROVE ThreadRight(t)'
  <2>1. ThreadRight(t) /\ (mine[t] \in Cmds \/ mine[t] = Null)
    BY DEF IInv, ThreadsRight, TypeOK
  <2>2. EndsRight(t) /\ (mine[t] \in Cmds => CommandRight(t))
    OBVIOUS
  <2> QED
    BY <1>1, <2>1, <2>2 DEF ThreadRight, EndsRight, CommandRight, LastOf, Elements
<1> QED
  BY <1>2, <1>3 DEF ThreadsRight

LEMMA EndsKept ==
  ASSUME IInv, UNCHANGED <<order, last_cmd>>
  PROVE  \A t \in Threads : EndsRight(t)
BY DEF IInv, ThreadsRight, ThreadRight, EndsRight, LastOf

-----------------------------------------------------------------------------
(* The interrupt handler.                                                  *)

LEMMA ServingNow ==
  ASSUME IInv, pending > 0
  PROVE  dpc = "transfer" /\ ide_cmd = dcmd /\ dcmd \in Cmds /\ Serving /\ block_count > 0
<1>1. dpc = "transfer"
  BY DEF IInv, DriverRight, TypeOK
<1>2. ~Delivered /\ ~GivenUp
  BY DEF IInv, TypeOK, Delivered, GivenUp
<1> QED
  BY <1>1, <1>2 DEF IInv, DriverRight

LEMMA SectorReadKeeps ==
  ASSUME IInv, SectorRead
  PROVE  IInv'
<1>1. PICK d \in Cmds : d = dcmd
  BY ServingNow DEF SectorRead
<1>2. /\ pending > 0 /\ dpc = "transfer" /\ ide_cmd = d /\ Waited(d) /\ d \notin Elements(order)
      /\ sectors[d] = pending /\ ~transfer[d] /\ ~failed
      /\ pending <= Portion /\ (pending > 0 \/ block_count > Portion)
      /\ copied[d] + pending + (block_count - Portion) = blocks[d]
  BY <1>1, ServingNow DEF SectorRead, Serving
<1>3. /\ copied \in [Cmds -> Nat] /\ sectors \in [Cmds -> Nat]
      /\ condition \in [Cmds -> BOOLEAN] /\ transfer \in [Cmds -> BOOLEAN]
      /\ pending \in Nat /\ pending <= MaxSectors /\ MaxSectors \in Nat
      /\ copied[d] \in Nat /\ blocks[d] \in Nat
      /\ block_count \in Nat /\ Portion \in Nat /\ Portion <= block_count
  <2>1. TypeOK /\ pending \in 0 .. MaxSectors /\ block_count \in Nat
    BY DEF IInv, TypeOK
  <2> QED
    BY <2>1, CommandTypes, PortionRight, DiskAssumption
<1>4. ~condition[d]
  BY <1>2 DEF Waited
<1>5. /\ pending' = pending - 1
      /\ copied' = [copied EXCEPT ![d] = copied[d] + 1]
      /\ sectors' = [sectors EXCEPT ![d] = pending - 1]
      /\ transfer' = [transfer EXCEPT ![d] = pending - 1 = 0]
  BY <1>2, <1>3 DEF SectorRead
<1>6. condition' = [condition EXCEPT ![d] = copied[d] + 1 = blocks[d]]
  BY <1>2, <1>3, <1>4, <1>5 DEF SectorRead
<1>7. UNCHANGED <<pool, next, queue, blocks, ide_cmd, failed, thread, driver>>
  BY DEF SectorRead
<1>8. TypeOK'
  <2>1. /\ copied' \in [Cmds -> Nat] /\ sectors' \in [Cmds -> Nat] /\ pending' \in 0 .. MaxSectors
        /\ condition' \in [Cmds -> BOOLEAN] /\ transfer' \in [Cmds -> BOOLEAN]
    BY <1>2, <1>3, <1>5, <1>6
  <2> QED
    BY <1>7, <2>1 DEF IInv, TypeOK, pool, queue, thread, driver
<1>9. \A c \in Cmds \ {d} : Waited(c) => Waited(c)'
  BY <1>3, <1>6, <1>7 DEF Waited, thread, driver
<1>10. Portion' = Portion
  BY <1>7 DEF Portion, driver
<1>11. (transfer'[d] <=> pending - 1 = 0) /\ sectors'[d] = pending - 1 /\ copied'[d] = copied[d] + 1
  BY <1>3, <1>5
<1>12. Serving' \/ Delivered'
  <2>1. CASE copied[d] + 1 = blocks[d]
    <3>1. pending = 1 /\ block_count <= Portion
      BY <1>2, <1>3, <2>1
    <3> QED
      BY <1>1, <1>2, <1>5, <1>7, <1>10, <1>11, <3>1 DEF Delivered, driver
  <2>2. CASE copied[d] + 1 # blocks[d]
    <3>1. Waited(d)'
      BY <1>2, <1>3, <1>6, <1>7, <2>2 DEF Waited, thread, driver
    <3>2. dcmd' = d /\ d \notin Elements(order)' /\ ~failed' /\ blocks' = blocks
          /\ block_count' = block_count
      BY <1>1, <1>2, <1>7 DEF queue, driver, Elements
    <3>3. /\ sectors'[d] = pending' /\ pending' <= Portion /\ (transfer'[d] <=> pending' = 0)
          /\ copied'[d] + pending' + (block_count - Portion) = blocks[d]
          /\ (pending' > 0 \/ block_count > Portion)
      BY <1>2, <1>3, <1>5, <1>11, <2>2
    <3> QED
      BY <1>10, <3>1, <3>2, <3>3 DEF Serving
  <2> QED
    BY <2>1, <2>2
<1>13. DriverRight'
  <2>1. dpc' = "transfer" /\ block_count' > 0 /\ ide_cmd' = dcmd' /\ dcmd' \in Cmds
    BY <1>1, <1>2, <1>7, ServingNow DEF driver
  <2> QED
    BY <1>12, <2>1 DEF DriverRight
<1>14. ThreadsRight'
  <2>1. ASSUME NEW t \in Threads, mine[t] \in Cmds PROVE CommandRight(t)
    <3>1. CASE mine[t] = d
      <4>1. pc[t] \in {"last", "wait"}
        BY <1>2, <2>1, <3>1, NotQueued, NullRight DEF IInv, ThreadsRight, ThreadRight, TypeOK
      <4> QED
        BY <1>3, <1>6, <1>11, <3>1, <4>1 DEF CommandRight
    <3>2. CASE mine[t] # d
      BY <1>3, <1>5, <1>6, <2>1, <3>2 DEF CommandRight
    <3> QED
      BY <3>1, <3>2
  <2>2. UNCHANGED <<pages, next, thread, readers, blocks, order, last_cmd>> /\ failed' = failed
    BY <1>7 DEF pool, queue, driver
  <2> QED
    BY <2>1, <2>2, ThreadsKept, EndsKept
<1>15. QueueRight'
  <2>1. StillWaited(Elements(order))
    <3>1. \A c \in Elements(order) : c \in Cmds \ {d} /\ Waited(c) /\ copied[c] = 0
      BY <1>2, QueuedTypes DEF IInv, QueueRight
    <3>2. \A c \in Cmds \ {d} : copied'[c] = copied[c]
      BY <1>3, <1>5
    <3> QED
      BY <1>9, <3>1, <3>2 DEF StillWaited
  <2> QED
    BY <1>7, <2>1, QueueKept DEF thread
<1>16. Alone'
  BY <1>7 DEF IInv, Alone, Inside, DriverInside, thread, driver
<1>17. PoolRight'
  BY <1>7, PoolKept DEF thread
<1> QED
  BY <1>8, <1>13, <1>14, <1>15, <1>16, <1>17 DEF IInv

LEMMA SectorErrorKeeps ==
  ASSUME IInv, SectorError
  PROVE  IInv'
<1>1. PICK d \in Cmds : d = dcmd
  BY ServingNow DEF SectorError
<1>2. /\ dpc = "transfer" /\ ide_cmd = d /\ Waited(d) /\ d \notin Elements(order) /\ ~transfer[d]
      /\ block_count > 0
  BY <1>1, ServingNow DEF SectorError, Serving
<1>3. condition' = [condition EXCEPT ![d] = TRUE] /\ pending' = 0 /\ failed' = TRUE
  BY <1>2 DEF SectorError
<1>4. UNCHANGED <<pool, next, queue, blocks, transfer, copied, sectors, ide_cmd, thread, driver>>
  BY DEF SectorError
<1>5. condition \in [Cmds -> BOOLEAN] /\ condition' \in [Cmds -> BOOLEAN]
  BY <1>3, CommandTypes DEF IInv
<1>6. TypeOK'
  <2>1. pending' \in 0 .. MaxSectors /\ failed' \in BOOLEAN
    BY <1>3, DiskAssumption
  <2> QED
    BY <1>4, <1>5, <2>1 DEF IInv, TypeOK, pool, queue, thread, driver
<1>7. \A c \in Cmds \ {d} : Waited(c) => Waited(c)'
  BY <1>3, <1>4, <1>5 DEF Waited, thread, driver
<1>8. DriverRight'
  BY <1>1, <1>2, <1>3, <1>4 DEF DriverRight, GivenUp, driver
<1>9. ThreadsRight'
  <2>1. ASSUME NEW t \in Threads, mine[t] \in Cmds PROVE CommandRight(t)
    <3>1. CASE mine[t] = d
      <4>1. pc[t] \in {"last", "wait"}
        BY <1>2, <2>1, <3>1, NotQueued, NullRight DEF IInv, ThreadsRight, ThreadRight, TypeOK
      <4> QED
        BY <1>3, <4>1 DEF CommandRight
    <3>2. CASE mine[t] # d
      BY <1>3, <1>4, <1>5, <2>1, <3>2 DEF CommandRight
    <3> QED
      BY <3>1, <3>2
  <2>2. UNCHANGED <<pages, next, thread, readers, blocks, order, last_cmd>> /\ (failed => failed')
    BY <1>3, <1>4 DEF pool, queue, driver
  <2> QED
    BY <2>1, <2>2, ThreadsKept, EndsKept
<1>10. QueueRight'
  <2>1. StillWaited(Elements(order))
    <3>1. \A c \in Elements(order) : c \in Cmds \ {d} /\ Waited(c) /\ copied[c] = 0
      BY <1>2, QueuedTypes DEF IInv, QueueRight
    <3> QED
      BY <1>4, <1>7, <3>1 DEF StillWaited
  <2> QED
    BY <1>4, <2>1, QueueKept DEF thread
<1>11. Alone'
  BY <1>4 DEF IInv, Alone, Inside, DriverInside, thread, driver
<1>12. PoolRight'
  BY <1>4, PoolKept DEF thread
<1> QED
  BY <1>6, <1>8, <1>9, <1>10, <1>11, <1>12 DEF IInv

-----------------------------------------------------------------------------
(* The driver.  These steps change neither the pool nor a thread.          *)
DriverFrame == UNCHANGED <<pool, next, blocks, thread, readers>>

(* What most of them leave alone. *)
LEMMA DriverKeeps ==
  ASSUME IInv, NEW a, NEW b, Driver(a, b), DriverFrame,
         UNCHANGED <<queue, condition, copied, failed>>
  PROVE  Alone' /\ ThreadsRight' /\ QueueRight' /\ PoolRight'
<1>1. Alone'
  BY AloneDriver DEF IInv, DriverFrame, thread
<1>2. ThreadsRight'
  <2>1. \A t \in Threads : mine[t] \in Cmds => CommandRight(t)
    BY DEF CommandRight
  <2>2. UNCHANGED <<pages, next, thread, readers, blocks, order, last_cmd>> /\ (failed => failed')
    BY DEF DriverFrame, pool, queue
  <2> QED
    BY <2>1, <2>2, ThreadsKept, EndsKept
<1>3. QueueRight'
  <2>1. ASSUME NEW c \in Cmds, Waited(c) PROVE Waited(c)'
    BY <2>1 DEF Waited, DriverFrame, thread
  <2>2. StillWaited(Elements(order))
    BY <2>1, QueuedTypes DEF IInv, QueueRight, StillWaited
  <2> QED
    BY <2>2, QueueKept DEF DriverFrame, thread
<1>4. PoolRight'
  BY PoolKept DEF DriverFrame, thread
<1> QED
  BY <1>1, <1>2, <1>3, <1>4

LEMMA WaitedKept ==
  ASSUME UNCHANGED <<thread, readers, condition>>, NEW c, Waited(c)
  PROVE  Waited(c)'
BY DEF Waited, thread

(* The head of the queue. *)
LEMMA Heads ==
  ASSUME IInv
  PROVE  /\ order \in Seq(Cmds) /\ Len(order) \in Nat
         /\ cmds = Null <=> order = <<>>
         /\ order # <<>> => cmds = order[1] /\ Len(order) > 0 /\ order[1] \in Cmds
<1>1. order \in Seq(Cmds) /\ cmds = IF order = <<>> THEN Null ELSE order[1]
  BY DEF IInv, TypeOK, QueueRight, Links
<1>2. order # <<>> => Len(order) > 0 /\ order[1] \in Cmds
  BY <1>1
<1> QED
  BY <1>1, <1>2, NullRight

LEMMA TakeHeadKeeps ==
  ASSUME IInv, TakeHead
  PROVE  IInv'
<1>1. Driver("idle", "next") /\ dpc' = "next" /\ dpc = "idle"
  BY DEF TakeHead, Driver
<1>2. /\ DriverFrame /\ UNCHANGED <<queue, condition, copied, failed, pending>>
      /\ order' = order /\ dcmd' = cmds /\ cmds # Null
  BY DEF TakeHead, DriverFrame, queue, xfer
<1>3. TypeOK'
  BY <1>1 DEF IInv, TypeOK, TakeHead, pool, queue, xfer, thread
<1>4. DriverRight'
  BY <1>1, <1>2, Heads DEF IInv, DriverRight
<1> QED
  BY <1>1, <1>2, <1>3, <1>4, DriverKeeps DEF IInv

LEMMA LoadNextKeeps ==
  ASSUME IInv, LoadNext
  PROVE  IInv'
<1>1. Driver("next", "store") /\ dpc' = "store" /\ dpc = "next"
  BY DEF LoadNext, Driver
<1>2. /\ DriverFrame /\ UNCHANGED <<queue, condition, copied, failed, pending>>
      /\ order' = order /\ dcmd' = dcmd /\ dnext' = next[cmds]
  BY DEF LoadNext, DriverFrame, queue, xfer
<1>3. order # <<>> /\ dcmd = order[1]
  BY <1>1 DEF IInv, DriverRight
<1>4. next[order[1]] = IF 1 < Len(order) THEN order[2] ELSE Null
  BY <1>3, Heads DEF IInv, QueueRight, Links
<1>5. dnext' = IF Len(order) = 1 THEN Null ELSE order[2]
  <2>1. Len(order) \in Nat /\ Len(order) > 0 /\ cmds = order[1]
    BY <1>3, Heads
  <2>2. CASE Len(order) = 1
    BY <1>2, <1>4, <2>1, <2>2
  <2>3. CASE Len(order) > 1
    BY <1>2, <1>4, <2>1, <2>3
  <2> QED
    BY <2>1, <2>2, <2>3
<1>6. TypeOK'
  <2>1. next[cmds] \in Cmds \cup {Null}
    BY <1>3, Heads DEF IInv, TypeOK
  <2> QED
    BY <1>1, <2>1 DEF IInv, TypeOK, LoadNext, pool, queue, xfer, thread
<1>7. DriverRight'
  BY <1>1, <1>2, <1>3, <1>5 DEF IInv, DriverRight
<1> QED
  BY <1>1, <1>2, <1>6, <1>7, DriverKeeps DEF IInv

(* The command that has been taken goes from the queue to the driver. *)
LEMMA StoreNextKeeps ==
  ASSUME IInv, StoreNext
  PROVE  IInv'
<1>1. Driver("store", "tail") /\ dpc' = "tail" /\ dpc = "store"
  BY DEF StoreNext, Driver
<1>2. /\ DriverFrame /\ UNCHANGED <<condition, copied, failed, pending, last_cmd>>
      /\ order' = Tail(order) /\ dcmd' = dcmd /\ cmds' = dnext /\ next' = next
  BY DEF StoreNext, DriverFrame, xfer
<1>3. PICK d \in Cmds : d = dcmd /\ d = order[1] /\ order # <<>>
  BY <1>1, Heads DEF IInv, DriverRight
<1>4. PICK m \in Nat : Len(order) = m + 1
  <2>1. Len(order) - 1 \in Nat /\ Len(order) = (Len(order) - 1) + 1
    BY <1>3, Heads
  <2> QED
    BY <2>1
<1>5. /\ order' \in Seq(Cmds) /\ Len(order') = m
      /\ \A i \in 1 .. m : order'[i] = order[i + 1]
      /\ order' = <<>> <=> m = 0
  <2>1. PICK q \in Seq(Cmds) : q = order /\ q # <<>> /\ Len(q) = m + 1
    BY <1>3, <1>4, Heads
  <2>2. Tail(q) \in Seq(Cmds) /\ Len(Tail(q)) = m /\ \A i \in 1 .. m : Tail(q)[i] = q[i + 1]
    BY <2>1
  <2>3. Tail(q) = <<>> <=> m = 0
    BY <2>2, EmptySeq
  <2> QED
    BY <1>2, <2>1, <2>2, <2>3
<1>6. dnext = IF m = 0 THEN Null ELSE order[2]
  BY <1>1, <1>4 DEF IInv, DriverRight
<1>7. Links(cmds, order) /\ Once(order)
  BY DEF IInv, QueueRight
<1>8. Links(cmds, order)'
  <2>1. cmds' = IF order' = <<>> THEN Null ELSE order'[1]
    BY <1>2, <1>5, <1>6
  <2>2. ASSUME NEW i \in 1 .. m
        PROVE  next[order'[i]] = IF i < m THEN order'[i + 1] ELSE Null
    <3>1. next[order[i + 1]] = IF i + 1 < Len(order) THEN order[(i + 1) + 1] ELSE Null
      BY <1>4, <1>7, <2>2 DEF Links
    <3>2. i < m => order'[i + 1] = order[(i + 1) + 1]
      BY <1>5, <2>2
    <3> QED
      BY <1>4, <1>5, <2>2, <3>1, <3>2
  <2> QED
    BY <1>2, <1>5, <2>1, <2>2 DEF Links
<1>9. Once(order)' /\ d \notin Elements(order)' /\ Elements(order)' \subseteq Elements(order)
  <2>1. Once(order)'
    BY <1>4, <1>5, <1>7 DEF Once
  <2>2. d \notin Elements(order)'
    BY <1>3, <1>4, <1>5, <1>7 DEF Once, Elements
  <2>3. Elements(order)' \subseteq Elements(order)
    BY <1>4, <1>5 DEF Elements
  <2> QED
    BY <2>1, <2>2, <2>3
<1>10. order' # <<>> => LastOf(order') = LastOf(order)
  BY <1>4, <1>5 DEF LastOf
<1>11. Waited(d) /\ copied[d] = 0
  <2>1. d \in Elements(order)
    BY <1>3, <1>4 DEF Elements
  <2> QED
    BY <2>1 DEF IInv, QueueRight
<1>12. \A c \in Elements(order) : Waited(c)' /\ copied'[c] = 0
  BY <1>2, WaitedKept DEF IInv, QueueRight, DriverFrame
<1>13. TypeOK'
  <2>1. order' \in Seq(Cmds) /\ {cmds', dnext'} \subseteq Cmds \cup {Null}
    BY <1>5 DEF IInv, TypeOK, StoreNext
  <2> QED
    BY <1>1, <2>1 DEF IInv, TypeOK, StoreNext, pool, xfer, thread
<1>14. Alone'
  BY <1>1, <1>2, AloneDriver DEF IInv, DriverFrame, thread
<1>15. QueueRight'
  <2>1. order' # <<>> /\ (\A t \in Threads : pc'[t] # "last") => last_cmd' = LastOf(order')
    BY <1>2, <1>3, <1>10 DEF IInv, QueueRight, DriverFrame, thread
  <2>2. \A c \in Elements(order)' : Waited(c)' /\ copied'[c] = 0
    BY <1>9, <1>12
  <2> QED
    BY <1>8, <1>9, <2>1, <2>2 DEF QueueRight, LastOf
<1>16. ThreadsRight'
  <2>1. ASSUME NEW t \in Threads PROVE EndsRight(t)
    <3>1. pc[t] \notin {"first", "append"}
      BY <1>1, NoClash DEF DriverInside
    <3>2. pc[t] = "last" => LastOf(order) = mine[t]
      BY <1>3 DEF IInv, ThreadsRight, ThreadRight
    <3> QED
      BY <1>10, <3>1, <3>2 DEF EndsRight
  <2>2. \A t \in Threads : mine[t] \in Cmds => CommandRight(t)
    BY <1>2 DEF CommandRight
  <2>3. UNCHANGED <<pages, next, thread, readers, blocks>> /\ (failed => failed')
    BY <1>2 DEF DriverFrame, pool
  <2> QED
    BY <2>1, <2>2, <2>3, ThreadsKept
<1>17. PoolRight'
  BY <1>2, PoolKept DEF DriverFrame, thread
<1>18. DriverRight'
  <2>1. Waited(d)' /\ copied'[d] = 0
    BY <1>2, <1>11, WaitedKept DEF DriverFrame
  <2> QED
    BY <1>1, <1>2, <1>3, <1>9, <2>1 DEF IInv, DriverRight
<1> QED
  BY <1>13, <1>14, <1>15, <1>16, <1>17, <1>18 DEF IInv

LEMMA TestTailKeeps ==
  ASSUME IInv, TestTail
  PROVE  IInv'
<1>1. /\ Driver("tail", IF cmds = Null THEN "clear" ELSE "read") /\ dpc = "tail"
      /\ dpc' = IF cmds = Null THEN "clear" ELSE "read"
  BY DEF TestTail, Driver
<1>2. /\ DriverFrame /\ UNCHANGED <<queue, condition, copied, failed, pending>>
      /\ order' = order /\ dcmd' = dcmd
  BY DEF TestTail, DriverFrame, queue, xfer
<1>3. TypeOK'
  BY <1>1 DEF IInv, TypeOK, TestTail, pool, queue, xfer, thread
<1>4. PICK d : d = dcmd
  OBVIOUS
<1>5. Waited(d) /\ d \notin Elements(order) /\ copied[d] = 0 /\ pending = 0 /\ ~failed
  BY <1>1, <1>4 DEF IInv, DriverRight
<1>6. Waited(d)'
  BY <1>2, <1>5, WaitedKept DEF DriverFrame
<1>7. DriverRight'
  BY <1>1, <1>2, <1>4, <1>5, <1>6, Heads DEF DriverRight, Elements
<1> QED
  BY <1>1, <1>2, <1>3, <1>7, DriverKeeps DEF IInv

LEMMA ClearTailKeeps ==
  ASSUME IInv, ClearTail
  PROVE  IInv'
<1>1. Driver("clear", "read") /\ dpc = "clear" /\ dpc' = "read"
  BY DEF ClearTail, Driver
<1>2. /\ DriverFrame /\ UNCHANGED <<order, cmds, condition, copied, failed, pending>>
      /\ dcmd' = dcmd /\ last_cmd' = Null
  BY DEF ClearTail, DriverFrame, xfer
<1>3. PICK d : d = dcmd
  OBVIOUS
<1>4. /\ Waited(d) /\ d \notin Elements(order) /\ copied[d] = 0 /\ pending = 0 /\ ~failed
      /\ order = <<>>
  BY <1>1, <1>3 DEF IInv, DriverRight
<1>5. Waited(d)'
  BY <1>2, <1>4, WaitedKept DEF DriverFrame
<1>6. DriverRight'
  BY <1>1, <1>2, <1>3, <1>4, <1>5 DEF DriverRight, Elements
<1>7. TypeOK'
  BY <1>1 DEF IInv, TypeOK, ClearTail, pool, xfer, thread
<1>8. ThreadsRight'
  <2>1. \A t \in Threads : EndsRight(t)
    BY <1>2, <1>4 DEF IInv, ThreadsRight, ThreadRight, EndsRight
  <2>2. \A t \in Threads : mine[t] \in Cmds => CommandRight(t)
    BY <1>2 DEF CommandRight
  <2>3. UNCHANGED <<pages, next, thread, readers, blocks>> /\ (failed => failed')
    BY <1>2 DEF DriverFrame, pool
  <2> QED
    BY <2>1, <2>2, <2>3, ThreadsKept
<1>9. QueueRight'
  BY <1>2, <1>4 DEF IInv, QueueRight, Links, Once, Elements
<1>10. Alone'
  BY <1>1, <1>2, AloneDriver DEF IInv, DriverFrame, thread
<1>11. PoolRight'
  BY <1>2, PoolKept DEF DriverFrame, thread
<1> QED
  BY <1>6, <1>7, <1>8, <1>9, <1>10, <1>11 DEF IInv

(* A command of no sectors is done at once. *)
LEMMA ReadNothingKeeps ==
  ASSUME IInv, ReadNothing
  PROVE  IInv'
<1>1. Driver("read", "idle") /\ dpc = "read" /\ dpc' = "idle"
  BY DEF ReadNothing, Driver
<1>2. /\ DriverFrame /\ UNCHANGED <<queue, copied, failed, pending>> /\ next' = next
      /\ order' = order
  BY DEF ReadNothing, DriverFrame, queue, xfer
<1>3. PICK d : d = dcmd /\ Waited(d) /\ d \notin Elements(order)
               /\ copied[d] = 0 /\ pending = 0 /\ ~failed
  BY <1>1 DEF IInv, DriverRight
<1>4. d \in Cmds
  BY <1>3, NullRight DEF Waited, IInv, ThreadsRight, ThreadRight, TypeOK
<1>5. blocks[d] = 0 /\ condition' = [condition EXCEPT ![d] = TRUE]
  BY <1>3 DEF ReadNothing
<1>6. condition \in [Cmds -> BOOLEAN] /\ condition' \in [Cmds -> BOOLEAN]
  BY <1>5, CommandTypes DEF IInv
<1>7. TypeOK'
  BY <1>1, <1>6 DEF IInv, TypeOK, ReadNothing, pool, queue, xfer, thread
<1>8. \A c \in Cmds \ {d} : Waited(c) => Waited(c)'
  BY <1>2, <1>5, <1>6 DEF Waited, DriverFrame, thread
<1>9. DriverRight'
  BY <1>1, <1>2, <1>3 DEF DriverRight
<1>10. ThreadsRight'
  <2>1. ASSUME NEW t \in Threads, mine[t] \in Cmds PROVE CommandRight(t)
    <3>1. CASE mine[t] = d
      <4>1. pc[t] \in {"last", "wait"}
        BY <1>3, <1>4, <2>1, <3>1, NotQueued, NullRight
           DEF IInv, ThreadsRight, ThreadRight, TypeOK
      <4> QED
        BY <1>2, <1>3, <1>5, <3>1, <4>1 DEF CommandRight
    <3>2. CASE mine[t] # d
      BY <1>2, <1>5, <1>6, <2>1, <3>2 DEF CommandRight
    <3> QED
      BY <3>1, <3>2
  <2>2. UNCHANGED <<pages, next, thread, readers, blocks, order, last_cmd>> /\ (failed => failed')
    BY <1>2 DEF DriverFrame, pool, queue
  <2> QED
    BY <2>1, <2>2, ThreadsKept, EndsKept
<1>11. QueueRight'
  <2>1. StillWaited(Elements(order))
    <3>1. \A c \in Elements(order) : c \in Cmds \ {d} /\ Waited(c) /\ copied[c] = 0
      BY <1>3, QueuedTypes DEF IInv, QueueRight
    <3> QED
      BY <1>2, <1>8, <3>1 DEF StillWaited
  <2> QED
    BY <1>2, <2>1, QueueKept DEF DriverFrame, thread
<1>12. Alone'
  BY <1>1, <1>2, AloneDriver DEF IInv, DriverFrame, thread
<1>13. PoolRight'
  BY <1>2, PoolKept DEF DriverFrame, thread
<1> QED
  BY <1>7, <1>9, <1>10, <1>11, <1>12, <1>13 DEF IInv

LEMMA WaitedCmd ==
  ASSUME IInv, NEW c, Waited(c)
  PROVE  c \in Cmds
BY NullRight DEF Waited, IInv, ThreadsRight, ThreadRight, TypeOK

LEMMA ReadStartKeeps ==
  ASSUME IInv, ReadStart
  PROVE  IInv'
<1>1. Driver("read", "issue") /\ dpc = "read" /\ dpc' = "issue"
  BY DEF ReadStart, Driver
<1>2. PICK d \in Cmds : /\ d = dcmd /\ Waited(d) /\ d \notin Elements(order)
                        /\ copied[d] = 0 /\ pending = 0 /\ ~failed
  BY <1>1, WaitedCmd DEF IInv, DriverRight
<1>3. copied' = copied
  BY <1>2, CommandTypes DEF ReadStart, IInv
<1>4. /\ DriverFrame /\ UNCHANGED <<queue, condition, copied, failed, pending>>
      /\ order' = order /\ dcmd' = d /\ ide_cmd' = d /\ blocks' = blocks
  BY <1>2, <1>3 DEF ReadStart, DriverFrame, queue
<1>5. block_count' = blocks[d] /\ blocks[d] \in Nat /\ blocks[d] > 0
  BY <1>2, CommandTypes DEF ReadStart, IInv
<1>6. TypeOK'
  BY <1>1, <1>2, <1>3, <1>5 DEF IInv, TypeOK, ReadStart, pool, queue, thread
<1>7. Waited(d)'
  BY <1>2, <1>4, WaitedKept DEF DriverFrame
<1>8. DriverRight'
  <2>1. copied'[d] + block_count' = blocks'[d]
    BY <1>2, <1>4, <1>5
  <2> QED
    BY <1>1, <1>2, <1>4, <1>5, <1>7, <2>1 DEF DriverRight, Elements
<1> QED
  BY <1>1, <1>4, <1>6, <1>8, DriverKeeps DEF IInv

(* A portion is asked for. *)
LEMMA ReadIssueKeeps ==
  ASSUME IInv, ReadIssue
  PROVE  IInv'
<1>1. Driver("issue", "transfer") /\ dpc = "issue" /\ dpc' = "transfer"
  BY DEF ReadIssue, Driver
<1>2. PICK d : /\ d = dcmd /\ Waited(d) /\ d \notin Elements(order) /\ ide_cmd = d
               /\ block_count > 0 /\ copied[d] + block_count = blocks[d]
               /\ pending = 0 /\ ~failed
  BY <1>1 DEF IInv, DriverRight
<1>3. d \in Cmds
  BY <1>2, WaitedCmd
<1>4. /\ DriverFrame /\ UNCHANGED <<queue, condition, copied, failed>> /\ Portion' = Portion
      /\ order' = order /\ dcmd' = d /\ ide_cmd' = d /\ blocks' = blocks /\ copied' = copied
      /\ block_count' = block_count /\ ~failed'
  BY <1>2 DEF ReadIssue, DriverFrame, queue, Portion
<1>5. /\ transfer' = [transfer EXCEPT ![d] = FALSE] /\ sectors' = [sectors EXCEPT ![d] = Portion]
      /\ pending' = Portion
  BY <1>2 DEF ReadIssue
<1>6. /\ transfer \in [Cmds -> BOOLEAN] /\ sectors \in [Cmds -> Nat] /\ block_count \in Nat
      /\ copied[d] \in Nat /\ blocks[d] \in Nat
      /\ Portion \in Nat /\ Portion <= block_count /\ Portion <= MaxSectors /\ Portion > 0
  BY <1>2, <1>3, CommandTypes, PortionRight DEF IInv, TypeOK
<1>7. TypeOK'
  <2>1. /\ transfer' \in [Cmds -> BOOLEAN] /\ sectors' \in [Cmds -> Nat]
        /\ pending' \in 0 .. MaxSectors
    BY <1>3, <1>5, <1>6, DiskAssumption
  <2>2. /\ UNCHANGED <<pages, cur, next_free, used_count, next, cmds, last_cmd, order>>
        /\ UNCHANGED <<blocks, condition, copied, ide_cmd, failed, pc, mine>>
        /\ UNCHANGED <<dcmd, dnext, block_count, readers>>
    BY DEF ReadIssue, pool, queue, thread
  <2> QED
    BY <1>1, <2>1, <2>2 DEF IInv, TypeOK
<1>8. Waited(d)'
  BY <1>2, <1>4, WaitedKept DEF DriverFrame
<1>9. Serving'
  <2>1. sectors'[d] = pending' /\ ~transfer'[d] /\ pending' # 0 /\ pending' > 0
    BY <1>3, <1>5, <1>6
  <2>2. copied[d] + Portion + (block_count - Portion) = blocks[d]
    BY <1>2, <1>6
  <2>3. pending' <= Portion' /\ d \notin Elements(order)'
    BY <1>2, <1>4, <1>5, <1>6 DEF Elements
  <2> QED
    BY <1>4, <1>5, <1>8, <2>1, <2>2, <2>3 DEF Serving
<1>10. DriverRight'
  BY <1>1, <1>2, <1>3, <1>4, <1>9 DEF DriverRight
<1> QED
  BY <1>1, <1>4, <1>7, <1>10, DriverKeeps DEF IInv

(* A portion has been delivered.  If it was the last one, the thread may   *)
(* have given the command back, and the driver does not look at it again.  *)
LEMMA ReadTurnKeeps ==
  ASSUME IInv, ReadTurn
  PROVE  IInv'
<1>1. /\ Driver("transfer", IF block_count > Portion THEN "issue" ELSE "idle")
      /\ dpc = "transfer" /\ dpc' = IF block_count > Portion THEN "issue" ELSE "idle"
  BY DEF ReadTurn, Driver
<1>2. PICK d \in Cmds : d = dcmd /\ ide_cmd = d /\ (Serving \/ Delivered)
  BY <1>1 DEF IInv, DriverRight, ReadTurn, GivenUp
<1>3. /\ DriverFrame /\ UNCHANGED <<queue, condition, copied, failed>>
      /\ order' = order /\ dcmd' = d /\ ide_cmd' = d /\ blocks' = blocks /\ copied' = copied
      /\ pending' = pending /\ failed' = failed /\ block_count' = block_count - Portion
      /\ transfer[d]
  BY <1>2 DEF ReadTurn, DriverFrame, queue, xfer
<1>4. /\ block_count \in Nat /\ copied[d] \in Nat /\ blocks[d] \in Nat
      /\ Portion \in Nat /\ Portion <= block_count /\ pending \in Nat
  BY <1>2, CommandTypes, PortionRight DEF IInv, TypeOK
<1>5. pending = 0 /\ ~failed
  BY <1>2, <1>3 DEF Serving, Delivered
<1>6. TypeOK'
  <2>1. block_count' \in Nat
    BY <1>3, <1>4
  <2> QED
    BY <1>1, <2>1 DEF IInv, TypeOK, ReadTurn, pool, queue, xfer, thread
<1>7. DriverRight'
  <2>1. CASE block_count > Portion
    <3>1. Waited(d) /\ d \notin Elements(order) /\ copied[d] + (block_count - Portion) = blocks[d]
      BY <1>2, <1>4, <1>5, <2>1 DEF Serving, Delivered
    <3>2. Waited(d)'
      BY <1>3, <3>1, WaitedKept DEF DriverFrame
    <3>3. dpc' = "issue" /\ block_count' > 0
      BY <1>1, <1>3, <1>4, <2>1
    <3> QED
      BY <1>3, <1>5, <3>1, <3>2, <3>3 DEF DriverRight, Elements
  <2>2. CASE ~(block_count > Portion)
    BY <1>1, <1>3, <1>5, <2>2 DEF DriverRight
  <2> QED
    BY <2>1, <2>2
<1> QED
  BY <1>1, <1>3, <1>6, <1>7, DriverKeeps DEF IInv

-----------------------------------------------------------------------------
(* The threads.                                                            *)

(* What waits for its condition still does when thread t takes a step that *)
(* is not the end of the wait.                                             *)
LEMMA ThreadWaited ==
  ASSUME IInv, NEW t \in Threads, NEW a, NEW b, Thread(t, a, b), UNCHANGED readers,
         \A u \in Threads \ {t} : mine'[u] = mine[u],
         a = "last" => b = "wait" /\ mine'[t] = mine[t],
         a = "wait" => condition[mine[t]],
         NEW c, Waited(c), condition'[c] = condition[c]
  PROVE  Waited(c)'
<1>1. PICK u \in Threads : /\ u \in readers /\ mine[u] = c
                           /\ pc[u] \in {"last", "wait"} /\ ~condition[c]
  BY DEF Waited
<1>2. pc[t] = a /\ pc' = [pc EXCEPT ![t] = b] /\ DOMAIN pc = Threads
  BY DEF Thread, IInv, TypeOK
<1>3. pc'[u] \in {"last", "wait"} /\ mine'[u] = c
  <2>1. CASE u = t
    BY <1>1, <1>2, <2>1
  <2>2. CASE u # t
    BY <1>1, <1>2, <2>2
  <2> QED
    BY <2>1, <2>2
<1> QED
  BY <1>1, <1>3 DEF Waited

(* Another thread is outside the queue, and its command is left alone. *)
CommandSame(c) ==
  condition'[c] = condition[c] /\ copied'[c] = copied[c] /\ blocks'[c] = blocks[c]

LEMMA OtherThread ==
  ASSUME IInv, NEW t \in Threads, NEW a, NEW b, Thread(t, a, b),
         UNCHANGED <<readers, failed>>,
         NEW u \in Threads, u # t, mine'[u] = mine[u],
         Elements(pages) \subseteq Elements(pages)',
         mine[u] \in Cmds => CommandSame(mine[u]),
         pc[u] = "test" => next'[mine[u]] = next[mine[u]]
  PROVE  ThreadRight(u)'
<1>1. pc'[u] = pc[u] /\ pc[u] \notin {"first", "append", "last"}
  BY OthersOutside DEF Thread, Inside, IInv, TypeOK
<1>2. ThreadRight(u) /\ (mine[u] \in Cmds \/ mine[u] = Null)
  BY DEF IInv, ThreadsRight, TypeOK
<1>3. pc[u] # "idle" => mine[u] \in Cmds
  BY <1>2 DEF ThreadRight
<1> QED
  BY <1>1, <1>2, <1>3 DEF ThreadRight, CommandSame

(* The driver goes on with what it has. *)
CommandLent(d) ==
  /\ Waited(d)' /\ copied'[d] = copied[d] /\ blocks'[d] = blocks[d]
  /\ d \notin Elements(order) => d \notin Elements(order)'

LEMMA DriverKept ==
  ASSUME IInv, UNCHANGED <<driver, sectors, transfer, ide_cmd, pending, failed>>,
         DriverInside => order' = order,
         NEW d, d = dcmd, Waited(d) => CommandLent(d)
  PROVE  DriverRight'
<1>1. d = dcmd
  OBVIOUS
<1>2. /\ dpc' = dpc /\ dcmd' = d /\ dnext' = dnext /\ block_count' = block_count
      /\ Portion' = Portion
  BY <1>1 DEF driver, Portion
<1>3. Waited(d) => CommandLent(d)
  BY <1>1
<1>4. Serving => Serving'
  BY <1>1, <1>2, <1>3 DEF Serving, CommandLent
<1>5. (Delivered => Delivered') /\ (GivenUp => GivenUp')
  BY <1>1, <1>2 DEF Delivered, GivenUp
<1>6. dpc = "transfer" => (Serving \/ Delivered \/ GivenUp)'
  BY <1>4, <1>5 DEF IInv, DriverRight
<1>7. dpc \in {"next", "store", "tail", "clear"} => order' = order
  BY DEF DriverInside
<1>8. dpc \in {"tail", "clear", "read", "issue"} =>
        /\ Waited(d)' /\ d \notin Elements(order)'
        /\ copied'[d] = copied[d] /\ blocks'[d] = blocks[d]
  BY <1>1, <1>3 DEF IInv, DriverRight, CommandLent
<1> QED
  BY <1>1, <1>2, <1>6, <1>7, <1>8 DEF IInv, DriverRight

LEMMA EnqueueTestKeeps ==
  ASSUME IInv, NEW t \in Threads, EnqueueTest(t)
  PROVE  IInv'
<1>1. PICK b \in {"first", "append"} :
         /\ Thread(t, "test", b) /\ pc[t] = "test" /\ pc' = [pc EXCEPT ![t] = b]
         /\ b = IF cmds = Null THEN "first" ELSE "append"
  BY DEF EnqueueTest, Thread
<1>2. UNCHANGED <<pool, next, queue, blocks, condition, transfer, xfer, mine, driver>>
  BY DEF EnqueueTest
<1>3. /\ readers' = readers /\ failed' = failed /\ pages' = pages /\ order' = order
      /\ last_cmd' = last_cmd /\ copied' = copied /\ mine' = mine
  BY <1>2 DEF pool, queue, xfer, driver
<1>4. TypeOK'
  BY <1>1, <1>2 DEF IInv, TypeOK, pool, queue, xfer, driver
<1>5. Alone'
  BY <1>1, <1>2, AloneThread DEF IInv
<1>6. \A c \in Cmds : Waited(c) => Waited(c)'
  BY <1>1, <1>2, <1>3, ThreadWaited
<1>7. DriverRight'
  <2>1. PICK d : d = dcmd
    OBVIOUS
  <2>2. Waited(d) => CommandLent(d)
    BY <1>2, <1>3, <1>6, WaitedCmd DEF CommandLent, Elements
  <2>3. UNCHANGED <<driver, sectors, transfer, ide_cmd, pending, failed, order>>
    BY <1>2 DEF xfer, queue
  <2> QED
    BY <2>1, <2>2, <2>3, DriverKept
<1>8. ThreadsRight'
  <2>1. Apart'
    BY <1>3 DEF IInv, ThreadsRight, Apart
  <2>2. \A u \in Threads : u # t => ThreadRight(u)'
    BY <1>1, <1>2, <1>3, OtherThread DEF CommandSame, Elements
  <2>3. ThreadRight(t)'
    <3>1. b = "append" => order # <<>> /\ last_cmd = LastOf(order)
      <4>1. b = "append" => order # <<>>
        BY <1>1, Heads
      <4>2. \A u \in Threads : pc[u] # "last"
        BY <1>1, OthersOutside DEF Inside
      <4> QED
        BY <4>1, <4>2 DEF IInv, QueueRight
    <3>2. b = "first" => order = <<>>
      BY <1>1, Heads
    <3>3. pc'[t] = b
      BY <1>1 DEF IInv, TypeOK
    <3> QED
      BY <1>1, <1>2, <1>3, <3>1, <3>2, <3>3
         DEF IInv, ThreadsRight, ThreadRight, LastOf, Elements
  <2> QED
    BY <2>1, <2>2, <2>3 DEF ThreadsRight
<1>9. QueueRight'
  <2>1. StillWaited(Elements(order))
    BY <1>3, <1>6, QueuedTypes DEF IInv, QueueRight, StillWaited
  <2>2. \A u \in Threads : pc[u] = "last" => pc'[u] = "last"
    BY <1>1 DEF IInv, TypeOK
  <2> QED
    BY <1>2, <2>1, <2>2, QueueKept
<1>10. PoolRight'
  BY <1>2, PoolKept
<1> QED
  BY <1>4, <1>5, <1>7, <1>8, <1>9, <1>10 DEF IInv

(* One more command, at the end of the queue. *)
LEMMA Appended ==
  ASSUME NEW S, NEW q \in Seq(S), NEW c \in S
  PROVE  Elements(Append(q, c)) = Elements(q) \cup {c}
<1>1. PICK r \in Seq(S) : r = Append(q, c)
  BY AppendProperties
<1>2. PICK n \in Nat : n = Len(q)
  OBVIOUS
<1>3. Len(r) = n + 1 /\ r[n + 1] = c /\ \A i \in 1 .. n : r[i] = q[i]
  BY <1>1, <1>2
<1>4. \A x : x \in Elements(r) <=> \E i \in 1 .. n + 1 : x = r[i]
  BY <1>3 DEF Elements
<1>5. \A x : x \in Elements(q) <=> \E i \in 1 .. n : x = q[i]
  BY <1>2 DEF Elements
<1>6. \A x : x \in Elements(r) <=> x \in Elements(q) \cup {c}
  BY <1>3, <1>4, <1>5
<1> QED
  BY <1>1, <1>6

(* The thread's command is linked: the two ways to do it have the rest in  *)
(* common.                                                                 *)
LEMMA LinkedKeeps ==
  ASSUME IInv, NEW t \in Threads, NEW a \in {"first", "append"}, Thread(t, a, "last"),
         order' = Append(order, mine[t]), Links(cmds, order)',
         \A c \in Cmds \ Elements(order) : next'[c] = next[c],
         UNCHANGED <<pool, blocks, condition, transfer, xfer, mine, driver>>
  PROVE  /\ Alone' /\ ThreadsRight' /\ QueueRight' /\ DriverRight' /\ PoolRight'
         /\ order' \in Seq(Cmds)
<1>1. pc[t] = a /\ pc' = [pc EXCEPT ![t] = "last"] /\ DOMAIN pc = Threads /\ t \in readers
  BY DEF Thread, IInv, TypeOK
<1>2. /\ readers' = readers /\ failed' = failed /\ pages' = pages /\ copied' = copied
      /\ mine' = mine /\ sectors' = sectors /\ ide_cmd' = ide_cmd /\ pending' = pending
  BY DEF pool, xfer, driver
<1>3. PICK c \in Cmds : /\ c = mine[t] /\ ~condition[c] /\ copied[c] = 0 /\ next[c] = Null
  BY <1>1 DEF IInv, ThreadsRight, ThreadRight, TypeOK
<1>4. ~Waited(c)
  BY <1>1, <1>3, NotQueued
<1>5. c \notin Elements(order)
  BY <1>4 DEF IInv, QueueRight
<1>6. PICK n \in Nat, q \in Seq(Cmds) :
        /\ n = Len(order) /\ q = order' /\ q # <<>> /\ Len(q) = n + 1
        /\ q[n + 1] = c /\ \A i \in 1 .. n : q[i] = order[i]
        /\ Elements(q) = Elements(order) \cup {c}
  <2>1. PICK o \in Seq(Cmds) : o = order
    BY DEF IInv, TypeOK
  <2>2. PICK q : q = Append(o, c)
    OBVIOUS
  <2>3. /\ q \in Seq(Cmds) /\ q # <<>> /\ Len(o) \in Nat /\ Len(q) = Len(o) + 1
        /\ q[Len(o) + 1] = c /\ \A i \in 1 .. Len(o) : q[i] = o[i]
        /\ Elements(q) = Elements(o) \cup {c}
    <3>1. Elements(q) = Elements(o) \cup {c}
      BY <2>2, Appended
    <3>2. q \in Seq(Cmds) /\ q # <<>> /\ Len(o) \in Nat /\ Len(q) = Len(o) + 1
      BY <2>2
    <3>3. q[Len(o) + 1] = c /\ \A i \in 1 .. Len(o) : q[i] = o[i]
      BY <2>2
    <3> QED
      BY <3>1, <3>2, <3>3
  <2> QED
    BY <1>3, <2>1, <2>2, <2>3
<1>7. ASSUME NEW d \in Cmds, Waited(d) PROVE Waited(d)'
  BY <1>1, <1>2, <1>7, ThreadWaited
<1>8. Waited(c)'
  BY <1>1, <1>2, <1>3 DEF Waited
<1>9. Alone'
  BY AloneThread DEF IInv
<1>10. ThreadsRight'
  <2>1. Apart'
    BY <1>2 DEF IInv, ThreadsRight, Apart
  <2>2. ASSUME NEW u \in Threads, u # t PROVE ThreadRight(u)'
    <3>1. pc[u] = "test" => next'[mine[u]] = next[mine[u]]
      <4>1. pc[u] = "test" => mine[u] \in Cmds
        BY DEF IInv, ThreadsRight, ThreadRight, TypeOK
      <4>2. pc[u] = "test" => mine[u] \notin Elements(order)
        BY <4>1, NotQueued DEF IInv, QueueRight
      <4> QED
        BY <4>1, <4>2
    <3> QED
      BY <1>2, <2>2, <3>1, OtherThread DEF CommandSame, Elements
  <2>3. ThreadRight(t)'
    BY <1>1, <1>2, <1>3, <1>6 DEF IInv, ThreadsRight, ThreadRight, LastOf, Elements
  <2> QED
    BY <2>1, <2>2, <2>3 DEF ThreadsRight
<1>11. QueueRight'
  <2>1. Once(order)'
    <3>1. \A i \in 1 .. n : order[i] # c
      BY <1>5, <1>6 DEF Elements
    <3>2. \A i, j \in 1 .. n : order[i] = order[j] => i = j
      BY <1>6 DEF IInv, QueueRight, Once
    <3> QED
      BY <1>6, <3>1, <3>2 DEF Once
  <2>2. \A d \in Elements(order)' : Waited(d)' /\ copied'[d] = 0
    <3>1. Elements(order)' = Elements(order) \cup {c}
      BY <1>6 DEF Elements
    <3>2. \A d \in Elements(order) : d \in Cmds /\ Waited(d) /\ copied[d] = 0
      BY QueuedTypes DEF IInv, QueueRight
    <3> QED
      BY <1>2, <1>3, <1>7, <1>8, <3>1, <3>2
  <2>3. pc'[t] = "last"
    BY <1>1
  <2> QED
    BY <2>1, <2>2, <2>3 DEF QueueRight
<1>12. DriverRight'
  <2>1. ~DriverInside
    BY <1>1, NoClash
  <2>2. PICK d : d = dcmd
    OBVIOUS
  <2>3. Waited(d) => CommandLent(d)
    <3>1. Elements(order)' = Elements(order) \cup {c}
      BY <1>6 DEF Elements
    <3> QED
      BY <1>2, <1>4, <1>7, <3>1, WaitedCmd DEF CommandLent
  <2>4. UNCHANGED <<driver, sectors, transfer, ide_cmd, pending, failed>>
    BY <1>2
  <2> QED
    BY <2>1, <2>2, <2>3, <2>4, DriverKept
<1>13. PoolRight'
  <2>1. Elements(order) \subseteq Held
    BY NullRight, QueuedTypes DEF IInv, QueueRight, Waited, Held
  <2> QED
    BY <1>2, <2>1, PoolKept
<1> QED
  BY <1>6, <1>9, <1>10, <1>11, <1>12, <1>13

LEMMA EnqueueFirstKeeps ==
  ASSUME IInv, NEW t \in Threads, EnqueueFirst(t)
  PROVE  IInv'
<1>1. Thread(t, "first", "last") /\ pc[t] = "first" /\ pc' = [pc EXCEPT ![t] = "last"]
  BY DEF EnqueueFirst, Thread
<1>2. PICK c \in Cmds : c = mine[t] /\ next[c] = Null /\ order = <<>>
  BY <1>1 DEF IInv, ThreadsRight, ThreadRight, TypeOK
<1>3. /\ cmds' = c /\ order' = Append(order, mine[t]) /\ next' = next
      /\ UNCHANGED <<pool, blocks, condition, transfer, xfer, mine, driver>>
  BY <1>2 DEF EnqueueFirst
<1>4. order' = <<c>>
  BY <1>2, <1>3
<1>5. Links(cmds, order)'
  BY <1>2, <1>3, <1>4 DEF Links
<1>6. /\ Alone' /\ ThreadsRight' /\ QueueRight' /\ DriverRight' /\ PoolRight'
      /\ order' \in Seq(Cmds)
  BY <1>1, <1>3, <1>5, LinkedKeeps
<1>7. TypeOK'
  <2>1. UNCHANGED <<pages, cur, next_free, used_count, next, last_cmd, blocks, condition,
                    transfer, copied, sectors, ide_cmd, pending, failed, mine, dpc, dcmd,
                    dnext, block_count, readers>>
    BY DEF EnqueueFirst, pool, xfer, driver
  <2>2. {cmds', last_cmd, ide_cmd, dcmd, dnext} \subseteq Cmds \cup {Null}
    BY <1>2, <1>3 DEF IInv, TypeOK
  <2>3. pc' \in [Threads -> {"idle", "test", "first", "append", "last", "wait", "free"}]
    BY <1>1 DEF IInv, TypeOK
  <2> QED
    BY <1>6, <2>1, <2>2, <2>3 DEF IInv, TypeOK
<1> QED
  BY <1>6, <1>7 DEF IInv

LEMMA EnqueueAppendKeeps ==
  ASSUME IInv, NEW t \in Threads, EnqueueAppend(t)
  PROVE  IInv'
<1>1. Thread(t, "append", "last") /\ pc[t] = "append" /\ pc' = [pc EXCEPT ![t] = "last"]
  BY DEF EnqueueAppend, Thread
<1>2. PICK c \in Cmds : c = mine[t] /\ next[c] = Null
  BY <1>1 DEF IInv, ThreadsRight, ThreadRight, TypeOK
<1>3. PICK o \in Seq(Cmds), n \in Nat : /\ o = order /\ o # <<>> /\ Len(o) = n + 1
                                        /\ last_cmd = o[n + 1] /\ cmds = o[1]
  <2>1. order \in Seq(Cmds) /\ order # <<>> /\ last_cmd = order[Len(order)]
    BY <1>1 DEF IInv, TypeOK, ThreadsRight, ThreadRight, LastOf
  <2>2. Len(order) - 1 \in Nat /\ Len(order) = (Len(order) - 1) + 1 /\ cmds = order[1]
    BY <2>1, Heads
  <2> QED
    BY <2>1, <2>2
<1>4. PICK e \in Cmds : e = o[n + 1] /\ e = last_cmd /\ e \in Elements(order)
  BY <1>3 DEF Elements
<1>5. /\ next' = [next EXCEPT ![e] = c] /\ order' = Append(order, mine[t])
      /\ UNCHANGED <<pool, blocks, condition, transfer, xfer, mine, driver>>
      /\ next \in [Cmds -> Cmds \cup {Null}] /\ cmds' = cmds
  BY <1>2, <1>4 DEF EnqueueAppend, IInv, TypeOK
<1>6. c \notin Elements(order)
  BY <1>1, <1>2, NotQueued DEF IInv, QueueRight
<1>7. Links(cmds, order)'
  <2>1. PICK q : q = order' /\ q = Append(o, c)
    BY <1>2, <1>3, <1>5
  <2>2. /\ q # <<>> /\ Len(q) = n + 2 /\ q[n + 2] = c /\ \A i \in 1 .. n + 1 : q[i] = o[i]
    BY <1>2, <1>3, <2>1
  <2>3. \A i \in 1 .. n + 1 : o[i] # c
    BY <1>3, <1>6 DEF Elements
  <2>4. \A i \in 1 .. n : o[i] # e
    BY <1>3, <1>4 DEF IInv, QueueRight, Once
  <2>5. \A i \in 1 .. n : next[o[i]] = o[i + 1]
    BY <1>3 DEF IInv, QueueRight, Links
  <2>6. ASSUME NEW i \in 1 .. n + 2
        PROVE  next'[q[i]] = IF i < n + 2 THEN q[i + 1] ELSE Null
    <3>1. CASE i \in 1 .. n
      <4>1. q[i] = o[i] /\ q[i + 1] = o[i + 1] /\ o[i] # e /\ next[o[i]] = o[i + 1]
        BY <2>2, <2>4, <2>5, <3>1
      <4>2. o[i] \in Cmds
        BY <1>3, <3>1
      <4> QED
        BY <1>5, <3>1, <4>1, <4>2
    <3>2. CASE i = n + 1
      <4>1. q[i] = e /\ i < n + 2 /\ q[i + 1] = c
        <5>1. n + 1 \in 1 .. n + 1 /\ n + 1 < n + 2 /\ (n + 1) + 1 = n + 2
          BY <1>3
        <5> QED
          BY <1>4, <2>2, <3>2, <5>1
      <4>2. next'[e] = c
        BY <1>4, <1>5
      <4> QED
        BY <4>1, <4>2
    <3>3. CASE i = n + 2
      <4>1. c # e
        BY <1>4, <1>6
      <4> QED
        BY <1>2, <1>5, <2>2, <3>3, <4>1
    <3> QED
      BY <2>6, <3>1, <3>2, <3>3
  <2>7. cmds' = q[1]
    BY <1>3, <1>5, <2>2
  <2> QED
    BY <2>1, <2>2, <2>6, <2>7 DEF Links
<1>8. \A d \in Cmds \ Elements(order) : next'[d] = next[d]
  BY <1>4, <1>5
<1>9. /\ Alone' /\ ThreadsRight' /\ QueueRight' /\ DriverRight' /\ PoolRight'
      /\ order' \in Seq(Cmds)
  BY <1>1, <1>5, <1>7, <1>8, LinkedKeeps
<1>10. TypeOK'
  <2>1. next' \in [Cmds -> Cmds \cup {Null}]
    BY <1>2, <1>5
  <2> QED
    BY <1>1, <1>9, <2>1 DEF IInv, TypeOK, EnqueueAppend, pool, xfer, driver
<1> QED
  BY <1>9, <1>10 DEF IInv

LEMMA EnqueueLastKeeps ==
  ASSUME IInv, NEW t \in Threads, EnqueueLast(t)
  PROVE  IInv'
<1>1. /\ Thread(t, "last", "wait") /\ pc[t] = "last" /\ pc' = [pc EXCEPT ![t] = "wait"]
      /\ DOMAIN pc = Threads
  BY DEF EnqueueLast, Thread, IInv, TypeOK
<1>2. /\ UNCHANGED <<pool, next, cmds, order, blocks, condition, transfer, xfer, mine, driver>>
      /\ last_cmd' = mine[t]
  BY DEF EnqueueLast
<1>3. /\ readers' = readers /\ failed' = failed /\ pages' = pages /\ copied' = copied
      /\ sectors' = sectors /\ ide_cmd' = ide_cmd /\ pending' = pending
  BY <1>2 DEF pool, xfer, driver
<1>4. mine[t] \in Cmds
  BY <1>1 DEF IInv, ThreadsRight, ThreadRight, TypeOK
<1>5. TypeOK'
  BY <1>1, <1>2, <1>4 DEF IInv, TypeOK, pool, xfer, driver
<1>6. Alone'
  BY <1>1, <1>2, AloneThread DEF IInv
<1>7. ASSUME NEW c \in Cmds, Waited(c) PROVE Waited(c)'
  BY <1>1, <1>2, <1>3, <1>7, ThreadWaited
<1>8. DriverRight'
  <2>1. PICK d : d = dcmd
    OBVIOUS
  <2>2. Waited(d) => CommandLent(d)
    BY <1>2, <1>3, <1>7, WaitedCmd DEF CommandLent, Elements
  <2> QED
    BY <1>2, <1>3, <2>1, <2>2, DriverKept
<1>9. ThreadsRight'
  <2>1. Apart'
    BY <1>2 DEF IInv, ThreadsRight, Apart
  <2>2. ASSUME NEW u \in Threads, u # t PROVE ThreadRight(u)'
    BY <1>1, <1>2, <1>3, <2>2, OtherThread DEF CommandSame, Elements
  <2>3. ThreadRight(t)'
    BY <1>1, <1>2, <1>3 DEF IInv, ThreadsRight, ThreadRight, Elements
  <2> QED
    BY <2>1, <2>2, <2>3 DEF ThreadsRight
<1>10. QueueRight'
  <2>1. order # <<>> => last_cmd' = LastOf(order)
    BY <1>1, <1>2 DEF IInv, ThreadsRight, ThreadRight
  <2>2. \A c \in Elements(order) : Waited(c)' /\ copied'[c] = 0
    BY <1>3, <1>7, QueuedTypes DEF IInv, QueueRight
  <2> QED
    BY <1>2, <2>1, <2>2 DEF IInv, QueueRight, Links, Once, Elements, LastOf
<1>11. PoolRight'
  BY <1>2, PoolKept
<1> QED
  BY <1>5, <1>6, <1>8, <1>9, <1>10, <1>11 DEF IInv

LEMMA WaitCmdKeeps ==
  ASSUME IInv, NEW t \in Threads, WaitCmd(t)
  PROVE  IInv'
<1>1. /\ Thread(t, "wait", "free") /\ pc[t] = "wait" /\ pc' = [pc EXCEPT ![t] = "free"]
      /\ DOMAIN pc = Threads
  BY DEF WaitCmd, Thread, IInv, TypeOK
<1>2. /\ UNCHANGED <<pool, next, queue, blocks, condition, transfer, xfer, mine, driver>>
      /\ condition[mine[t]]
  BY DEF WaitCmd
<1>3. /\ readers' = readers /\ failed' = failed /\ pages' = pages /\ copied' = copied
      /\ sectors' = sectors /\ ide_cmd' = ide_cmd /\ pending' = pending
      /\ order' = order /\ last_cmd' = last_cmd
  BY <1>2 DEF pool, xfer, driver, queue
<1>4. TypeOK'
  BY <1>1, <1>2 DEF IInv, TypeOK, pool, queue, xfer, driver
<1>5. Alone'
  BY <1>1, <1>2, AloneThread DEF IInv
<1>6. ASSUME NEW c \in Cmds, Waited(c) PROVE Waited(c)'
  BY <1>1, <1>2, <1>3, <1>6, ThreadWaited
<1>7. DriverRight'
  <2>1. PICK d : d = dcmd
    OBVIOUS
  <2>2. Waited(d) => CommandLent(d)
    BY <1>2, <1>3, <1>6, WaitedCmd DEF CommandLent, Elements
  <2> QED
    BY <1>2, <1>3, <2>1, <2>2, DriverKept
<1>8. ThreadsRight'
  <2>1. Apart'
    BY <1>2 DEF IInv, ThreadsRight, Apart
  <2>2. ASSUME NEW u \in Threads, u # t PROVE ThreadRight(u)'
    BY <1>1, <1>2, <1>3, <2>2, OtherThread DEF CommandSame, Elements
  <2>3. ThreadRight(t)'
    BY <1>1, <1>2, <1>3 DEF IInv, ThreadsRight, ThreadRight, Elements, Thread
  <2> QED
    BY <2>1, <2>2, <2>3 DEF ThreadsRight
<1>9. QueueRight'
  <2>1. StillWaited(Elements(order))
    BY <1>3, <1>6, QueuedTypes DEF IInv, QueueRight, StillWaited
  <2> QED
    BY <1>1, <1>2, <2>1, QueueKept
<1>10. PoolRight'
  BY <1>2, PoolKept
<1> QED
  BY <1>4, <1>5, <1>7, <1>8, <1>9, <1>10 DEF IInv

-----------------------------------------------------------------------------
(* The pool.                                                               *)

LEMMA AsList ==
  ASSUME NEW S, NEW n \in Nat, NEW s \in [1 .. n -> S]
  PROVE  s \in Seq(S) /\ Len(s) = n /\ (s = <<>> <=> n = 0)
<1>1. s \in Seq(S)
  BY IsASeq
<1>2. Len(s) = n
  BY <1>1, LenProperties
<1> QED
  BY <1>1, <1>2, EmptySeq

(* Lists of n members of S. *)
Lists(n, S) == [1 .. n -> S]

(* The links L lead from h on through the n commands of s, each once. *)
Chain(L, h, n, s) ==
  /\ h = IF n = 0 THEN Null ELSE s[1]
  /\ \A i \in 1 .. n : L[s[i]] = IF i < n THEN s[i + 1] ELSE Null
  /\ \A i, j \in 1 .. n : s[i] = s[j] => i = j

LEMMA FreeChain ==
  ASSUME NEW p, NEW n \in Nat, NEW s \in [1 .. n -> Slots(p)]
  PROVE  /\ FreeList(p, n, s) <=>
              /\ Chain(next, next_free[p], n, s)
              /\ Elements(s) = Slots(p) \ Held /\ n = PageSlots - used_count[p]
         /\ FreeList(p, n, s)' <=>
              /\ Chain(next', next_free'[p], n, s)
              /\ Elements(s) = Slots(p) \ Held' /\ n = PageSlots - used_count'[p]
<1>1. Len(s) = n /\ (s = <<>> <=> n = 0)
  BY AsList
<1>2. FreeList(p, n, s) <=>
        /\ Chain(next, next_free[p], n, s)
        /\ Elements(s) = Slots(p) \ Held /\ n = PageSlots - used_count[p]
  BY <1>1 DEF FreeList, Links, Once, Chain
<1>3. FreeList(p, n, s)' <=>
        /\ Chain(next', next_free'[p], n, s)
        /\ Elements(s) = Slots(p) \ Held' /\ n = PageSlots - used_count'[p]
  BY <1>1 DEF FreeList, Links, Once, Chain, Elements, Slots
<1> QED
  BY <1>2, <1>3

LEMMA ListElements ==
  ASSUME NEW S, NEW n \in Nat, NEW s \in [1 .. n -> S]
  PROVE  \A x : x \in Elements(s) <=> \E i \in 1 .. n : x = s[i]
BY AsList DEF Elements

(* The first command is taken. *)
LEMMA Popped ==
  ASSUME NEW S, S \subseteq Cmds, NEW n \in Nat, NEW s \in Lists(n, S),
         NEW L, NEW h, Chain(L, h, n, s), h # Null,
         NEW M, \A c \in Elements(s) \ {h} : M[c] = L[c]
  PROVE  /\ h \in Elements(s) /\ h \in S /\ n > 0
         /\ \E r \in Lists(n - 1, S) :
              Chain(M, L[h], n - 1, r) /\ Elements(r) = Elements(s) \ {h}
<1> USE DEF Lists
<1>1. \A x : x \in Elements(s) <=> \E i \in 1 .. n : x = s[i]
  <2>1. Len(s) = n
    BY AsList
  <2> QED
    BY <2>1 DEF Elements
<1>2. n > 0 /\ h = s[1] /\ n - 1 \in Nat
  BY DEF Chain
<1>3. PICK m \in Nat : n = m + 1 /\ m = n - 1
  BY <1>2
<1>4. h \in S /\ h \in Elements(s)
  BY <1>2, <1>1
<1>5. PICK r : r = [i \in 1 .. m |-> s[i + 1]]
  OBVIOUS
<1>6. r \in [1 .. m -> S] /\ \A i \in 1 .. m : r[i] = s[i + 1]
  BY <1>3, <1>5
<1>7. \A i \in 1 .. m : r[i] \in Elements(s) \ {h}
  <2>1. ASSUME NEW i \in 1 .. m PROVE r[i] \in Elements(s) /\ r[i] # h
    <3>1. r[i] = s[i + 1] /\ i + 1 \in 1 .. n /\ i + 1 # 1
      BY <1>3, <1>6
    <3> QED
      BY <1>2, <1>1, <3>1 DEF Chain
  <2> QED
    BY <2>1
<1>8. Chain(M, L[h], m, r)
  <2>1. L[h] = IF m = 0 THEN Null ELSE r[1]
    <3>1. L[h] = IF 1 < n THEN s[1 + 1] ELSE Null
      BY <1>2 DEF Chain
    <3>2. m > 0 => r[1] = s[1 + 1]
      BY <1>6
    <3> QED
      BY <1>3, <3>1, <3>2
  <2>2. ASSUME NEW i \in 1 .. m PROVE M[r[i]] = IF i < m THEN r[i + 1] ELSE Null
    <3>1. M[r[i]] = L[s[i + 1]]
      BY <1>6, <1>7
    <3>2. L[s[i + 1]] = IF i + 1 < n THEN s[(i + 1) + 1] ELSE Null
      BY <1>3 DEF Chain
    <3>3. i < m => r[i + 1] = s[(i + 1) + 1]
      BY <1>6
    <3> QED
      BY <1>3, <3>1, <3>2, <3>3
  <2>3. \A i, j \in 1 .. m : r[i] = r[j] => i = j
    BY <1>3, <1>6 DEF Chain
  <2> QED
    BY <2>1, <2>2, <2>3 DEF Chain
<1>9. Elements(r) = Elements(s) \ {h}
  <2>1. \A x : x \in Elements(r) <=> \E i \in 1 .. m : x = r[i]
    <3>1. Len(r) = m
      BY <1>6, AsList
    <3> QED
      BY <3>1 DEF Elements
  <2>2. \A x : x \in Elements(s) <=> \E i \in 1 .. n : x = s[i]
    BY <1>1
  <2>3. ASSUME NEW x, x \in Elements(s) \ {h} PROVE x \in Elements(r)
    <3>1. PICK i \in 1 .. n : x = s[i] /\ i # 1
      BY <1>2, <2>2, <2>3
    <3>2. i - 1 \in 1 .. m /\ (i - 1) + 1 = i
      BY <1>3, <3>1
    <3> QED
      BY <1>6, <2>1, <3>1, <3>2
  <2> QED
    BY <1>7, <2>1, <2>3
<1> QED
  BY <1>2, <1>3, <1>4, <1>6, <1>8, <1>9

(* A command is put in front. *)
LEMMA Pushed ==
  ASSUME NEW S, NEW n \in Nat, NEW s \in Lists(n, S),
         NEW L, NEW h, Chain(L, h, n, s), NEW c \in S, c \notin Elements(s),
         NEW M, M[c] = h, \A d \in Elements(s) : M[d] = L[d]
  PROVE  \E r \in Lists(n + 1, S) :
           Chain(M, c, n + 1, r) /\ Elements(r) = Elements(s) \cup {c}
<1> USE DEF Lists
<1>1. PICK r : r = [i \in 1 .. n + 1 |-> IF i = 1 THEN c ELSE s[i - 1]]
  OBVIOUS
<1>2. r \in [1 .. n + 1 -> S] /\ r[1] = c /\ \A i \in 1 .. n : r[i + 1] = s[i]
  BY <1>1
<1>3. \A i \in 1 .. n : s[i] \in Elements(s) /\ s[i] # c
  BY ListElements
<1>4. ASSUME NEW i \in 1 .. n + 1 PROVE i = 1 \/ \E j \in 1 .. n : i = j + 1
  <2>1. i # 1 => i - 1 \in 1 .. n /\ i = (i - 1) + 1
    OBVIOUS
  <2> QED
    BY <2>1
<1>5. Chain(M, c, n + 1, r)
  <2>1. ASSUME NEW i \in 1 .. n + 1 PROVE M[r[i]] = IF i < n + 1 THEN r[i + 1] ELSE Null
    <3>1. CASE i = 1
      BY <1>2, <3>1 DEF Chain
    <3>2. CASE i # 1
      <4>1. PICK j \in 1 .. n : i = j + 1
        BY <1>4, <3>2
      <4>2. M[r[i]] = L[s[j]]
        BY <1>2, <1>3, <4>1
      <4>3. L[s[j]] = IF j < n THEN s[j + 1] ELSE Null
        BY DEF Chain
      <4>4. j < n => r[(j + 1) + 1] = s[j + 1]
        BY <1>2
      <4> QED
        BY <4>1, <4>2, <4>3, <4>4
    <3> QED
      BY <3>1, <3>2
  <2>2. ASSUME NEW i \in 1 .. n + 1, NEW j \in 1 .. n + 1, r[i] = r[j] PROVE i = j
    <3>1. CASE i = 1 /\ j = 1
      BY <3>1
    <3>2. CASE i # 1 /\ j # 1
      <4>1. PICK k \in 1 .. n, l \in 1 .. n : i = k + 1 /\ j = l + 1
        BY <1>4, <3>2
      <4> QED
        <5>1. s[k] = s[l]
          BY <1>2, <2>2, <4>1
        <5> QED
          BY <4>1, <5>1 DEF Chain
    <3>3. CASE (i = 1 /\ j # 1) \/ (i # 1 /\ j = 1)
      <4>1. PICK k \in 1 .. n : i = k + 1 \/ j = k + 1
        BY <1>4, <3>3
      <4>2. r[1] = c /\ r[k + 1] = s[k] /\ r[1] = r[k + 1]
        BY <1>2, <2>2, <3>3, <4>1
      <4>3. s[k] \in Elements(s)
        BY ListElements
      <4> QED
        BY <4>2, <4>3
    <3> QED
      BY <3>1, <3>2, <3>3
  <2> QED
    BY <1>2, <2>1, <2>2 DEF Chain
<1>6. Elements(r) = Elements(s) \cup {c}
  <2>1. \A x : x \in Elements(r) <=> \E i \in 1 .. n + 1 : x = r[i]
    <3>1. n + 1 \in Nat /\ r \in [1 .. n + 1 -> S]
      BY <1>2
    <3>2. Len(r) = n + 1
      BY <3>1, AsList
    <3> QED
      BY <3>2 DEF Elements
  <2>2. \A x : x \in Elements(s) <=> \E i \in 1 .. n : x = s[i]
    BY ListElements
  <2>3. \A x : x \in Elements(r) => x \in Elements(s) \cup {c}
    BY <1>2, <1>4, <2>1, <2>2
  <2>4. \A x : x \in Elements(s) \cup {c} => x \in Elements(r)
    BY <1>2, <2>1, <2>2
  <2> QED
    BY <2>3, <2>4
<1> QED
  BY <1>2, <1>5, <1>6

(* A page with a command in use has not all of them in its free list. *)
LEMMA RoomLeft ==
  ASSUME NEW p, NEW n \in Nat, NEW s \in [1 .. n -> Slots(p)],
         \A i, j \in 1 .. n : s[i] = s[j] => i = j,
         NEW c \in Slots(p), c \notin Elements(s)
  PROVE  n < PageSlots
<1>1. PageSlots \in Nat /\ PageSlots > 0
  BY DiskAssumption
<1>2. \A d \in Slots(p) : d[2] \in 1 .. PageSlots /\ d = <<p, d[2]>>
  BY DEF Slots, Cmds
<1>3. PICK T : T = (1 .. PageSlots) \ {c[2]}
  OBVIOUS
<1>4. IsFiniteSet(T) /\ Cardinality(T) = PageSlots - 1
  <2>1. IsFiniteSet(1 .. PageSlots) /\ Cardinality(1 .. PageSlots) = PageSlots
    BY <1>1, FS_Interval
  <2>2. c[2] \in 1 .. PageSlots
    BY <1>2
  <2> QED
    BY <1>3, <2>1, <2>2, FS_RemoveElement
<1>5. PICK f : f = [i \in 1 .. n |-> s[i][2]]
  OBVIOUS
<1>6. f \in [1 .. n -> T]
  <2>1. ASSUME NEW i \in 1 .. n PROVE s[i][2] \in T
    <3>1. s[i] \in Slots(p) /\ s[i] # c
      <4>1. Len(s) = n
        BY AsList
      <4> QED
        BY <4>1 DEF Elements
    <3>2. s[i] = <<p, s[i][2]>> /\ c = <<p, c[2]>> /\ s[i][2] \in 1 .. PageSlots
      BY <1>2, <3>1
    <3> QED
      BY <1>3, <3>1, <3>2
  <2> QED
    BY <1>5, <2>1
<1>7. SUFFICES ASSUME ~(n < PageSlots) PROVE FALSE
  OBVIOUS
<1>8. IsFiniteSet(1 .. n) /\ Cardinality(1 .. n) = n
  BY <1>1, <1>7, FS_Interval
<1>9. PICK i \in 1 .. n, j \in 1 .. n : i # j /\ f[i] = f[j]
  BY <1>1, <1>4, <1>6, <1>7, <1>8, FS_PigeonHole
<1>10. s[i] = s[j]
  <2>1. s[i][2] = s[j][2] /\ s[i] \in Slots(p) /\ s[j] \in Slots(p)
    BY <1>5, <1>9
  <2> QED
    BY <1>2, <2>1
<1> QED
  BY <1>9, <1>10

(* A thread takes the command e out of the pool or puts it back. *)
OthersRight(t) == \A u \in Threads \ {t} : ThreadRight(u)'

LEMMA PoolStep ==
  ASSUME IInv, NEW t \in Threads, NEW a \in {"idle", "free"}, NEW b, Thread(t, a, b),
         UNCHANGED <<queue, transfer, sectors, ide_cmd, pending, failed, driver>>,
         NEW e \in Cmds, ~Waited(e),
         \A u \in Threads \ {t} : mine'[u] = mine[u] /\ mine[u] # e,
         \A c \in Cmds \ {e} : CommandSame(c),
         \A c \in Held \ {e} : next'[c] = next[c],
         Elements(pages) \subseteq Elements(pages)'
  PROVE  Alone' /\ QueueRight' /\ DriverRight' /\ OthersRight(t)
<1>1. /\ pc[t] = a /\ pc' = [pc EXCEPT ![t] = b] /\ DOMAIN pc = Threads
      /\ readers' = readers /\ order' = order /\ cmds' = cmds /\ last_cmd' = last_cmd
  BY DEF Thread, IInv, TypeOK, queue, driver
<1>2. ASSUME NEW c \in Cmds, Waited(c) PROVE Waited(c)' /\ CommandSame(c)
  <2>1. c # e /\ CommandSame(c)
    BY <1>2
  <2>2. condition'[c] = condition[c]
    BY <2>1 DEF CommandSame
  <2> QED
    BY <1>1, <1>2, <2>1, <2>2, ThreadWaited
<1>3. Alone'
  BY AloneThread DEF IInv
<1>4. QueueRight'
  <2>1. \A c \in Elements(order) : c \in Cmds /\ Waited(c) /\ copied[c] = 0
    BY QueuedTypes DEF IInv, QueueRight
  <2>2. \A c \in Elements(order) : c \in Held \ {e}
    BY <2>1, NullRight DEF Waited, Held
  <2>3. \A i \in 1 .. Len(order) : next'[order[i]] = next[order[i]]
    BY <2>2 DEF Elements
  <2>4. Links(cmds, order)' /\ Once(order)'
    BY <1>1, <2>3 DEF IInv, QueueRight, Links, Once
  <2>5. \A c \in Elements(order) : Waited(c)' /\ copied'[c] = 0
    BY <1>2, <2>1 DEF CommandSame
  <2>6. (\A u \in Threads : pc'[u] # "last") => \A u \in Threads : pc[u] # "last"
    BY <1>1
  <2> QED
    BY <1>1, <2>4, <2>5, <2>6 DEF IInv, QueueRight, Elements, LastOf
<1>5. DriverRight'
  <2>1. PICK d : d = dcmd
    OBVIOUS
  <2>2. Waited(d) => CommandLent(d)
    BY <1>1, <1>2, WaitedCmd DEF CommandLent, CommandSame, Elements
  <2> QED
    BY <1>1, <2>1, <2>2, DriverKept
<1>6. OthersRight(t)
  <2>1. ASSUME NEW u \in Threads, u # t PROVE ThreadRight(u)'
    <3>1. mine'[u] = mine[u] /\ mine[u] # e
      BY <2>1
    <3>2. mine[u] \in Cmds => CommandSame(mine[u]) /\ next'[mine[u]] = next[mine[u]]
      BY <3>1, NullRight DEF Held
    <3>3. pc[u] = "test" => mine[u] \in Cmds
      BY DEF IInv, ThreadsRight, ThreadRight, TypeOK
    <3> QED
      BY <1>1, <2>1, <3>1, <3>2, <3>3, OtherThread
  <2> QED
    BY <2>1 DEF OthersRight
<1> QED
  BY <1>3, <1>4, <1>5, <1>6

(* A page whose commands, list and count are left alone. *)
LEMMA PageKept ==
  ASSUME IInv, NEW p \in Elements(pages),
         \A c \in Slots(p) : next'[c] = next[c],
         next_free'[p] = next_free[p], used_count'[p] = used_count[p],
         Slots(p) \ Held' = Slots(p) \ Held
  PROVE  PageRight(p)'
<1>1. PageRight(p)
  BY DEF IInv, PoolRight
<1>2. PICK n \in 0 .. PageSlots : \E s \in [1 .. n -> Slots(p)] : FreeList(p, n, s)
  BY <1>1 DEF PageRight
<1>3. PICK s \in [1 .. n -> Slots(p)] : FreeList(p, n, s)
  BY <1>2
<1>4. n \in Nat
  BY DiskAssumption
<1>5. \A i \in 1 .. n : next'[s[i]] = next[s[i]]
  OBVIOUS
<1>6. FreeList(p, n, s)'
  <2>1. Chain(next, next_free[p], n, s)
    BY <1>3, <1>4, FreeChain
  <2>2. Chain(next', next_free'[p], n, s)
    BY <1>5, <2>1 DEF Chain
  <2> QED
    BY <1>3, <1>4, <2>2, FreeChain
<1> QED
  BY <1>6 DEF PageRight, Slots

LEMMA PlaceRight ==
  ASSUME TypeOK, Once(pages), NEW p \in Elements(pages)
  PROVE  Place(p) \in 1 .. Len(pages) /\ pages[Place(p)] = p
<1>1. \E i \in 1 .. Len(pages) : pages[i] = p
  BY DEF Elements
<1> QED
  BY <1>1 DEF Place

LEMMA PageList ==
  ASSUME IInv, NEW p \in Elements(pages)
  PROVE  \E n \in 0 .. PageSlots : \E s \in [1 .. n -> Slots(p)] :
           /\ Chain(next, next_free[p], n, s)
           /\ Elements(s) = Slots(p) \ Held /\ n = PageSlots - used_count[p]
<1>1. PICK n \in 0 .. PageSlots : \E s \in [1 .. n -> Slots(p)] : FreeList(p, n, s)
  BY DEF IInv, PoolRight, PageRight
<1>2. PICK s \in [1 .. n -> Slots(p)] : FreeList(p, n, s)
  BY <1>1
<1>3. n \in Nat
  BY DiskAssumption
<1>4. /\ Chain(next, next_free[p], n, s)
      /\ Elements(s) = Slots(p) \ Held /\ n = PageSlots - used_count[p]
  BY <1>2, <1>3, FreeChain
<1> QED
  BY <1>4

LEMMA FreeDiskCmdKeeps ==
  ASSUME IInv, NEW t \in Threads, FreeDiskCmd(t)
  PROVE  IInv'
<1>1. /\ Thread(t, "free", "idle") /\ pc[t] = "free" /\ pc' = [pc EXCEPT ![t] = "idle"]
      /\ DOMAIN pc = Threads
  BY DEF FreeDiskCmd, Thread, IInv, TypeOK
<1>2. PICK c \in Cmds, p \in Pages : /\ c = mine[t] /\ p = c[1] /\ p \in Elements(pages)
                                     /\ c \in Slots(p)
  <2>1. mine[t] \in Cmds /\ mine[t][1] \in Elements(pages)
    BY <1>1, NullRight DEF IInv, ThreadsRight, ThreadRight, TypeOK
  <2>2. mine[t][1] \in Pages /\ mine[t] \in Slots(mine[t][1])
    BY <2>1 DEF Cmds, Slots
  <2> QED
    BY <2>1, <2>2
<1>3. /\ next' = [next EXCEPT ![c] = next_free[p]]
      /\ next_free' = [next_free EXCEPT ![p] = c]
      /\ used_count' = [used_count EXCEPT ![p] = used_count[p] - 1]
      /\ cur' = IF Place(p) < cur THEN Place(p) ELSE cur
      /\ mine' = [mine EXCEPT ![t] = Null]
  BY <1>2 DEF FreeDiskCmd
<1>4. UNCHANGED <<pages, queue, blocks, condition, transfer, xfer, driver>>
  BY DEF FreeDiskCmd
<1>5. /\ copied' = copied /\ readers' = readers /\ pages' = pages
      /\ UNCHANGED <<sectors, ide_cmd, pending, failed>>
  BY <1>4 DEF xfer, driver
<1>6. /\ next \in [Cmds -> Cmds \cup {Null}] /\ next_free \in [Pages -> Cmds \cup {Null}]
      /\ used_count \in [Pages -> 0 .. PageSlots] /\ mine \in [Threads -> Cmds \cup {Null}]
      /\ cur \in Nat /\ Len(pages) \in Nat
  BY PoolTypes DEF IInv
<1>7. \A u \in Threads \ {t} : mine'[u] = mine[u] /\ mine[u] # c
  BY <1>2, <1>3, <1>6, NullRight DEF IInv, ThreadsRight, Apart
<1>8. ~Waited(c)
  BY <1>1, <1>2, NotQueued
<1>9. c \in Held /\ Held' = Held \ {c}
  BY <1>2, <1>3, <1>6, <1>7, NullRight DEF Held
<1>10. Alone' /\ QueueRight' /\ DriverRight' /\ OthersRight(t)
  <2>1. \A d \in Cmds \ {c} : CommandSame(d)
    BY <1>4, <1>5 DEF CommandSame
  <2>2. \A d \in Held \ {c} : next'[d] = next[d]
    BY <1>3, <1>6 DEF Held
  <2>3. Elements(pages) \subseteq Elements(pages)'
    BY <1>5 DEF Elements
  <2> QED
    BY <1>1, <1>4, <1>5, <1>7, <1>8, <2>1, <2>2, <2>3, PoolStep
<1>11. ThreadsRight'
  <2>1. Apart'
    BY <1>3, <1>6, <1>7 DEF IInv, ThreadsRight, Apart
  <2>2. ThreadRight(t)'
    BY <1>1, <1>3, <1>6 DEF ThreadRight
  <2> QED
    BY <1>10, <2>1, <2>2 DEF ThreadsRight, OthersRight
<1>12. PICK n \in 0 .. PageSlots :
         \E s \in [1 .. n -> Slots(p)] :
           /\ Chain(next, next_free[p], n, s)
           /\ Elements(s) = Slots(p) \ Held /\ n = PageSlots - used_count[p]
  BY <1>2, PageList
<1>13. PICK s \in [1 .. n -> Slots(p)] :
         /\ Chain(next, next_free[p], n, s)
         /\ Elements(s) = Slots(p) \ Held /\ n = PageSlots - used_count[p]
  BY <1>12
<1>14. /\ PageSlots \in Nat /\ n \in Nat /\ n < PageSlots /\ used_count[p] \in Nat
       /\ used_count[p] > 0 /\ used_count[p] <= PageSlots /\ c \notin Elements(s)
  <2>1. PageSlots \in Nat /\ n \in Nat /\ used_count[p] \in Nat /\ used_count[p] <= PageSlots
    BY <1>6, DiskAssumption
  <2>2. c \notin Elements(s)
    BY <1>9, <1>13
  <2>3. \A i, j \in 1 .. n : s[i] = s[j] => i = j
    BY <1>13 DEF Chain
  <2>4. n < PageSlots
    BY <1>2, <2>1, <2>2, <2>3, RoomLeft
  <2> QED
    BY <1>13, <2>1, <2>2, <2>4
<1>15. Place(p) \in 1 .. Len(pages) /\ pages[Place(p)] = p
  BY <1>2, PlaceRight DEF IInv, PoolRight
<1>16. PoolRight'
  <2>1. PageRight(p)'
    <3>1. next'[c] = next_free[p] /\ \A d \in Elements(s) : next'[d] = next[d]
      BY <1>3, <1>6, <1>13, <1>14 DEF Slots
    <3>2. PICK r \in [1 .. n + 1 -> Slots(p)] :
            Chain(next', c, n + 1, r) /\ Elements(r) = Elements(s) \cup {c}
      <4>1. PICK L, h, M : L = next /\ h = next_free[p] /\ M = next'
        OBVIOUS
      <4>2. n \in Nat /\ Chain(L, h, n, s) /\ c \in Slots(p) /\ c \notin Elements(s)
        BY <1>2, <1>13, <1>14, <4>1
      <4>3. s \in Lists(n, Slots(p))
        BY DEF Lists
      <4>4. M[c] = h /\ \A d \in Elements(s) : M[d] = L[d]
        BY <3>1, <4>1
      <4>5. \E r \in Lists(n + 1, Slots(p)) :
              Chain(M, c, n + 1, r) /\ Elements(r) = Elements(s) \cup {c}
        BY <4>2, <4>4, <4>3, Pushed
      <4> QED
        BY <4>1, <4>5 DEF Lists
    <3>3. /\ n + 1 \in Nat /\ next_free'[p] = c /\ n + 1 = PageSlots - used_count'[p]
          /\ n + 1 \in 0 .. PageSlots
      BY <1>2, <1>3, <1>6, <1>13, <1>14
    <3>4. Elements(r) = Slots(p) \ Held'
      BY <1>2, <1>9, <1>13, <3>2
    <3>5. FreeList(p, n + 1, r)'
      BY <3>2, <3>3, <3>4, FreeChain
    <3> QED
      BY <3>3, <3>5 DEF PageRight, Slots
  <2>2. ASSUME NEW q \in Elements(pages), q # p PROVE PageRight(q)'
    <3>1. c \notin Slots(q)
      BY <1>2, <2>2 DEF Slots
    <3>2. \A d \in Slots(q) : next'[d] = next[d]
      BY <1>3, <1>6, <3>1 DEF Slots
    <3>3. next_free'[q] = next_free[q] /\ used_count'[q] = used_count[q]
      BY <1>3, <1>6, <2>2
    <3>4. Slots(q) \ Held' = Slots(q) \ Held
      BY <1>9, <3>1
    <3> QED
      BY <3>2, <3>3, <3>4, PageKept
  <2>3. ASSUME NEW i \in 1 .. cur' - 1 PROVE next_free'[pages[i]] = Null
    <3>1. i \in 1 .. cur - 1 /\ i < Place(p) /\ i \in 1 .. Len(pages)
      BY <1>3, <1>6, <1>15
    <3>2. pages[i] # p
      BY <1>15, <3>1 DEF IInv, PoolRight, Once
    <3> QED
      BY <1>3, <1>6, <3>1, <3>2 DEF IInv, PoolRight
  <2>4. \A q \in Pages \ Elements(pages) : used_count'[q] = 0
    BY <1>2, <1>3, <1>6 DEF IInv, PoolRight
  <2> QED
    BY <1>5, <2>1, <2>2, <2>3, <2>4 DEF IInv, PoolRight, Once, Elements
<1>17. TypeOK'
  <2>1. /\ next' \in [Cmds -> Cmds \cup {Null}] /\ next_free' \in [Pages -> Cmds \cup {Null}]
        /\ mine' \in [Threads -> Cmds \cup {Null}]
    BY <1>2, <1>3, <1>6
  <2>2. used_count' \in [Pages -> 0 .. PageSlots]
    BY <1>2, <1>3, <1>6, <1>14
  <2>3. cur' \in 1 .. Len(pages)
    BY <1>3, <1>15 DEF IInv, TypeOK
  <2> QED
    BY <1>1, <1>4, <2>1, <2>2, <2>3 DEF IInv, TypeOK, queue, xfer, driver
<1> QED
  BY <1>10, <1>11, <1>16, <1>17 DEF IInv

(* The first command of page p's list, c, is taken. *)
LEMMA TakePage ==
  ASSUME IInv, NEW t \in Threads, NEW p \in Pages, NEW c \in Cmds, NEW L, NEW b,
         TakeCmd(t, p, c, L, b), L \in [Cmds -> Cmds \cup {Null}],
         Held' = Held \cup {c},
         NEW k \in Nat, k <= PageSlots, NEW s \in Lists(k, Slots(p)), Chain(L, c, k, s),
         Elements(s) = Slots(p) \ Held, k = PageSlots - used_count[p]
  PROVE  PageRight(p)' /\ used_count' \in [Pages -> 0 .. PageSlots]
<1>1. /\ next_free' = [next_free EXCEPT ![p] = L[c]] /\ next' = [L EXCEPT ![c] = Null]
      /\ used_count' = [used_count EXCEPT ![p] = used_count[p] + 1]
      /\ next_free \in [Pages -> Cmds \cup {Null}] /\ used_count \in [Pages -> 0 .. PageSlots]
      /\ PageSlots \in Nat
  BY PoolTypes, DiskAssumption DEF TakeCmd, IInv
<1>2. PICK M : M = next'
  OBVIOUS
<1>3. Slots(p) \subseteq Cmds /\ c # Null /\ \A d \in Elements(s) \ {c} : M[d] = L[d]
  BY <1>1, <1>2, NullRight DEF Slots
<1>4. /\ c \in Elements(s) /\ c \in Slots(p) /\ k > 0
      /\ \E r \in Lists(k - 1, Slots(p)) :
           Chain(M, L[c], k - 1, r) /\ Elements(r) = Elements(s) \ {c}
  BY <1>3, Popped
<1>5. PICK m \in Nat : m = k - 1
  BY <1>4
<1>6. PICK r \in [1 .. m -> Slots(p)] : Chain(M, L[c], m, r) /\ Elements(r) = Elements(s) \ {c}
  BY <1>4, <1>5 DEF Lists
<1>7. used_count[p] \in 0 .. PageSlots
  BY <1>1
<1>8. /\ m \in 0 .. PageSlots /\ used_count[p] + 1 \in 0 .. PageSlots
      /\ m = PageSlots - (used_count[p] + 1)
  BY <1>1, <1>4, <1>5, <1>7
<1>9. next_free'[p] = L[c] /\ used_count'[p] = used_count[p] + 1
  BY <1>1
<1>10. FreeList(p, m, r)'
  BY <1>2, <1>6, <1>8, <1>9, FreeChain
<1> QED
  BY <1>1, <1>8, <1>10 DEF PageRight, Slots

LEMMA TakeKeeps ==
  ASSUME IInv, NEW t \in Threads, Thread(t, "idle", "test"),
         NEW p \in Pages, NEW c \in Cmds, c[1] = p, c \notin Held, NEW L, NEW b \in Blocks,
         TakeCmd(t, p, c, L, b), L \in [Cmds -> Cmds \cup {Null}],
         \A d \in Held : L[d] = next[d],
         Elements(pages) \subseteq Elements(pages)', p \in Elements(pages)',
         UNCHANGED <<queue, transfer, sectors, ide_cmd, pending, failed, driver>>
  PROVE  /\ Alone' /\ ThreadsRight' /\ QueueRight' /\ DriverRight'
         /\ Held' = Held \cup {c}
         /\ next' \in [Cmds -> Cmds \cup {Null}] /\ next_free' \in [Pages -> Cmds \cup {Null}]
         /\ blocks' \in [Cmds -> Nat] /\ copied' \in [Cmds -> Nat]
         /\ condition' \in [Cmds -> BOOLEAN] /\ mine' \in [Threads -> Cmds \cup {Null}]
         /\ pc' = [pc EXCEPT ![t] = "test"]
<1>1. /\ pc[t] = "idle" /\ pc' = [pc EXCEPT ![t] = "test"] /\ DOMAIN pc = Threads
      /\ t \in readers
  BY DEF Thread, IInv, TypeOK
<1>2. /\ next_free' = [next_free EXCEPT ![p] = L[c]] /\ next' = [L EXCEPT ![c] = Null]
      /\ condition' = [condition EXCEPT ![c] = FALSE] /\ blocks' = [blocks EXCEPT ![c] = b]
      /\ copied' = [copied EXCEPT ![c] = 0] /\ mine' = [mine EXCEPT ![t] = c]
  BY DEF TakeCmd
<1>3. /\ next_free \in [Pages -> Cmds \cup {Null}] /\ mine \in [Threads -> Cmds \cup {Null}]
      /\ blocks \in [Cmds -> Nat] /\ copied \in [Cmds -> Nat]
      /\ condition \in [Cmds -> BOOLEAN] /\ b \in Nat
  BY PoolTypes, CommandTypes, DiskAssumption DEF IInv
<1>4. mine[t] = Null
  BY <1>1 DEF IInv, ThreadsRight, ThreadRight
<1>5. \A u \in Threads \ {t} : mine'[u] = mine[u] /\ mine[u] # c
  BY <1>2, <1>3, NullRight DEF Held
<1>6. Held' = Held \cup {c}
  BY <1>2, <1>3, <1>4, NullRight DEF Held
<1>7. ~Waited(c)
  BY NullRight DEF Waited, Held
<1>8. Alone' /\ QueueRight' /\ DriverRight' /\ OthersRight(t)
  <2>1. \A d \in Cmds \ {c} : CommandSame(d)
    BY <1>2, <1>3 DEF CommandSame
  <2>2. \A d \in Held \ {c} : next'[d] = next[d]
    <3>1. Held \subseteq Cmds
      BY <1>3 DEF Held
    <3> QED
      BY <1>2, <3>1
  <2> QED
    BY <1>5, <1>7, <2>1, <2>2, PoolStep
<1>9. ThreadsRight'
  <2>1. Apart'
    BY <1>2, <1>3, <1>5 DEF IInv, ThreadsRight, Apart
  <2>2. ThreadRight(t)'
    <3>1. pc'[t] = "test" /\ mine'[t] = c /\ c # Null /\ t \in readers'
      BY <1>1, <1>2, <1>3, NullRight DEF driver
    <3>2. ~condition'[c] /\ copied'[c] = 0 /\ next'[c] = Null
      BY <1>2, <1>3
    <3> QED
      BY <3>1, <3>2 DEF ThreadRight
  <2> QED
    BY <1>8, <2>1, <2>2 DEF ThreadsRight, OthersRight
<1> QED
  BY <1>1, <1>2, <1>3, <1>6, <1>8, <1>9

LEMMA AllocFromPageKeeps ==
  ASSUME IInv, NEW t \in Threads, NEW b \in Blocks, AllocFromPage(t, b)
  PROVE  IInv'
<1>1. PICK i \in Open : /\ \A j \in Open : i <= j
                        /\ cur' = i
                        /\ TakeCmd(t, pages[i], next_free[pages[i]], next, b)
  BY DEF AllocFromPage
<1>2. /\ Thread(t, "idle", "test") /\ pages' = pages
      /\ UNCHANGED <<queue, transfer, sectors, ide_cmd, pending, failed, driver>>
  BY DEF AllocFromPage
<1>3. /\ next \in [Cmds -> Cmds \cup {Null}] /\ next_free \in [Pages -> Cmds \cup {Null}]
      /\ cur \in Nat /\ Len(pages) \in Nat /\ cur > 0
  BY PoolTypes DEF IInv
<1>4. i \in cur .. Len(pages) /\ i \in 1 .. Len(pages) /\ next_free[pages[i]] # Null
  BY <1>1, <1>3 DEF Open
<1>5. PICK p \in Pages, c \in Cmds : /\ p = pages[i] /\ c = next_free[p] /\ p \in Elements(pages)
  <2>1. pages[i] \in Pages
    BY <1>4, ElementOfSeq DEF IInv, TypeOK
  <2> QED
    BY <1>3, <1>4, <2>1 DEF Elements
<1>6. PICK k \in 0 .. PageSlots :
        \E s \in [1 .. k -> Slots(p)] :
          /\ Chain(next, next_free[p], k, s)
          /\ Elements(s) = Slots(p) \ Held /\ k = PageSlots - used_count[p]
  BY <1>5, PageList
<1>7. PICK s \in [1 .. k -> Slots(p)] :
        /\ Chain(next, next_free[p], k, s)
        /\ Elements(s) = Slots(p) \ Held /\ k = PageSlots - used_count[p]
  BY <1>6
<1>8. k \in Nat /\ k <= PageSlots /\ s \in Lists(k, Slots(p)) /\ c # Null
  BY DiskAssumption, NullRight DEF Lists
<1>9. PICK L : L = next
  OBVIOUS
<1>10. TakeCmd(t, p, c, L, b) /\ L \in [Cmds -> Cmds \cup {Null}] /\ Chain(L, c, k, s)
  BY <1>1, <1>3, <1>5, <1>7, <1>9
<1>11. c \in Elements(s)
  BY <1>7, <1>8, <1>10, Popped DEF Slots
<1>12. c \notin Held /\ c[1] = p
  BY <1>7, <1>11 DEF Slots
<1>13. /\ Alone' /\ ThreadsRight' /\ QueueRight' /\ DriverRight'
       /\ Held' = Held \cup {c}
       /\ next' \in [Cmds -> Cmds \cup {Null}] /\ next_free' \in [Pages -> Cmds \cup {Null}]
       /\ blocks' \in [Cmds -> Nat] /\ copied' \in [Cmds -> Nat]
       /\ condition' \in [Cmds -> BOOLEAN] /\ mine' \in [Threads -> Cmds \cup {Null}]
       /\ pc' = [pc EXCEPT ![t] = "test"]
  <2>1. Elements(pages)' = Elements(pages)
    BY <1>2 DEF Elements
  <2> QED
    BY <1>2, <1>5, <1>9, <1>10, <1>12, <2>1, TakeKeeps
<1>14. PageRight(p)' /\ used_count' \in [Pages -> 0 .. PageSlots]
  BY <1>7, <1>8, <1>10, <1>13, TakePage
<1>15. TypeOK'
  <2>1. cur' \in 1 .. Len(pages')
    BY <1>1, <1>2, <1>4
  <2> QED
    BY <1>1, <1>2, <1>13, <1>14, <2>1 DEF IInv, TypeOK, queue, driver
<1>16. PoolRight'
  <2>1. /\ next' = [next EXCEPT ![c] = Null] /\ next_free' = [next_free EXCEPT ![p] = next[c]]
        /\ used_count' = [used_count EXCEPT ![p] = @ + 1]
    BY <1>1, <1>5 DEF TakeCmd
  <2>2. ASSUME NEW q \in Elements(pages), q # p PROVE PageRight(q)'
    <3>1. c \notin Slots(q)
      BY <1>12, <2>2 DEF Slots
    <3>2. \A d \in Slots(q) : next'[d] = next[d]
      BY <1>3, <2>1, <3>1 DEF Slots
    <3>3. next_free'[q] = next_free[q] /\ used_count'[q] = used_count[q]
      BY <1>3, <2>1, <2>2 DEF IInv, TypeOK
    <3>4. Slots(q) \ Held' = Slots(q) \ Held
      BY <1>13, <3>1
    <3> QED
      BY <3>2, <3>3, <3>4, PageKept
  <2>3. ASSUME NEW j \in 1 .. cur' - 1 PROVE next_free'[pages[j]] = Null
    <3>1. j < i /\ j \in 1 .. Len(pages)
      BY <1>1, <1>3, <1>4
    <3>2. pages[j] # p
      BY <1>4, <1>5, <3>1 DEF IInv, PoolRight, Once
    <3>3. next_free[pages[j]] = Null
      <4>1. CASE j < cur
        BY <1>3, <3>1, <4>1 DEF IInv, PoolRight
      <4>2. CASE ~(j < cur)
        <5>1. j \notin Open /\ j \in cur .. Len(pages)
          BY <1>1, <1>3, <1>4, <3>1, <4>2
        <5> QED
          BY <5>1 DEF Open
      <4> QED
        BY <4>1, <4>2
    <3> QED
      BY <1>3, <2>1, <3>2, <3>3
  <2>4. \A q \in Pages \ Elements(pages) : used_count'[q] = 0
    BY <1>5, <2>1 DEF IInv, PoolRight, TypeOK
  <2> QED
    BY <1>2, <1>14, <2>2, <2>3, <2>4 DEF IInv, PoolRight, Once, Elements
<1> QED
  BY <1>13, <1>15, <1>16 DEF IInv

(* The chain that InitDiskCmdPage makes of page p's commands. *)
Fresh(p) == [i \in 1 .. PageSlots |-> <<p, i>>]

LEMMA ChainedRight ==
  ASSUME NEW p \in Pages, NEW links \in [Cmds -> Cmds \cup {Null}]
  PROVE  /\ Chained(p, links) \in [Cmds -> Cmds \cup {Null}]
         /\ \A c \in Cmds \ Slots(p) : Chained(p, links)[c] = links[c]
         /\ Chain(Chained(p, links), <<p, 1>>, PageSlots, Fresh(p))
         /\ Fresh(p) \in Lists(PageSlots, Slots(p)) /\ Elements(Fresh(p)) = Slots(p)
<1>1. PageSlots \in Nat /\ PageSlots > 0
  BY DiskAssumption
<1>2. PICK L : L = Chained(p, links)
  OBVIOUS
<1>3. PICK s : s = Fresh(p)
  OBVIOUS
<1>4. \A i \in 1 .. PageSlots : s[i] = <<p, i>> /\ s[i] \in Slots(p)
  BY <1>3 DEF Fresh, Slots, Cmds
<1>5. s \in [1 .. PageSlots -> Slots(p)]
  BY <1>3, <1>4 DEF Fresh
<1>6. \A i \in 1 .. PageSlots : L[<<p, i>>] = IF i < PageSlots THEN <<p, i + 1>> ELSE Null
  BY <1>2 DEF Chained, Cmds
<1>7. \A c \in Cmds \ Slots(p) : L[c] = links[c]
  BY <1>2 DEF Chained, Slots
<1>8. L \in [Cmds -> Cmds \cup {Null}]
  <2>1. \A c \in Slots(p) : \E i \in 1 .. PageSlots : c = <<p, i>>
    BY DEF Slots, Cmds
  <2>2. \A i \in 1 .. PageSlots : i < PageSlots => <<p, i + 1>> \in Cmds
    BY <1>1 DEF Cmds
  <2>3. \A c \in Slots(p) : L[c] \in Cmds \cup {Null}
    BY <1>6, <2>1, <2>2
  <2>4. L = [c \in Cmds |-> L[c]]
    BY <1>2 DEF Chained
  <2>5. \A c \in Cmds : L[c] \in Cmds \cup {Null}
    BY <1>7, <2>3
  <2> QED
    BY <2>4, <2>5
<1>9. Chain(L, <<p, 1>>, PageSlots, s)
  <2>1. s[1] = <<p, 1>> /\ PageSlots # 0
    BY <1>1, <1>4
  <2>2. ASSUME NEW i \in 1 .. PageSlots
        PROVE  L[s[i]] = IF i < PageSlots THEN s[i + 1] ELSE Null
    <3>1. s[i] = <<p, i>> /\ (i < PageSlots => s[i + 1] = <<p, i + 1>>)
      BY <1>1, <1>4
    <3> QED
      BY <1>6, <3>1
  <2>3. \A i, j \in 1 .. PageSlots : s[i] = s[j] => i = j
    BY <1>4
  <2> QED
    BY <2>1, <2>2, <2>3 DEF Chain
<1>10. Elements(s) = Slots(p)
  <2>1. \A x : x \in Elements(s) <=> \E i \in 1 .. PageSlots : x = s[i]
    <3>1. Len(s) = PageSlots
      BY <1>1, <1>5, AsList
    <3> QED
      BY <3>1 DEF Elements
  <2>2. \A c \in Slots(p) : \E i \in 1 .. PageSlots : c = <<p, i>>
    BY DEF Slots, Cmds
  <2> QED
    BY <1>4, <2>1, <2>2
<1> QED
  BY <1>2, <1>3, <1>5, <1>7, <1>8, <1>9, <1>10 DEF Lists

LEMMA AllocNewPageKeeps ==
  ASSUME IInv, NEW t \in Threads, NEW b \in Blocks, AllocNewPage(t, b)
  PROVE  IInv'
<1>1. PICK p \in Pages : /\ p \notin Elements(pages) /\ pages' = Append(pages, p)
                         /\ TakeCmd(t, p, <<p, 1>>, Chained(p, next), b)
  BY DEF AllocNewPage, Elements
<1>2. /\ Thread(t, "idle", "test") /\ Open = {} /\ cur' = Len(pages) + 1
      /\ UNCHANGED <<queue, transfer, sectors, ide_cmd, pending, failed, driver>>
  BY DEF AllocNewPage
<1>3. /\ next \in [Cmds -> Cmds \cup {Null}] /\ next_free \in [Pages -> Cmds \cup {Null}]
      /\ used_count \in [Pages -> 0 .. PageSlots] /\ mine \in [Threads -> Cmds \cup {Null}]
      /\ cur \in Nat /\ Len(pages) \in Nat /\ cur > 0
  BY PoolTypes DEF IInv
<1>4. PICK c \in Cmds : c = <<p, 1>> /\ c \in Slots(p) /\ c[1] = p
  <2>1. 1 \in 1 .. PageSlots
    BY DiskAssumption
  <2>2. <<p, 1>> \in Cmds
    BY <2>1 DEF Cmds
  <2>3. <<p, 1>>[1] = p
    OBVIOUS
  <2>4. <<p, 1>> \in Slots(p)
    BY <2>2, <2>3 DEF Slots
  <2> QED
    BY <2>2, <2>3, <2>4
<1>5. PICK L : L = Chained(p, next)
  OBVIOUS
<1>6. PICK s : s = Fresh(p)
  OBVIOUS
<1>7. PICK k \in Nat : k = PageSlots
  BY DiskAssumption
<1>8. /\ L \in [Cmds -> Cmds \cup {Null}] /\ \A d \in Cmds \ Slots(p) : L[d] = next[d]
      /\ Chain(L, c, k, s) /\ s \in Lists(k, Slots(p)) /\ Elements(s) = Slots(p)
  BY <1>3, <1>4, <1>5, <1>6, <1>7, ChainedRight
<1>9. TakeCmd(t, p, c, L, b)
  BY <1>1, <1>4, <1>5
<1>10. \A d \in Held : d \in Cmds \ Slots(p)
  BY <1>1, <1>3 DEF IInv, ThreadsRight, ThreadRight, Held, Slots
<1>11. c \notin Held /\ Elements(s) = Slots(p) \ Held
  BY <1>4, <1>8, <1>10
<1>12. k = PageSlots - used_count[p] /\ k <= PageSlots
  BY <1>1, <1>7 DEF IInv, PoolRight
<1>13. /\ pages \in Seq(Pages) /\ pages' \in Seq(Pages) /\ Len(pages') = Len(pages) + 1
       /\ pages'[Len(pages) + 1] = p /\ \A i \in 1 .. Len(pages) : pages'[i] = pages[i]
  BY <1>1 DEF IInv, TypeOK
<1>14. Elements(pages)' = Elements(pages) \cup {p}
  <2>1. Elements(pages)' = Elements(pages')
    BY DEF Elements
  <2> QED
    BY <1>1, <1>13, <2>1, Appended
<1>15. /\ Alone' /\ ThreadsRight' /\ QueueRight' /\ DriverRight'
       /\ Held' = Held \cup {c}
       /\ next' \in [Cmds -> Cmds \cup {Null}] /\ next_free' \in [Pages -> Cmds \cup {Null}]
       /\ blocks' \in [Cmds -> Nat] /\ copied' \in [Cmds -> Nat]
       /\ condition' \in [Cmds -> BOOLEAN] /\ mine' \in [Threads -> Cmds \cup {Null}]
       /\ pc' = [pc EXCEPT ![t] = "test"]
  <2>1. \A d \in Held : L[d] = next[d]
    BY <1>8, <1>10
  <2>2. Elements(pages) \subseteq Elements(pages)' /\ p \in Elements(pages)'
    BY <1>14
  <2>3. /\ Thread(t, "idle", "test")
        /\ UNCHANGED <<queue, transfer, sectors, ide_cmd, pending, failed, driver>>
    BY <1>2
  <2>4. L \in [Cmds -> Cmds \cup {Null}] /\ c \notin Held
    BY <1>8, <1>11
  <2> QED
    BY <1>4, <1>9, <2>1, <2>2, <2>3, <2>4, TakeKeeps
<1>16. PageRight(p)' /\ used_count' \in [Pages -> 0 .. PageSlots]
  BY <1>8, <1>9, <1>11, <1>12, <1>15, TakePage
<1>17. TypeOK'
  <2>1. cur' \in 1 .. Len(pages')
    BY <1>2, <1>3, <1>13
  <2> QED
    BY <1>2, <1>13, <1>15, <1>16, <2>1 DEF IInv, TypeOK, queue, driver
<1>18. PoolRight'
  <2>1. /\ next' = [L EXCEPT ![c] = Null] /\ next_free' = [next_free EXCEPT ![p] = L[c]]
        /\ used_count' = [used_count EXCEPT ![p] = used_count[p] + 1]
    BY <1>9 DEF TakeCmd
  <2>2. ASSUME NEW q \in Elements(pages) PROVE PageRight(q)'
    <3>1. q # p /\ Slots(q) \cap Slots(p) = {}
      BY <1>1 DEF Slots
    <3>2. \A d \in Slots(q) : next'[d] = next[d]
      BY <1>4, <1>8, <2>1, <3>1 DEF Slots
    <3>3. next_free'[q] = next_free[q] /\ used_count'[q] = used_count[q]
      <4>1. q \in Pages
        BY <1>13, ElementOfSeq DEF Elements
      <4> QED
        BY <1>3, <2>1, <3>1, <4>1
    <3>4. Slots(q) \ Held' = Slots(q) \ Held
      BY <1>4, <1>15, <3>1
    <3> QED
      BY <3>2, <3>3, <3>4, PageKept
  <2>3. ASSUME NEW j \in 1 .. cur' - 1 PROVE next_free'[pages'[j]] = Null
    <3>1. j \in 1 .. Len(pages) /\ pages'[j] = pages[j] /\ pages[j] # p
      BY <1>1, <1>2, <1>3, <1>13 DEF Elements
    <3>2. next_free[pages[j]] = Null
      <4>1. CASE j < cur
        BY <1>3, <3>1, <4>1 DEF IInv, PoolRight
      <4>2. CASE ~(j < cur)
        <5>1. j \notin Open /\ j \in cur .. Len(pages)
          BY <1>2, <1>3, <3>1, <4>2
        <5> QED
          BY <5>1 DEF Open
      <4> QED
        BY <4>1, <4>2
    <3> QED
      BY <1>3, <2>1, <3>1, <3>2
  <2>4. \A q \in Pages \ Elements(pages)' : used_count'[q] = 0
    BY <1>3, <1>14, <2>1 DEF IInv, PoolRight
  <2>5. Once(pages)'
    <3>1. \A i, j \in 1 .. Len(pages) : pages[i] = pages[j] => i = j
      BY DEF IInv, PoolRight, Once
    <3>2. \A i \in 1 .. Len(pages) : pages[i] # p
      BY <1>1 DEF Elements
    <3>3. \A i \in 1 .. Len(pages') : i \in 1 .. Len(pages) \/ i = Len(pages) + 1
      BY <1>3, <1>13
    <3> QED
      BY <1>3, <1>13, <3>1, <3>2, <3>3 DEF Once
  <2>6. \A q \in Elements(pages)' : PageRight(q)'
    BY <1>14, <1>16, <2>2
  <2> QED
    BY <2>3, <2>4, <2>5, <2>6 DEF PoolRight
<1> QED
  BY <1>15, <1>17, <1>18 DEF IInv

-----------------------------------------------------------------------------
(* The invariant holds.                                                    *)

LEMMA Begin == Init => IInv
<1> SUFFICES ASSUME Init PROVE IInv
  OBVIOUS
<1>1. /\ pages = <<FirstPage>> /\ Len(pages) = 1 /\ pages[1] = FirstPage /\ cur = 1
      /\ FirstPage \in Pages /\ PageSlots \in Nat /\ PageSlots > 0
  BY DiskAssumption DEF Init
<1>2. PICK links : links = [c \in Cmds |-> Null]
  OBVIOUS
<1>3. links \in [Cmds -> Cmds \cup {Null}] /\ next = Chained(FirstPage, links)
  BY <1>2 DEF Init
<1>4. PICK s : s = Fresh(FirstPage)
  OBVIOUS
<1>5. PICK k \in Nat : k = PageSlots
  BY <1>1
<1>6. /\ next \in [Cmds -> Cmds \cup {Null}] /\ Chain(next, <<FirstPage, 1>>, k, s)
      /\ s \in [1 .. k -> Slots(FirstPage)] /\ Elements(s) = Slots(FirstPage)
  BY <1>1, <1>3, <1>4, <1>5, ChainedRight DEF Lists
<1>7. <<FirstPage, 1>> \in Cmds
  <2>1. 1 \in 1 .. PageSlots
    BY <1>1
  <2> QED
    BY <1>1, <2>1 DEF Cmds
<1>8. TypeOK
  <2>1. pages \in Seq(Pages) /\ cur \in 1 .. Len(pages)
    BY <1>1
  <2>2. next_free \in [Pages -> Cmds \cup {Null}]
    BY <1>7 DEF Init
  <2>3. used_count \in [Pages -> 0 .. PageSlots]
    BY <1>1 DEF Init
  <2>4. {cmds, last_cmd, ide_cmd, dcmd, dnext} \subseteq Cmds \cup {Null}
    BY DEF Init
  <2>5. order \in Seq(Cmds)
    BY DEF Init
  <2>6. {blocks, copied, sectors} \subseteq [Cmds -> Nat]
    BY DEF Init
  <2>7. {condition, transfer} \subseteq [Cmds -> BOOLEAN]
    BY DEF Init
  <2>8. pending \in 0 .. MaxSectors /\ failed \in BOOLEAN /\ block_count \in Nat
    <3>1. pending = 0 /\ failed = FALSE /\ block_count = 0
      BY DEF Init
    <3>2. 0 \in 0 .. MaxSectors
      BY DiskAssumption
    <3> QED
      BY <3>1, <3>2
  <2>9. /\ pc \in [Threads -> {"idle", "test", "first", "append", "last", "wait", "free"}]
        /\ mine \in [Threads -> Cmds \cup {Null}] /\ readers \subseteq Threads
        /\ dpc \in {"idle", "next", "store", "tail", "clear", "read", "issue", "transfer"}
    BY DEF Init
  <2> QED
    BY <1>6, <2>1, <2>2, <2>3, <2>4, <2>5, <2>6, <2>7, <2>8, <2>9 DEF TypeOK
<1>9. \A t \in Threads : pc[t] = "idle" /\ mine[t] = Null
  BY DEF Init
<1>10. Alone
  BY <1>9 DEF Alone, Inside
<1>11. ThreadsRight
  BY <1>9 DEF ThreadsRight, Apart, ThreadRight
<1>12. order = <<>> /\ Len(order) = 0 /\ cmds = Null
  BY DEF Init
<1>13. QueueRight
  BY <1>12 DEF QueueRight, Links, Once, Elements
<1>14. DriverRight
  BY DEF Init, DriverRight
<1>15. Held = {} /\ Elements(pages) = {FirstPage}
  BY <1>1, <1>9 DEF Held, Elements
<1>16. PageRight(FirstPage)
  <2>1. next_free[FirstPage] = <<FirstPage, 1>> /\ used_count[FirstPage] = 0
    BY <1>1 DEF Init
  <2>2. k = PageSlots - used_count[FirstPage] /\ k \in 0 .. PageSlots
    BY <1>1, <1>5, <2>1
  <2>3. FreeList(FirstPage, k, s)
    BY <1>6, <1>15, <2>1, <2>2, FreeChain
  <2> QED
    BY <1>6, <2>2, <2>3 DEF PageRight
<1>17. PoolRight
  <2>1. Once(pages)
    BY <1>1 DEF Once
  <2>2. \A i \in 1 .. cur - 1 : next_free[pages[i]] = Null
    BY <1>1
  <2>3. \A p \in Pages : used_count[p] = 0
    BY DEF Init
  <2> QED
    BY <1>15, <1>16, <2>1, <2>2, <2>3 DEF PoolRight
<1> QED
  BY <1>8, <1>10, <1>11, <1>13, <1>14, <1>17 DEF IInv

LEMMA IdleKeeps ==
  ASSUME IInv, UNCHANGED vars
  PROVE  IInv'
<1>1. UNCHANGED <<pages, cur, next_free, used_count, next, cmds, last_cmd, order, blocks,
                  copied, condition, transfer, sectors, ide_cmd, pending, failed,
                  pc, mine, dpc, dcmd, dnext, block_count, readers>>
  BY DEF vars, pool, queue, xfer, thread, driver
<1>2. TypeOK'
  BY <1>1 DEF IInv, TypeOK
<1>3. Alone'
  BY <1>1 DEF IInv, Alone, Inside, DriverInside
<1>4. \A c : Waited(c)' <=> Waited(c)
  BY <1>1 DEF Waited
<1>5. ThreadsRight'
  BY <1>1 DEF IInv, ThreadsRight, Apart, ThreadRight, Elements, LastOf
<1>6. QueueRight'
  <2>1. StillWaited(Elements(order))
    BY <1>1, <1>4 DEF StillWaited, IInv, QueueRight
  <2> QED
    BY <1>1, <2>1, QueueKept DEF queue
<1>7. DriverRight'
  <2>1. Elements(order)' = Elements(order)
    BY <1>1 DEF Elements
  <2>2. Waited(dcmd)' <=> Waited(dcmd)
    BY <1>1, <1>4 DEF Waited
  <2>3. Portion' = Portion
    BY <1>1 DEF Portion
  <2>4. /\ Serving' <=> Serving
        /\ Delivered' <=> Delivered
        /\ GivenUp' <=> GivenUp
    BY <1>1, <2>1, <2>2, <2>3 DEF Serving, Delivered, GivenUp
  <2> QED
    BY <1>1, <2>1, <2>2, <2>4 DEF IInv, DriverRight
<1>8. PoolRight'
  BY <1>1, PoolKept DEF pool
<1> QED
  BY <1>2, <1>3, <1>5, <1>6, <1>7, <1>8 DEF IInv

LEMMA Step == IInv /\ [Next]_vars => IInv'
<1> SUFFICES ASSUME IInv, [Next]_vars PROVE IInv'
  OBVIOUS
<1>1. ASSUME NEW t \in Threads, NEW n \in Blocks, AllocFromPage(t, n) PROVE IInv'
  BY <1>1, AllocFromPageKeeps
<1>2. ASSUME NEW t \in Threads, NEW n \in Blocks, AllocNewPage(t, n) PROVE IInv'
  BY <1>2, AllocNewPageKeeps
<1>3. ASSUME NEW t \in Threads, ThreadStep(t) PROVE IInv'
  BY <1>3, EnqueueTestKeeps, EnqueueFirstKeeps, EnqueueAppendKeeps, EnqueueLastKeeps,
     WaitCmdKeeps, FreeDiskCmdKeeps DEF ThreadStep
<1>4. CASE DriverStep
  BY <1>4, TakeHeadKeeps, LoadNextKeeps, StoreNextKeeps, TestTailKeeps, ClearTailKeeps,
     ReadNothingKeeps, ReadStartKeeps, ReadIssueKeeps, ReadTurnKeeps DEF DriverStep
<1>5. CASE SectorRead
  BY <1>5, SectorReadKeeps
<1>6. CASE SectorError
  BY <1>6, SectorErrorKeeps
<1>7. CASE UNCHANGED vars
  BY <1>7, IdleKeeps
<1> QED
  BY <1>1, <1>2, <1>3, <1>4, <1>5, <1>6, <1>7 DEF Next

LEMMA Invariance == Spec => []IInv
BY Begin, Step, PTL DEF Spec

(* Every variable of the reader, of the driver thread and of the interrupt *)
(* handler (dsk.c, ide.c) keeps its type; the controller never owes more   *)
(* sectors than one command of it may ask for.                             *)
THEOREM DiskTypes == Spec => []TypeOK
<1>1. IInv => TypeOK
  BY DEF IInv
<1> QED
  BY <1>1, Invariance, PTL

(* EnqueueDiskCmd and the driver's removal lose no command, reorder none   *)
(* and never use the last_cmd of a queue that was emptied: for one reader  *)
(* that is preempted anywhere, and for many that share nothing.            *)
THEOREM QueueStaysInOrder == Spec => []QueueInOrder
<1>1. ASSUME IInv PROVE QueueInOrder
  <2>1. Links(cmds, order)
    BY <1>1 DEF IInv, QueueRight
  <2>2. ASSUME NEW t \in Threads, pc[t] = "append"
        PROVE  cmds # Null /\ last_cmd = order[Len(order)]
    <3>1. order # <<>> /\ last_cmd = LastOf(order) /\ order \in Seq(Cmds)
      BY <1>1, <2>2 DEF IInv, ThreadsRight, ThreadRight, TypeOK
    <3>2. order[1] \in Cmds
      BY <3>1
    <3>3. cmds = order[1]
      BY <2>1, <3>1 DEF Links
    <3> QED
      BY <3>1, <3>2, <3>3, NullRight DEF LastOf
  <2> QED
    BY <2>1, <2>2 DEF QueueInOrder
<1> QED
  BY <1>1, Invariance, PTL

(* When k_dev_DiskRead gets past WaitCondition, and the controller has     *)
(* reported no error, all the sectors are in the buffer, whatever portions *)
(* IDEReadBlocks made of them and whoever had the command before.          *)
THEOREM ReadsComplete == Spec => []ReadReturnsAll
<1>1. IInv => ReadReturnsAll
  BY DEF IInv, ThreadsRight, ThreadRight, ReadReturnsAll
<1> QED
  BY <1>1, Invariance, PTL

(* The interrupt handler copies only into the buffer of a thread that      *)
(* still waits: FreeDiskCmd never gives back the command it works on.      *)
THEOREM BuffersLent == Spec => []BufferStillLent
<1>1. ASSUME IInv PROVE BufferStillLent
  <2>1. ASSUME pending > 0 PROVE ide_cmd = dcmd /\ Waited(dcmd)
    <3>1. dpc = "transfer"
      BY <1>1, <2>1 DEF IInv, DriverRight
    <3>2. ide_cmd = dcmd /\ (Serving \/ Delivered \/ GivenUp)
      BY <1>1, <3>1 DEF IInv, DriverRight
    <3> QED
      BY <2>1, <3>2 DEF Serving, Delivered, GivenUp
  <2> QED
    BY <2>1 DEF BufferStillLent, Waited
<1> QED
  BY <1>1, Invariance, PTL

(* Only AllocNewPage makes the pool longer, and it finds no free command.  *)
LEMMA PageNeeded ==
  ASSUME IInv, [Next]_vars, Len(pages') > Len(pages), NEW p \in Elements(pages)
  PROVE  used_count[p] = PageSlots
<1>1. Len(pages) \in Nat /\ cur > 0 /\ cur \in Nat
  BY PoolTypes DEF IInv
<1>2. pages' # pages
  BY <1>1
<1>3. PICK t \in Threads, n \in Blocks : AllocNewPage(t, n)
  <2>1. ASSUME NEW t \in Threads, ThreadStep(t) PROVE FALSE
    BY <1>2, <2>1 DEF ThreadStep, EnqueueTest, EnqueueFirst, EnqueueAppend, EnqueueLast,
       WaitCmd, FreeDiskCmd, pool
  <2>2. ~DriverStep
    BY <1>2 DEF DriverStep, TakeHead, LoadNext, StoreNext, TestTail, ClearTail,
       ReadNothing, ReadStart, ReadIssue, ReadTurn, pool
  <2>3. ~SectorRead /\ ~SectorError
    BY <1>2 DEF SectorRead, SectorError, pool
  <2>4. ASSUME NEW t \in Threads, NEW n \in Blocks, AllocFromPage(t, n) PROVE FALSE
    BY <1>2, <2>4 DEF AllocFromPage
  <2>5. ~UNCHANGED vars
    BY <1>2 DEF vars, pool
  <2> QED
    BY <2>1, <2>2, <2>3, <2>4, <2>5 DEF Next
<1>4. next_free[p] = Null
  <2>1. PICK i \in 1 .. Len(pages) : pages[i] = p
    BY DEF Elements
  <2>2. CASE i < cur
    BY <1>1, <2>1, <2>2 DEF IInv, PoolRight
  <2>3. CASE ~(i < cur)
    <3>1. i \in cur .. Len(pages) /\ Open = {}
      BY <1>1, <1>3, <2>1, <2>3 DEF AllocNewPage
    <3> QED
      BY <2>1, <3>1 DEF Open
  <2> QED
    BY <2>2, <2>3
<1>5. PICK k \in 0 .. PageSlots :
        \E s \in [1 .. k -> Slots(p)] :
          /\ Chain(next, next_free[p], k, s)
          /\ Elements(s) = Slots(p) \ Held /\ k = PageSlots - used_count[p]
  BY PageList
<1>6. PICK s \in [1 .. k -> Slots(p)] :
        Chain(next, next_free[p], k, s) /\ k = PageSlots - used_count[p]
  BY <1>5
<1>7. PageSlots \in Nat /\ k \in Nat
  BY DiskAssumption
<1>8. k = 0
  <2>1. ASSUME k # 0 PROVE FALSE
    <3>1. s[1] \in Cmds
      BY <1>7, <2>1 DEF Slots
    <3>2. next_free[p] = s[1]
      BY <1>6, <2>1 DEF Chain
    <3> QED
      BY <1>4, <3>1, <3>2, NullRight
  <2> QED
    BY <2>1
<1>9. used_count[p] \in Nat
  <2>1. p \in Pages
    BY ElementOfSeq DEF Elements, IInv, TypeOK
  <2> QED
    BY <1>7, <2>1, PoolTypes DEF IInv
<1> QED
  BY <1>6, <1>7, <1>8, <1>9

(* AllocDiskCmd and FreeDiskCmd lose no command and lend none twice: every *)
(* one is in the free list of its page or with one thread, used_count is   *)
(* right, and a page is added only when all the others are used up.        *)
THEOREM CmdsAreReused == Spec => CmdsReused
<1>1. IInv => CmdsAccounted
  BY DEF IInv, ThreadsRight, Apart, PoolRight, PageRight, CmdsAccounted
<1>2. IInv /\ [Next]_vars =>
        [Len(pages') > Len(pages) =>
           \A p \in Elements(pages) : used_count[p] = PageSlots]_vars
  BY PageNeeded
<1> QED
  BY <1>1, <1>2, Invariance, PTL DEF Spec, CmdsReused, NoIdlePage

=============================================================================
