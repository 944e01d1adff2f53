------------------------------ MODULE PupCache ------------------------------
(***************************************************************************)
(* The block cache of the PUP file system, src/kernel/fs/pup.c, read by    *)
(* several threads at once.  An entry holds BlocksPerEntry blocks.  A      *)
(* thread that looks for a block counts itself among the readers of the    *)
(* set, walks the set's list and counts itself out; a thread that finds    *)
(* nothing tries to lock the set, appends an entry marked PENDING, and     *)
(* reads the disk.  Everything between two accesses to what threads share  *)
(* is one step.                                                            *)
(***************************************************************************)
EXTENDS Integers, Sequences, FiniteSets, SequencesExt

CONSTANTS Threads,
          Blocks,          \* blocks of the volume: 0 .. Blocks - 1
          BlocksPerEntry,  \* K_FS_PUP_BLOCKS_PER_ENTRY
          MaxCount,        \* bound: blocks of one PupRead
          MaxReads         \* bound: calls of PupRead, by all threads

NoEntry == 0
Nobody == "nobody"

(* An entry has blocks; what marks the free lock is no thread. *)
CacheAssumption ==
  /\ IsFiniteSet(Threads) /\ Nobody \notin Threads
  /\ BlocksPerEntry \in Nat \ {0} /\ {Blocks, MaxCount, MaxReads} \subseteq Nat

VARIABLES
  lock,        \* holder of the set's lock
  read_count,  \* threads walking the set's list
  set,         \* the list of entries
  entries,     \* all entries: first_block, pending, condition, ref_count, loaded; and
               \* was_set: the condition that the entry's memory began with
  pc,          \* where each thread is
  read,        \* its PupRead: first_block, block_count left, got; as called: from, asked
  found,       \* its entry
  reads        \* calls of PupRead so far

cacheVars == <<lock, read_count, set, entries, pc, read, found, reads>>

NoRead == [first_block |-> 0, block_count |-> 0, from |-> 0, asked |-> 0, got |-> <<>>]

CacheInit ==
  /\ lock = Nobody /\ read_count = 0 /\ set = <<>> /\ entries = <<>>
  /\ pc = [t \in Threads |-> "idle"]
  /\ read = [t \in Threads |-> NoRead]
  /\ found = [t \in Threads |-> NoEntry]
  /\ reads = 0

Goto(t, label) == pc' = [pc EXCEPT ![t] = label]

-----------------------------------------------------------------------------
PupRead(t, first, count) ==
  /\ pc[t] = "idle" /\ reads < MaxReads /\ first + count <= Blocks
  /\ read' = [read EXCEPT ![t] = [first_block |-> first, block_count |-> count,
                                  from |-> first, asked |-> count, got |-> <<>>]]
  /\ reads' = reads + 1
  /\ Goto(t, "find")
  /\ UNCHANGED <<lock, read_count, set, entries, found>>

\* FindCacheEntry: the lock is held just to be counted.  The critical variant does
\* not keep interrupts off, so others run while it is held.
FindLock(t) ==
  /\ pc[t] \in {"find", "find_again"} /\ lock = Nobody
  /\ lock' = t
  /\ Goto(t, IF pc[t] = "find" THEN "count_in" ELSE "count_in_again")
  /\ UNCHANGED <<read_count, set, entries, read, found, reads>>

CountIn(t) ==
  /\ pc[t] \in {"count_in", "count_in_again"}
  /\ read_count' = read_count + 1
  /\ lock' = Nobody
  /\ Goto(t, IF pc[t] = "count_in" THEN "walk" ELSE "walk_again")
  /\ UNCHANGED <<set, entries, read, found, reads>>

Holds(e, block) ==
  entries[e].first_block <= block /\ block <= entries[e].first_block + BlocksPerEntry - 1
Matching(block) == {i \in DOMAIN set : Holds(set[i], block)}
Acquire(e) == [entries EXCEPT ![e].ref_count = @ + 1]

Walk(t) ==
  /\ pc[t] \in {"walk", "walk_again"}
  /\ LET match == Matching(read[t].first_block)
     IN \/ /\ match = {}
           /\ found' = [found EXCEPT ![t] = NoEntry]
           /\ UNCHANGED entries
        \/ \E i \in match :
             /\ \A j \in match : i <= j
             /\ found' = [found EXCEPT ![t] = set[i]]
             /\ entries' = Acquire(set[i])
  /\ Goto(t, IF pc[t] = "walk" THEN "count_out" ELSE "count_out_again")
  /\ UNCHANGED <<lock, read_count, set, read, reads>>

\* A thread that came for a second look goes on with whatever it found.
\* Dec32Wrap is one locked instruction.
CountedOut_Inc == read_count + 1
CountedOut == read_count - 1
CountOut(t) ==
  /\ pc[t] \in {"count_out", "count_out_again"}
  /\ read_count' = CountedOut
  /\ Goto(t, IF found[t] # NoEntry THEN "test"
             ELSE IF pc[t] = "count_out" THEN "miss" ELSE "fault")
  /\ UNCHANGED <<lock, set, entries, read, found, reads>>

\* TrySpinLock; the new entry comes from PupAllocCacheEntry.  Its condition is the one
\* field that nobody sets: it is as the entry's last use, or what was in the page's
\* memory before, left it.
EntryStart(block) == (block \div BlocksPerEntry) * BlocksPerEntry
NewEntry(block, was_set) ==
  [first_block |-> EntryStart(block), pending |-> TRUE, condition |-> was_set,
   was_set |-> was_set, ref_count |-> 0, loaded |-> FALSE]
Miss(t) ==
  /\ pc[t] = "miss"
  /\ IF lock = Nobody
       THEN /\ lock' = t
            /\ \E was_set \in BOOLEAN :
                 entries' = Append(entries, NewEntry(read[t].first_block, was_set))
            /\ found' = [found EXCEPT ![t] = Len(entries) + 1]
            /\ Goto(t, "stash")
       ELSE /\ Goto(t, "spin")
            /\ UNCHANGED <<lock, entries, found>>
  /\ UNCHANGED <<read_count, set, read, reads>>

SpinWait(t) ==
  /\ pc[t] = "spin" /\ lock = Nobody
  /\ Goto(t, "find_again")
  /\ UNCHANGED <<lock, read_count, set, entries, read, found, reads>>

NoReaders_Ignored == TRUE
NoReaders == read_count = 0

StashCacheEntry(t) ==
  /\ pc[t] = "stash" /\ NoReaders
  /\ set' = Append(set, found[t])
  /\ lock' = Nobody
  /\ Goto(t, "load")
  /\ UNCHANGED <<read_count, entries, read, found, reads>>

ReadVolumeBlocks(t) ==
  /\ pc[t] = "load"
  /\ entries' = [entries EXCEPT ![found[t]].loaded = TRUE]
  /\ Goto(t, "clear")
  /\ UNCHANGED <<lock, read_count, set, read, found, reads>>

ClearPending(t) ==
  /\ pc[t] = "clear"
  /\ entries' = [entries EXCEPT ![found[t]].pending = FALSE]
  /\ Goto(t, "signal")
  /\ UNCHANGED <<lock, read_count, set, read, found, reads>>

Signal_None(e) == entries
Signal(e) == [entries EXCEPT ![e].condition = TRUE]
SignalCondition(t) ==
  /\ pc[t] = "signal"
  /\ entries' = Signal(found[t])
  /\ Goto(t, "test")
  /\ UNCHANGED <<lock, read_count, set, read, found, reads>>

\* The test of PENDING, and WaitCondition, which passes once the entry's condition
\* was signalled.
MayCopy(e) == ~e.pending
TestPending(t) ==
  /\ pc[t] = "test"
  /\ Goto(t, IF MayCopy(entries[found[t]]) THEN "copy" ELSE "wait")
  /\ UNCHANGED <<lock, read_count, set, entries, read, found, reads>>
WaitCondition(t) ==
  /\ pc[t] = "wait" /\ entries[found[t]].condition
  /\ Goto(t, "copy")
  /\ UNCHANGED <<lock, read_count, set, entries, read, found, reads>>

\* The part of the request that lies in the entry is copied.
CopySize_Whole(r, e) == IF BlocksPerEntry > r.block_count THEN r.block_count ELSE BlocksPerEntry
CopySize(r, e) ==
  LET size == BlocksPerEntry - (r.first_block - e.first_block)
  IN IF size > r.block_count THEN r.block_count ELSE size
Copy(t) ==
  /\ pc[t] = "copy"
  /\ LET r == read[t]
         e == entries[found[t]]
         size == CopySize(r, e)
         offset == r.first_block - e.first_block
         copied == [i \in 1 .. size |->
           IF e.loaded /\ offset + i <= BlocksPerEntry THEN e.first_block + offset + i - 1 ELSE -1]
     IN read' = [read EXCEPT ![t].first_block = r.first_block + size,
                             ![t].block_count = r.block_count - size,
                             ![t].got = r.got \o copied]
  /\ Goto(t, "release")
  /\ UNCHANGED <<lock, read_count, set, entries, found, reads>>

\* Whoever loads an entry does not acquire it: its release drops the reference of
\* another reader if there is one.
ReleaseEntry(t) ==
  /\ pc[t] = "release"
  /\ entries' = [entries EXCEPT ![found[t]].ref_count = IF @ = 0 THEN 0 ELSE @ - 1]
  /\ found' = [found EXCEPT ![t] = NoEntry]
  /\ Goto(t, IF read[t].block_count = 0 THEN "done" ELSE "find")
  /\ UNCHANGED <<lock, read_count, set, read, reads>>

Return(t) ==
  /\ pc[t] = "done"
  /\ read' = [read EXCEPT ![t] = NoRead]
  /\ Goto(t, "idle")
  /\ UNCHANGED <<lock, read_count, set, entries, found, reads>>

Step(t) ==
  \/ FindLock(t) \/ CountIn(t) \/ Walk(t) \/ CountOut(t) \/ Miss(t) \/ SpinWait(t)
  \/ StashCacheEntry(t) \/ ReadVolumeBlocks(t) \/ ClearPending(t) \/ SignalCondition(t)
  \/ TestPending(t) \/ WaitCondition(t) \/ Copy(t) \/ ReleaseEntry(t) \/ Return(t)

CacheNext == \E t \in Threads :
  \/ Step(t)
  \/ \E first \in 0 .. Blocks - 1, count \in 1 .. MaxCount : PupRead(t, first, count)

\* The scheduler runs every ready thread again and again.
Fairness == \A t \in Threads : WF_cacheVars(Step(t))

CacheSpec == CacheInit /\ [][CacheNext]_cacheVars /\ Fairness

-----------------------------------------------------------------------------
CacheTypeOK ==
  /\ lock \in Threads \cup {Nobody} /\ read_count \in 0 .. Cardinality(Threads)
  /\ ToSet(set) \subseteq DOMAIN entries
  /\ \A t \in Threads : found[t] \in DOMAIN entries \cup {NoEntry}

\* A read that returns has the blocks that were asked for, in order, though they
\* lie in several entries and other threads were loading them (PENDING and the
\* entry's condition, pup.c:476), if none of these entries began with its condition
\* set: pup.c:239-243 never clears it, and past a set one a reader does not wait.
BeganClear(t) ==
  \A e \in DOMAIN entries, b \in read[t].from .. read[t].from + read[t].asked - 1 :
    Holds(e, b) => ~entries[e].was_set
BlocksRead(t) == [i \in 1 .. read[t].asked |-> read[t].from + i - 1]
ReadsAreRight ==
  \A t \in Threads : pc[t] = "done" /\ BeganClear(t) => read[t].got = BlocksRead(t)

\* pup.c:407: threads read the list only while no thread writes it, and vice versa.
ListStableWhileRead ==
  [][set' # set => \A t \in Threads : pc[t] \notin {"walk", "walk_again"}]_cacheVars

\* Every call comes back, or has faulted on the second look that found nothing.
EveryReadEnds == \A t \in Threads : pc[t] # "idle" ~> pc[t] \in {"idle", "fault"}
=============================================================================
