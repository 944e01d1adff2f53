------------------------------ MODULE PupProofs ------------------------------
(***************************************************************************)
(* Proofs about PupCache, for any finite set of threads, any size of an    *)
(* entry, any volume and any number of reads; about PupVolume; and about   *)
(* CachePages, for any set of pages and any number of entries on a page.   *)
(***************************************************************************)
EXTENDS PupCache, PupVolume, CachePages, FiniteSetTheorems, SequenceTheorems,
        WellFoundedInduction, TLAPS

-----------------------------------------------------------------------------
Locking == {"count_in", "count_in_again", "stash"}
Walking == {"walk", "walk_again"}
CountingOut == {"count_out", "count_out_again"}
Using == {"stash", "load", "clear", "signal", "test", "wait", "copy"}
Labels == Locking \cup Walking \cup CountingOut \cup Using
            \cup {"idle", "find", "find_again", "miss", "spin", "release", "done", "fault"}

EntryRecords == [first_block : Nat, pending : BOOLEAN, condition : BOOLEAN,
          was_set : BOOLEAN, ref_count : Nat, loaded : BOOLEAN]
Read == [first_block : Nat, block_count : Nat, from : Nat, asked : Nat, got : Seq(Int)]

(* n blocks of the volume, from first on. *)
Run(first, n) == [i \in 1 .. n |-> first + i - 1]

(* The block lies in the entry e. *)
Covers(e, block) == e.first_block <= block /\ block <= e.first_block + BlocksPerEntry - 1

(* The threads that are counted among the readers of the list. *)
Counted == {t \in Threads : pc[t] \in Walking \cup CountingOut}

-----------------------------------------------------------------------------
(* The parts of the inductive invariant. *)
Types ==
  /\ lock \in Threads \cup {Nobody}
  /\ read_count \in Nat
  /\ entries \in Seq(EntryRecords)
  /\ set \in Seq(DOMAIN entries)
  /\ pc \in [Threads -> Labels]
  /\ read \in [Threads -> Read]
  /\ found \in [Threads -> DOMAIN entries \cup {NoEntry}]
  /\ reads \in Nat

(* The lock is held where the code says it is. *)
LockHeld == \A t \in Threads : lock = t <=> pc[t] \in Locking

(* read_count is the number of threads between counting in and out. *)
ReadersCounted == read_count = Cardinality(Counted)

(* A thread that has an entry has the one its next block lies in. *)
EntryCovers ==
  \A t \in Threads :
    /\ pc[t] \in Using \cup {"release"} => found[t] # NoEntry
    /\ pc[t] \in Using \cup CountingOut /\ found[t] # NoEntry =>
         Covers(entries[found[t]], read[t].first_block)

(* What says that an entry may be used is said of loaded entries only, but for a *)
(* condition that the entry began with.                                          *)
LoadedFirst ==
  /\ \A e \in DOMAIN entries :
       /\ ~entries[e].pending => entries[e].loaded
       /\ entries[e].condition => entries[e].loaded \/ entries[e].was_set
  /\ \A t \in Threads :
       /\ pc[t] \in {"clear", "signal"} => entries[found[t]].loaded
       /\ pc[t] = "copy" => entries[found[t]].loaded \/ entries[found[t]].was_set

(* What was copied is the part of the request before its first_block, if the *)
(* entries of the request began with their conditions clear.                 *)
CopiedSoFar ==
  \A t \in Threads :
    /\ read[t].from <= read[t].first_block
    /\ read[t].first_block + read[t].block_count = read[t].from + read[t].asked
    /\ BeganClear(t) => read[t].got = Run(read[t].from, read[t].first_block - read[t].from)
    /\ pc[t] = "done" => read[t].block_count = 0

IInv == Types /\ LockHeld /\ ReadersCounted /\ EntryCovers /\ LoadedFirst /\ CopiedSoFar
-----------------------------------------------------------------------------
(* No action but those of the loader changes what an entry holds: entries  *)
(* are appended, keep their blocks, and stay loaded.                       *)
Grown(E, F) ==
  /\ DOMAIN E \subseteq DOMAIN F
  /\ \A e \in DOMAIN E : /\ F[e].first_block = E[e].first_block
                         /\ F[e].was_set = E[e].was_set
                         /\ E[e].loaded => F[e].loaded

(* A block lies in the entry that PupAllocCacheEntry makes for it.         *)
LEMMA NewEntryCovers ==
  ASSUME CacheAssumption, NEW block \in Nat
  PROVE  \A was_set \in BOOLEAN : /\ NewEntry(block, was_set) \in EntryRecords
                                  /\ Covers(NewEntry(block, was_set), block)
<1>1. /\ block \div BlocksPerEntry \in Nat
      /\ (block \div BlocksPerEntry) * BlocksPerEntry \in Nat
      /\ (block \div BlocksPerEntry) * BlocksPerEntry <= block
      /\ block <= (block \div BlocksPerEntry) * BlocksPerEntry + BlocksPerEntry - 1
  BY Z3 DEF CacheAssumption
<1> QED
  BY <1>1 DEF NewEntry, EntryStart, EntryRecords, Covers

(* Writing a field of an entry leaves entries where there were entries.    *)
LEMMA EntryWritten ==
  ASSUME NEW E \in Seq(EntryRecords), NEW e \in DOMAIN E, NEW v \in EntryRecords
  PROVE  /\ [E EXCEPT ![e] = v] \in Seq(EntryRecords)
         /\ DOMAIN [E EXCEPT ![e] = v] = DOMAIN E
         /\ [E EXCEPT ![e] = v][e] = v
         /\ \A f \in DOMAIN E \ {e} : [E EXCEPT ![e] = v][f] = E[f]
<1>1. E \in [1 .. Len(E) -> EntryRecords] /\ DOMAIN E = 1 .. Len(E) /\ Len(E) \in Nat
  OBVIOUS
<1>2. [E EXCEPT ![e] = v] \in [1 .. Len(E) -> EntryRecords]
  BY <1>1
<1>3. [E EXCEPT ![e] = v] \in Seq(EntryRecords)
  BY <1>1, <1>2
<1> QED
  BY <1>1, <1>3

(* The same, for each of the fields that the threads write.                *)
LEMMA FieldWritten ==
  ASSUME Types, NEW e \in DOMAIN entries
  PROVE  /\ entries[e] \in EntryRecords
         /\ \A n \in Nat : [entries[e] EXCEPT !.ref_count = n] \in EntryRecords
         /\ \A b \in BOOLEAN : /\ [entries[e] EXCEPT !.loaded = b] \in EntryRecords
                               /\ [entries[e] EXCEPT !.pending = b] \in EntryRecords
                               /\ [entries[e] EXCEPT !.condition = b] \in EntryRecords
<1>1. entries[e] \in EntryRecords
  BY ElementOfSeq DEF Types
<1> QED
  BY <1>1 DEF EntryRecords

(* Two runs of blocks of which the second begins where the first ends.     *)
LEMMA RunsJoin ==
  ASSUME NEW a \in Nat, NEW m \in Nat, NEW n \in Nat
  PROVE  /\ Run(a, m) \in Seq(Int)
         /\ Run(a, m) \o Run(a + m, n) = Run(a, m + n)
<1>1. /\ Run(a, m) \in Seq(Int) /\ Len(Run(a, m)) = m
      /\ \A i \in 1 .. m : Run(a, m)[i] = a + i - 1
  BY DEF Run
<1>2. /\ Run(a + m, n) \in Seq(Int) /\ Len(Run(a + m, n)) = n
      /\ \A i \in 1 .. n : Run(a + m, n)[i] = a + m + i - 1
  BY DEF Run
<1>3. /\ Run(a, m + n) \in Seq(Int) /\ Len(Run(a, m + n)) = m + n
      /\ \A i \in 1 .. m + n : Run(a, m + n)[i] = a + i - 1
  BY DEF Run
<1> DEFINE joined == Run(a, m) \o Run(a + m, n)
<1>4. /\ joined \in Seq(Int) /\ Len(joined) = m + n
      /\ \A i \in 1 .. m + n :
           joined[i] = IF i <= m THEN Run(a, m)[i] ELSE Run(a + m, n)[i - m]
  <2> DEFINE s1 == Run(a, m)
             s2 == Run(a + m, n)
  <2>1. s1 \in Seq(Int) /\ s2 \in Seq(Int) /\ Len(s1) = m /\ Len(s2) = n
    BY <1>1, <1>2
  <2> HIDE DEF s1, s2
  <2>2. /\ s1 \o s2 \in Seq(Int) /\ Len(s1 \o s2) = Len(s1) + Len(s2)
        /\ \A i \in 1 .. Len(s1) + Len(s2) :
             (s1 \o s2)[i] = IF i <= Len(s1) THEN s1[i] ELSE s2[i - Len(s1)]
    BY <2>1, ConcatProperties
  <2>3. /\ s1 \o s2 \in Seq(Int) /\ Len(s1 \o s2) = m + n
        /\ \A i \in 1 .. m + n : (s1 \o s2)[i] = IF i <= m THEN s1[i] ELSE s2[i - m]
    BY <2>1, <2>2
  <2> QED
    BY <2>3 DEF s1, s2
<1> HIDE DEF joined
<1>5. ASSUME NEW i \in 1 .. m + n
      PROVE  joined[i] = Run(a, m + n)[i]
  <2>1. CASE i <= m
    BY SMTT(30), <1>1, <1>3, <1>4, <2>1
  <2>2. CASE i > m
    <3>1. i - m \in 1 .. n
      BY <2>2
    <3>2. Run(a + m, n)[i - m] = a + m + (i - m) - 1
      BY <1>2, <3>1
    <3> QED
      <4>1. joined[i] = Run(a + m, n)[i - m]
        BY <1>4, <2>2
      <4>2. Run(a, m + n)[i] = a + i - 1
        BY <1>3
      <4> QED
        BY <3>2, <4>1, <4>2
  <2> QED
    BY <2>1, <2>2
<1>6. joined = Run(a, m + n)
  BY <1>3, <1>4, <1>5, SeqEqual
<1> QED
  BY <1>1, <1>6 DEF joined

(* The copy of the part of a request that lies in its entry: the blocks    *)
(* that come next, if that entry began with its condition clear.           *)
LEMMA CopyAppends ==
  ASSUME CacheAssumption, IInv, NEW t \in Threads, Copy(t)
  PROVE  \E size \in Nat, copied \in Seq(Int) :
           /\ size <= read[t].block_count
           /\ read' = [read EXCEPT
                ![t].first_block = read[t].first_block + size,
                ![t].block_count = read[t].block_count - size,
                ![t].got = read[t].got \o copied]
           /\ BeganClear(t) => copied = Run(read[t].first_block, size)
<1> DEFINE r == read[t]
           e == entries[found[t]]
           size == CopySize(r, e)
           offset == r.first_block - e.first_block
           copied == [i \in 1 .. size |->
             IF e.loaded /\ offset + i <= BlocksPerEntry
               THEN e.first_block + offset + i - 1 ELSE -1]
<1>1. /\ pc[t] = "copy" /\ found[t] \in DOMAIN entries /\ Covers(e, r.first_block)
      /\ e.loaded \/ e.was_set
  BY DEF IInv, Types, EntryCovers, LoadedFirst, Copy, Using
<1>2. e.first_block \in Nat
  BY <1>1, FieldWritten DEF IInv, EntryRecords
<1>3. /\ r \in Read /\ r.first_block \in Nat /\ r.block_count \in Nat
      /\ r.from \in Nat /\ r.asked \in Nat
  BY DEF IInv, Types, Read
<1>4. offset \in Nat /\ offset <= BlocksPerEntry - 1
  BY <1>1, <1>2, <1>3 DEF Covers, CacheAssumption
<1>5. size \in Nat /\ size <= r.block_count /\ offset + size <= BlocksPerEntry
  BY <1>2, <1>3, <1>4 DEF CopySize, CacheAssumption
<1>6. copied \in Seq(Int)
  <2> HIDE DEF size
  <2>1. \A i \in 1 .. size : e.first_block + offset + i - 1 \in Int
    BY <1>2, <1>4, <1>5
  <2> QED
    BY <1>5, <2>1
<1>7. ASSUME BeganClear(t)
      PROVE  copied = Run(r.first_block, size)
  <2>1. r.from <= r.first_block /\ r.first_block + r.block_count = r.from + r.asked
    BY DEF IInv, CopiedSoFar
  <2> HIDE DEF size
  <2>2. ASSUME NEW i \in 1 .. size
        PROVE  e.loaded
    <3>1. r.first_block \in r.from .. r.from + r.asked - 1
      BY <1>3, <1>5, <2>1
    <3>2. Holds(found[t], r.first_block)
      BY <1>1 DEF Holds, Covers
    <3> QED
      BY <1>1, <1>7, <3>1, <3>2 DEF BeganClear
  <2>3. ASSUME NEW i \in 1 .. size
        PROVE  /\ offset + i <= BlocksPerEntry
               /\ e.first_block + offset + i - 1 = r.first_block + i - 1
    BY <1>2, <1>3, <1>4, <1>5 DEF CacheAssumption
  <2> QED
    BY <2>2, <2>3 DEF Run
<1>8. read' = [read EXCEPT
        ![t].first_block = r.first_block + size,
        ![t].block_count = r.block_count - size,
        ![t].got = r.got \o copied]
  BY DEF Copy
<1> HIDE DEF size, copied
<1> QED
  BY <1>5, <1>6, <1>7, <1>8

(* Every step of a thread keeps the types of the cache (the set's lock and *)
(* list, the entries, and each thread's PupRead).                          *)
LEMMA TypesKept ==
  ASSUME CacheAssumption, IInv, [CacheNext]_cacheVars
  PROVE  Types'
<1> USE DEF Types
<1>0. CASE UNCHANGED cacheVars
  BY <1>0 DEF IInv, cacheVars
<1> SUFFICES ASSUME NEW t \in Threads,
                    Step(t) \/ \E first \in 0 .. Blocks - 1, count \in 1 .. MaxCount :
                                 PupRead(t, first, count)
             PROVE  Types'
  BY <1>0 DEF CacheNext
<1> USE DEF IInv, Goto, Labels, Locking, Walking, CountingOut, Using
<1>1. CASE \E first \in 0 .. Blocks - 1, count \in 1 .. MaxCount : PupRead(t, first, count)
  <2> PICK first \in 0 .. Blocks - 1, count \in 1 .. MaxCount : PupRead(t, first, count)
    BY <1>1
  <2>1. first \in Nat /\ count \in Nat
    BY DEF CacheAssumption
  <2>2. [first_block |-> first, block_count |-> count, from |-> first, asked |-> count,
         got |-> <<>>] \in Read
    BY <2>1 DEF Read
  <2> QED
    BY <2>2 DEF PupRead
<1>2. CASE FindLock(t)
  BY <1>2 DEF FindLock
<1>3. CASE CountIn(t)
  BY <1>3 DEF CountIn
<1>4. CASE Walk(t)
  <2>1. CASE entries' = entries /\ found' = [found EXCEPT ![t] = NoEntry]
    BY <1>4, <2>1 DEF Walk
  <2>2. ASSUME NEW i \in DOMAIN set, entries' = Acquire(set[i]),
               found' = [found EXCEPT ![t] = set[i]]
        PROVE  Types'
    <3>1. set[i] \in DOMAIN entries
      BY ElementOfSeq
    <3>2. [entries[set[i]] EXCEPT !.ref_count = @ + 1] \in EntryRecords
      <4>1. entries[set[i]] \in EntryRecords
        BY <3>1, FieldWritten
      <4>2. entries[set[i]].ref_count + 1 \in Nat
        BY <4>1 DEF EntryRecords
      <4> QED
        BY <3>1, <4>2, FieldWritten
    <3>3. entries' \in Seq(EntryRecords) /\ DOMAIN entries' = DOMAIN entries
      BY <2>2, <3>1, <3>2, EntryWritten DEF Acquire
    <3> QED
      BY <1>4, <2>2, <3>1, <3>3 DEF Walk
  <2> QED
    BY <1>4, <2>1, <2>2 DEF Walk, Matching
<1>5. CASE CountOut(t)
  <2>1. t \in Counted
    BY <1>5 DEF CountOut, Counted
  <2>2. IsFiniteSet(Counted)
    BY FS_Subset DEF CacheAssumption, Counted
  <2>3. read_count # 0
    BY <2>1, <2>2, FS_EmptySet DEF ReadersCounted
  <2> QED
    BY <1>5, <2>3 DEF CountOut, CountedOut
<1>6. CASE Miss(t)
  <2>1. \A was_set \in BOOLEAN : NewEntry(read[t].first_block, was_set) \in EntryRecords
    BY NewEntryCovers DEF Read
  <2> QED
    <3>1. CASE lock = Nobody
      <4> PICK was_set \in BOOLEAN :
            entries' = Append(entries, NewEntry(read[t].first_block, was_set))
        BY <1>6, <3>1 DEF Miss
      <4> DEFINE e == NewEntry(read[t].first_block, was_set)
      <4> HIDE DEF e
      <4>1. /\ Append(entries, e) \in Seq(EntryRecords)
            /\ DOMAIN entries \subseteq DOMAIN Append(entries, e)
            /\ Len(entries) + 1 \in DOMAIN Append(entries, e)
        BY <2>1, AppendProperties DEF e
      <4>2. entries' = Append(entries, e) /\ found' = [found EXCEPT ![t] = Len(entries) + 1]
        BY <1>6, <3>1 DEF Miss, e
      <4>3. set \in Seq(DOMAIN entries')
        BY <4>1, <4>2
      <4> QED
        BY <1>6, <3>1, <4>1, <4>2, <4>3 DEF Miss
    <3>2. CASE lock # Nobody
      BY <1>6, <3>2 DEF Miss
    <3> QED
      BY <3>1, <3>2
<1>7. CASE SpinWait(t)
  BY <1>7 DEF SpinWait
<1>8. CASE StashCacheEntry(t)
  BY <1>8 DEF StashCacheEntry, EntryCovers
<1>9. CASE ReadVolumeBlocks(t)
  <2> DEFINE v == [entries[found[t]] EXCEPT !.loaded = TRUE]
  <2>1. found[t] \in DOMAIN entries
    BY <1>9 DEF ReadVolumeBlocks, EntryCovers
  <2>2. v \in EntryRecords
    BY <2>1, FieldWritten DEF EntryRecords
  <2>3. entries' = [entries EXCEPT ![found[t]] = v]
    BY <1>9 DEF ReadVolumeBlocks
  <2>4. entries' \in Seq(EntryRecords) /\ DOMAIN entries' = DOMAIN entries
    BY <2>1, <2>2, <2>3, EntryWritten
  <2> HIDE DEF v
  <2> QED
    BY <1>9, <2>4 DEF ReadVolumeBlocks
<1>10. CASE ClearPending(t)
  <2> DEFINE v == [entries[found[t]] EXCEPT !.pending = FALSE]
  <2>1. found[t] \in DOMAIN entries
    BY <1>10 DEF ClearPending, EntryCovers
  <2>2. v \in EntryRecords
    BY <2>1, FieldWritten DEF EntryRecords
  <2>3. entries' = [entries EXCEPT ![found[t]] = v]
    BY <1>10 DEF ClearPending
  <2>4. entries' \in Seq(EntryRecords) /\ DOMAIN entries' = DOMAIN entries
    BY <2>1, <2>2, <2>3, EntryWritten
  <2> HIDE DEF v
  <2> QED
    BY <1>10, <2>4 DEF ClearPending
<1>11. CASE SignalCondition(t)
  <2> DEFINE v == [entries[found[t]] EXCEPT !.condition = TRUE]
  <2>1. found[t] \in DOMAIN entries
    BY <1>11 DEF SignalCondition, EntryCovers
  <2>2. v \in EntryRecords
    BY <2>1, FieldWritten DEF EntryRecords
  <2>3. entries' = [entries EXCEPT ![found[t]] = v]
    BY <1>11 DEF SignalCondition, Signal
  <2>4. entries' \in Seq(EntryRecords) /\ DOMAIN entries' = DOMAIN entries
    BY <2>1, <2>2, <2>3, EntryWritten
  <2> HIDE DEF v
  <2> QED
    BY <1>11, <2>4 DEF SignalCondition
<1>12. CASE TestPending(t)
  BY <1>12 DEF TestPending
<1>13. CASE WaitCondition(t)
  BY <1>13 DEF WaitCondition
<1>14. CASE Copy(t)
  <2>1. PICK size \in Nat, copied \in Seq(Int) :
          /\ size <= read[t].block_count
          /\ read' = [read EXCEPT
               ![t].first_block = read[t].first_block + size,
               ![t].block_count = read[t].block_count - size,
               ![t].got = read[t].got \o copied]
    BY <1>14, CopyAppends
  <2>2. read[t].got \o copied \in Seq(Int)
    BY ConcatProperties DEF Read
  <2>3. read' \in [Threads -> Read]
    <3>1. /\ read[t] \in Read
          /\ read[t].first_block + size \in Nat /\ read[t].block_count - size \in Nat
      BY SMTT(30), <2>1 DEF Read
    <3>2. [read[t] EXCEPT !.first_block = read[t].first_block + size,
                          !.block_count = read[t].block_count - size,
                          !.got = read[t].got \o copied] \in Read
      BY <2>2, <3>1 DEF Read
    <3> QED
      BY <2>1, <3>2
  <2> QED
    BY <1>14, <2>3 DEF Copy
<1>15. CASE ReleaseEntry(t)
  <2> DEFINE v == [entries[found[t]] EXCEPT !.ref_count = IF @ = 0 THEN 0 ELSE @ - 1]
  <2>1. found[t] \in DOMAIN entries
    BY <1>15 DEF ReleaseEntry, EntryCovers
  <2>2. v \in EntryRecords
    <3>1. entries[found[t]] \in EntryRecords
      BY <2>1, FieldWritten
    <3>2. (IF entries[found[t]].ref_count = 0 THEN 0 ELSE entries[found[t]].ref_count - 1) \in Nat
      BY <3>1 DEF EntryRecords
    <3> QED
      BY <2>1, <3>2, FieldWritten
  <2>3. entries' = [entries EXCEPT ![found[t]] = v]
    BY <1>15 DEF ReleaseEntry
  <2>4. entries' \in Seq(EntryRecords) /\ DOMAIN entries' = DOMAIN entries
    BY <2>1, <2>2, <2>3, EntryWritten
  <2> HIDE DEF v
  <2> QED
    BY <1>15, <2>4 DEF ReleaseEntry
<1>16. CASE Return(t)
  BY <1>16 DEF Return, NoRead, Read
<1> QED
  BY <1>1, <1>2, <1>3, <1>4, <1>5, <1>6, <1>7, <1>8, <1>9, <1>10, <1>11, <1>12,
     <1>13, <1>14, <1>15, <1>16 DEF Step

(* The set's lock has the holder that the code gives it: a thread that is  *)
(* about to be counted, or one that has an entry to stash.                 *)
LEMMA LockHeldKept ==
  ASSUME CacheAssumption, IInv, [CacheNext]_cacheVars, Types'
  PROVE  LockHeld'
<1>0. CASE UNCHANGED cacheVars
  BY <1>0 DEF IInv, cacheVars, LockHeld, Locking, CacheAssumption
<1> SUFFICES ASSUME NEW t \in Threads,
                    Step(t) \/ \E first \in 0 .. Blocks - 1, count \in 1 .. MaxCount :
                                 PupRead(t, first, count)
             PROVE  LockHeld'
  BY <1>0 DEF CacheNext
<1> USE DEF IInv, Types, Goto, LockHeld, Locking, CacheAssumption
<1>1. CASE \E first \in 0 .. Blocks - 1, count \in 1 .. MaxCount : PupRead(t, first, count)
  BY <1>1 DEF PupRead
<1>2. CASE FindLock(t)
  BY <1>2 DEF FindLock
<1>3. CASE CountIn(t)
  BY <1>3 DEF CountIn
<1>4. CASE Walk(t)
  BY <1>4 DEF Walk
<1>5. CASE CountOut(t)
  BY <1>5 DEF CountOut
<1>6. CASE Miss(t)
  BY <1>6 DEF Miss
<1>7. CASE SpinWait(t)
  BY <1>7 DEF SpinWait
<1>8. CASE StashCacheEntry(t)
  BY <1>8 DEF StashCacheEntry
<1>9. CASE ReadVolumeBlocks(t)
  BY <1>9 DEF ReadVolumeBlocks
<1>10. CASE ClearPending(t)
  BY <1>10 DEF ClearPending
<1>11. CASE SignalCondition(t)
  BY <1>11 DEF SignalCondition
<1>12. CASE TestPending(t)
  BY <1>12 DEF TestPending
<1>13. CASE WaitCondition(t)
  BY <1>13 DEF WaitCondition
<1>14. CASE Copy(t)
  BY <1>14 DEF Copy
<1>15. CASE ReleaseEntry(t)
  BY <1>15 DEF ReleaseEntry
<1>16. CASE Return(t)
  BY <1>16 DEF Return
<1> QED
  BY <1>1, <1>2, <1>3, <1>4, <1>5, <1>6, <1>7, <1>8, <1>9, <1>10, <1>11, <1>12,
     <1>13, <1>14, <1>15, <1>16 DEF Step

(* The lock makes the count exact: read_count goes up by one for each      *)
(* thread that is about to walk and down by one when it has walked.        *)
LEMMA ReadersCountedKept ==
  ASSUME CacheAssumption, IInv, [CacheNext]_cacheVars, Types'
  PROVE  ReadersCounted'
<1>0. CASE UNCHANGED cacheVars
  BY <1>0 DEF IInv, cacheVars, ReadersCounted, Counted
<1> SUFFICES ASSUME NEW t \in Threads,
                    Step(t) \/ \E first \in 0 .. Blocks - 1, count \in 1 .. MaxCount :
                                 PupRead(t, first, count)
             PROVE  ReadersCounted'
  BY <1>0 DEF CacheNext
<1> USE DEF IInv, Types, Goto
<1>1. CASE \E first \in 0 .. Blocks - 1, count \in 1 .. MaxCount : PupRead(t, first, count)
  <2>1. read_count' = read_count /\ Counted' = Counted
    BY <1>1 DEF PupRead, Counted, Walking, CountingOut
  <2> QED
    BY <2>1 DEF ReadersCounted
<1>2. CASE FindLock(t)
  <2>1. read_count' = read_count /\ Counted' = Counted
    BY <1>2 DEF FindLock, Counted, Walking, CountingOut
  <2> QED
    BY <2>1 DEF ReadersCounted
<1>3. CASE CountIn(t)
  <2>1. t \notin Counted /\ Counted' = Counted \cup {t}
    BY <1>3 DEF CountIn, Counted, Walking, CountingOut
  <2>2. IsFiniteSet(Counted)
    BY FS_Subset DEF CacheAssumption, Counted
  <2> QED
    BY <1>3, <2>1, <2>2, FS_AddElement DEF CountIn, ReadersCounted
<1>4. CASE Walk(t)
  <2>1. read_count' = read_count /\ Counted' = Counted
    BY <1>4 DEF Walk, Counted, Walking, CountingOut
  <2> QED
    BY <2>1 DEF ReadersCounted
<1>5. CASE CountOut(t)
  <2>1. t \in Counted /\ Counted' = Counted \ {t}
    BY <1>5 DEF CountOut, Counted, Walking, CountingOut
  <2>2. IsFiniteSet(Counted)
    BY FS_Subset DEF CacheAssumption, Counted
  <2> QED
    BY <1>5, <2>1, <2>2, FS_RemoveElement DEF CountOut, CountedOut, ReadersCounted
<1>6. CASE Miss(t)
  <2>1. read_count' = read_count /\ Counted' = Counted
    BY <1>6 DEF Miss, Counted, Walking, CountingOut
  <2> QED
    BY <2>1 DEF ReadersCounted
<1>7. CASE SpinWait(t)
  <2>1. read_count' = read_count /\ Counted' = Counted
    BY <1>7 DEF SpinWait, Counted, Walking, CountingOut
  <2> QED
    BY <2>1 DEF ReadersCounted
<1>8. CASE StashCacheEntry(t)
  <2>1. read_count' = read_count /\ Counted' = Counted
    BY <1>8 DEF StashCacheEntry, Counted, Walking, CountingOut
  <2> QED
    BY <2>1 DEF ReadersCounted
<1>9. CASE ReadVolumeBlocks(t)
  <2>1. read_count' = read_count /\ Counted' = Counted
    BY <1>9 DEF ReadVolumeBlocks, Counted, Walking, CountingOut
  <2> QED
    BY <2>1 DEF ReadersCounted
<1>10. CASE ClearPending(t)
  <2>1. read_count' = read_count /\ Counted' = Counted
    BY <1>10 DEF ClearPending, Counted, Walking, CountingOut
  <2> QED
    BY <2>1 DEF ReadersCounted
<1>11. CASE SignalCondition(t)
  <2>1. read_count' = read_count /\ Counted' = Counted
    BY <1>11 DEF SignalCondition, Counted, Walking, CountingOut
  <2> QED
    BY <2>1 DEF ReadersCounted
<1>12. CASE TestPending(t)
  <2>1. read_count' = read_count /\ Counted' = Counted
    BY <1>12 DEF TestPending, Counted, Walking, CountingOut
  <2> QED
    BY <2>1 DEF ReadersCounted
<1>13. CASE WaitCondition(t)
  <2>1. read_count' = read_count /\ Counted' = Counted
    BY <1>13 DEF WaitCondition, Counted, Walking, CountingOut
  <2> QED
    BY <2>1 DEF ReadersCounted
<1>14. CASE Copy(t)
  <2>1. read_count' = read_count /\ Counted' = Counted
    BY <1>14 DEF Copy, Counted, Walking, CountingOut
  <2> QED
    BY <2>1 DEF ReadersCounted
<1>15. CASE ReleaseEntry(t)
  <2>1. read_count' = read_count /\ Counted' = Counted
    BY <1>15 DEF ReleaseEntry, Counted, Walking, CountingOut
  <2> QED
    BY <2>1 DEF ReadersCounted
<1>16. CASE Return(t)
  <2>1. read_count' = read_count /\ Counted' = Counted
    BY <1>16 DEF Return, Counted, Walking, CountingOut
  <2> QED
    BY <2>1 DEF ReadersCounted
<1> QED
  BY <1>1, <1>2, <1>3, <1>4, <1>5, <1>6, <1>7, <1>8, <1>9, <1>10, <1>11, <1>12,
     <1>13, <1>14, <1>15, <1>16 DEF Step

(* Writing fields of one entry lets the entries grow, unless it unloads it. *)
LEMMA WriteGrows ==
  ASSUME Types, NEW e \in DOMAIN entries, NEW v \in EntryRecords,
         v.first_block = entries[e].first_block, v.was_set = entries[e].was_set,
         entries[e].loaded => v.loaded,
         entries' = [entries EXCEPT ![e] = v]
  PROVE  Grown(entries, entries')
<1>1. entries \in Seq(EntryRecords)
  BY DEF Types
<1>2. /\ DOMAIN entries' = DOMAIN entries
      /\ entries'[e] = v
      /\ \A f \in DOMAIN entries \ {e} : entries'[f] = entries[f]
  BY <1>1, EntryWritten
<1> QED
  BY <1>2 DEF Grown

(* Entries are appended, keep their blocks, and stay loaded (centries of   *)
(* the volume, pup.c).                                                     *)
LEMMA EntriesGrow ==
  ASSUME CacheAssumption, IInv, [CacheNext]_cacheVars, Types'
  PROVE  Grown(entries, entries')
<1>0. CASE UNCHANGED cacheVars
  BY <1>0 DEF IInv, cacheVars, Grown
<1> SUFFICES ASSUME NEW t \in Threads,
                    Step(t) \/ \E first \in 0 .. Blocks - 1, count \in 1 .. MaxCount :
                                 PupRead(t, first, count)
             PROVE  Grown(entries, entries')
  BY <1>0 DEF CacheNext
<1> USE DEF IInv, Types, Goto, Grown
<1>1. CASE \E first \in 0 .. Blocks - 1, count \in 1 .. MaxCount : PupRead(t, first, count)
  BY <1>1 DEF PupRead
<1>2. CASE FindLock(t)
  BY <1>2 DEF FindLock
<1>3. CASE CountIn(t)
  BY <1>3 DEF CountIn
<1>4. CASE Walk(t)
  <2>1. ASSUME NEW i \in DOMAIN set, entries' = Acquire(set[i])
        PROVE  Grown(entries, entries')
    <3>1. set[i] \in DOMAIN entries
      BY ElementOfSeq
    <3> QED
      BY <2>1, <3>1, FieldWritten DEF Acquire, EntryRecords
  <2> QED
    BY <1>4, <2>1 DEF Walk, Matching
<1>5. CASE CountOut(t)
  BY <1>5 DEF CountOut
<1>6. CASE Miss(t)
  <2>1. \A was_set \in BOOLEAN : NewEntry(read[t].first_block, was_set) \in EntryRecords
    BY NewEntryCovers DEF Read
  <2> QED
    <3>1. CASE entries' = entries
      BY <3>1
    <3>2. ASSUME NEW was_set \in BOOLEAN,
                 entries' = Append(entries, NewEntry(read[t].first_block, was_set))
          PROVE  Grown(entries, entries')
      <4> DEFINE e == NewEntry(read[t].first_block, was_set)
      <4> HIDE DEF e
      <4>1. /\ DOMAIN entries = 1 .. Len(entries) /\ Len(entries) \in Nat
            /\ DOMAIN Append(entries, e) = 1 .. Len(entries) + 1
            /\ \A i \in 1 .. Len(entries) : Append(entries, e)[i] = entries[i]
        BY <2>1, AppendProperties DEF e
      <4>2. entries' = Append(entries, e)
        BY <3>2 DEF e
      <4> QED
        BY <4>1, <4>2
    <3> QED
      BY <1>6, <3>1, <3>2 DEF Miss
<1>7. CASE SpinWait(t)
  BY <1>7 DEF SpinWait
<1>8. CASE StashCacheEntry(t)
  BY <1>8 DEF StashCacheEntry
<1>9. CASE ReadVolumeBlocks(t)
  <2>1. found[t] \in DOMAIN entries
    BY <1>9 DEF ReadVolumeBlocks, EntryCovers, Using
  <2> QED
    <3> DEFINE v == [entries[found[t]] EXCEPT !.loaded = TRUE]
    <3>1. /\ v \in EntryRecords /\ entries[found[t]] \in EntryRecords
      BY <2>1, FieldWritten
    <3>2. /\ v.first_block = entries[found[t]].first_block
          /\ v.was_set = entries[found[t]].was_set
          /\ entries[found[t]].loaded => v.loaded
      BY <3>1 DEF EntryRecords
    <3>3. entries' = [entries EXCEPT ![found[t]] = v]
      BY <1>9 DEF ReadVolumeBlocks
    <3> HIDE DEF v
    <3> QED
      BY <2>1, <3>1, <3>2, <3>3, WriteGrows
<1>10. CASE ClearPending(t)
  <2>1. found[t] \in DOMAIN entries
    BY <1>10 DEF ClearPending, EntryCovers, Using
  <2> QED
    <3> DEFINE v == [entries[found[t]] EXCEPT !.pending = FALSE]
    <3>1. /\ v \in EntryRecords /\ entries[found[t]] \in EntryRecords
      BY <2>1, FieldWritten
    <3>2. /\ v.first_block = entries[found[t]].first_block
          /\ v.was_set = entries[found[t]].was_set
          /\ entries[found[t]].loaded => v.loaded
      BY <3>1 DEF EntryRecords
    <3>3. entries' = [entries EXCEPT ![found[t]] = v]
      BY <1>10 DEF ClearPending
    <3> HIDE DEF v
    <3> QED
      BY <2>1, <3>1, <3>2, <3>3, WriteGrows
<1>11. CASE SignalCondition(t)
  <2>1. found[t] \in DOMAIN entries
    BY <1>11 DEF SignalCondition, EntryCovers, Using
  <2> QED
    <3> DEFINE v == [entries[found[t]] EXCEPT !.condition = TRUE]
    <3>1. /\ v \in EntryRecords /\ entries[found[t]] \in EntryRecords
      BY <2>1, FieldWritten
    <3>2. /\ v.first_block = entries[found[t]].first_block
          /\ v.was_set = entries[found[t]].was_set
          /\ entries[found[t]].loaded => v.loaded
      BY <3>1 DEF EntryRecords
    <3>3. entries' = [entries EXCEPT ![found[t]] = v]
      BY <1>11 DEF SignalCondition, Signal
    <3> HIDE DEF v
    <3> QED
      BY <2>1, <3>1, <3>2, <3>3, WriteGrows
<1>12. CASE TestPending(t)
  BY <1>12 DEF TestPending
<1>13. CASE WaitCondition(t)
  BY <1>13 DEF WaitCondition
<1>14. CASE Copy(t)
  BY <1>14 DEF Copy
<1>15. CASE ReleaseEntry(t)
  <2>1. found[t] \in DOMAIN entries
    BY <1>15 DEF ReleaseEntry, EntryCovers, Using
  <2> QED
    <3> DEFINE n == IF entries[found[t]].ref_count = 0
                    THEN 0 ELSE entries[found[t]].ref_count - 1
               v == [entries[found[t]] EXCEPT !.ref_count = n]
    <3>1. entries[found[t]] \in EntryRecords
      BY <2>1, FieldWritten
    <3>2. n \in Nat
      BY <3>1 DEF EntryRecords
    <3>3. v \in EntryRecords
      BY <2>1, <3>2, FieldWritten
    <3>4. /\ v.first_block = entries[found[t]].first_block
          /\ v.was_set = entries[found[t]].was_set
          /\ entries[found[t]].loaded => v.loaded
      BY <3>1 DEF EntryRecords
    <3>5. entries' = [entries EXCEPT ![found[t]] = v]
      BY <1>15 DEF ReleaseEntry
    <3> HIDE DEF v
    <3> QED
      BY <2>1, <3>3, <3>4, <3>5, WriteGrows
<1>16. CASE Return(t)
  BY <1>16 DEF Return
<1> QED
  BY <1>1, <1>2, <1>3, <1>4, <1>5, <1>6, <1>7, <1>8, <1>9, <1>10, <1>11, <1>12,
     <1>13, <1>14, <1>15, <1>16 DEF Step

(* A thread that goes on with an entry has one its next block lies in: the *)
(* one it walked to, or the one it made for that block.                    *)
LEMMA EntryCoversKept ==
  ASSUME CacheAssumption, IInv, [CacheNext]_cacheVars, Types'
  PROVE  EntryCovers'
<1>0. CASE UNCHANGED cacheVars
  BY <1>0 DEF IInv, cacheVars, EntryCovers, Covers
<1> SUFFICES ASSUME NEW t \in Threads,
                    Step(t) \/ \E first \in 0 .. Blocks - 1, count \in 1 .. MaxCount :
                                 PupRead(t, first, count)
             PROVE  EntryCovers'
  BY <1>0 DEF CacheNext
<1>a. Grown(entries, entries')
  BY EntriesGrow
<1> DEFINE Has(u) ==
      /\ pc[u] \in Using \cup {"release"} => found[u] # NoEntry
      /\ pc[u] \in Using \cup CountingOut /\ found[u] # NoEntry =>
           Covers(entries[found[u]], read[u].first_block)
<1>b. \A u \in Threads : Has(u)
  BY DEF IInv, EntryCovers
<1> SUFFICES \A u \in Threads : Has(u)'
  BY DEF EntryCovers
<1> USE <1>a, <1>b DEF Grown, IInv, Types, Goto, Using, CountingOut, Covers
<1>1. CASE \E first \in 0 .. Blocks - 1, count \in 1 .. MaxCount : PupRead(t, first, count)
  BY <1>1 DEF PupRead
<1>2. CASE FindLock(t)
  <2>1. ASSUME NEW u \in Threads \ {t}
        PROVE  Has(u)'
    BY <1>2 DEF FindLock
  <2>2. Has(t)'
    BY <1>2 DEF FindLock
  <2> QED
    BY <2>1, <2>2
<1>3. CASE CountIn(t)
  <2>1. ASSUME NEW u \in Threads \ {t}
        PROVE  Has(u)'
    BY <1>3 DEF CountIn
  <2>2. Has(t)'
    BY <1>3 DEF CountIn
  <2> QED
    BY <2>1, <2>2
<1>4. CASE Walk(t)
  <2>1. ASSUME NEW u \in Threads \ {t}
        PROVE  Has(u)'
    BY <1>4 DEF Walk
  <2>2. Has(t)'
    <3>1. ASSUME NEW i \in DOMAIN set, Holds(set[i], read[t].first_block),
                 found' = [found EXCEPT ![t] = set[i]]
          PROVE  Has(t)'
      <4>1. set[i] \in DOMAIN entries
        BY ElementOfSeq
      <4> QED
        BY <1>4, <3>1, <4>1 DEF Walk, Holds
    <3> QED
      BY <1>4, <3>1 DEF Walk, Matching
  <2> QED
    BY <2>1, <2>2
<1>5. CASE CountOut(t)
  <2>1. ASSUME NEW u \in Threads \ {t}
        PROVE  Has(u)'
    BY <1>5 DEF CountOut
  <2>2. Has(t)'
    BY <1>5 DEF CountOut
  <2> QED
    BY <2>1, <2>2
<1>6. CASE Miss(t)
  <2>1. ASSUME NEW u \in Threads \ {t}
        PROVE  Has(u)'
    BY <1>6 DEF Miss
  <2>2. Has(t)'
    <3>1. CASE lock = Nobody
      <4> PICK was_set \in BOOLEAN :
            entries' = Append(entries, NewEntry(read[t].first_block, was_set))
        BY <1>6, <3>1 DEF Miss
      <4> DEFINE e == NewEntry(read[t].first_block, was_set)
      <4>1. e \in EntryRecords /\ Covers(e, read[t].first_block)
        BY NewEntryCovers DEF Read
      <4>2. /\ entries' = Append(entries, e) /\ found'[t] = Len(entries) + 1
            /\ read'[t] = read[t]
        BY <1>6, <3>1 DEF Miss
      <4> HIDE DEF e
      <4>3. entries'[found'[t]] = e /\ Len(entries) + 1 # NoEntry
        BY <4>1, <4>2, AppendProperties DEF NoEntry
      <4> QED
        BY <4>1, <4>2, <4>3
    <3>2. CASE lock # Nobody
      BY <1>6, <3>2 DEF Miss
    <3> QED
      BY <3>1, <3>2
  <2> QED
    BY <2>1, <2>2
<1>7. CASE SpinWait(t)
  <2>1. ASSUME NEW u \in Threads \ {t}
        PROVE  Has(u)'
    BY <1>7 DEF SpinWait
  <2>2. Has(t)'
    BY <1>7 DEF SpinWait
  <2> QED
    BY <2>1, <2>2
<1>8. CASE StashCacheEntry(t)
  <2>1. ASSUME NEW u \in Threads \ {t}
        PROVE  Has(u)'
    BY <1>8 DEF StashCacheEntry
  <2>2. Has(t)'
    BY <1>8 DEF StashCacheEntry
  <2> QED
    BY <2>1, <2>2
<1>9. CASE ReadVolumeBlocks(t)
  <2>1. ASSUME NEW u \in Threads \ {t}
        PROVE  Has(u)'
    BY <1>9 DEF ReadVolumeBlocks
  <2>2. Has(t)'
    BY <1>9 DEF ReadVolumeBlocks
  <2> QED
    BY <2>1, <2>2
<1>10. CASE ClearPending(t)
  <2>1. ASSUME NEW u \in Threads \ {t}
        PROVE  Has(u)'
    BY <1>10 DEF ClearPending
  <2>2. Has(t)'
    BY <1>10 DEF ClearPending
  <2> QED
    BY <2>1, <2>2
<1>11. CASE SignalCondition(t)
  <2>1. ASSUME NEW u \in Threads \ {t}
        PROVE  Has(u)'
    BY <1>11 DEF SignalCondition
  <2>2. Has(t)'
    BY <1>11 DEF SignalCondition
  <2> QED
    BY <2>1, <2>2
<1>12. CASE TestPending(t)
  <2>1. ASSUME NEW u \in Threads \ {t}
        PROVE  Has(u)'
    BY <1>12 DEF TestPending
  <2>2. Has(t)'
    BY <1>12 DEF TestPending
  <2> QED
    BY <2>1, <2>2
<1>13. CASE WaitCondition(t)
  <2>1. ASSUME NEW u \in Threads \ {t}
        PROVE  Has(u)'
    BY <1>13 DEF WaitCondition
  <2>2. Has(t)'
    BY <1>13 DEF WaitCondition
  <2> QED
    BY <2>1, <2>2
<1>14. CASE Copy(t)
  <2>1. ASSUME NEW u \in Threads \ {t}
        PROVE  Has(u)'
    BY <1>14 DEF Copy
  <2>2. Has(t)'
    BY <1>14 DEF Copy
  <2> QED
    BY <2>1, <2>2
<1>15. CASE ReleaseEntry(t)
  <2>1. ASSUME NEW u \in Threads \ {t}
        PROVE  Has(u)'
    BY <1>15 DEF ReleaseEntry
  <2>2. Has(t)'
    BY <1>15 DEF ReleaseEntry
  <2> QED
    BY <2>1, <2>2
<1>16. CASE Return(t)
  <2>1. ASSUME NEW u \in Threads \ {t}
        PROVE  Has(u)'
    BY <1>16 DEF Return
  <2>2. Has(t)'
    BY <1>16 DEF Return
  <2> QED
    BY <2>1, <2>2
<1> QED
  BY <1>1, <1>2, <1>3, <1>4, <1>5, <1>6, <1>7, <1>8, <1>9, <1>10, <1>11, <1>12,
     <1>13, <1>14, <1>15, <1>16 DEF Step

(* Only the thread that has read the disk clears PENDING and signals the   *)
(* condition, so whoever copies from an entry finds it loaded.             *)
LEMMA LoadedFirstKept ==
  ASSUME CacheAssumption, IInv, [CacheNext]_cacheVars, Types'
  PROVE  LoadedFirst'
<1>0. CASE UNCHANGED cacheVars
  BY <1>0 DEF IInv, cacheVars, LoadedFirst
<1> SUFFICES ASSUME NEW t \in Threads,
                    Step(t) \/ \E first \in 0 .. Blocks - 1, count \in 1 .. MaxCount :
                                 PupRead(t, first, count)
             PROVE  LoadedFirst'
  BY <1>0 DEF CacheNext
<1>a. Grown(entries, entries')
  BY EntriesGrow
<1>b. \A u \in Threads : pc[u] \in {"clear", "signal", "copy"} => found[u] \in DOMAIN entries
  BY DEF IInv, Types, EntryCovers, Using
<1> DEFINE Ready(e) == /\ ~entries[e].pending => entries[e].loaded
                       /\ entries[e].condition => entries[e].loaded \/ entries[e].was_set
           Safe(u) == /\ pc[u] \in {"clear", "signal"} => entries[found[u]].loaded
                      /\ pc[u] = "copy" =>
                           entries[found[u]].loaded \/ entries[found[u]].was_set
<1>c. (\A e \in DOMAIN entries : Ready(e)) /\ (\A u \in Threads : Safe(u))
  BY DEF IInv, LoadedFirst
<1> SUFFICES (\A e \in DOMAIN entries' : Ready(e)') /\ (\A u \in Threads : Safe(u)')
  BY DEF LoadedFirst
<1> USE <1>a, <1>b, <1>c DEF Grown, IInv, Types, Goto
<1>1. CASE \E first \in 0 .. Blocks - 1, count \in 1 .. MaxCount : PupRead(t, first, count)
  BY <1>1 DEF PupRead
<1>2. CASE FindLock(t)
  BY <1>2 DEF FindLock
<1>3. CASE CountIn(t)
  BY <1>3 DEF CountIn
<1>4. CASE Walk(t)
  <2>2. \A e \in DOMAIN entries' : Ready(e)'
    <3>1. ASSUME NEW x \in DOMAIN entries, entries' = Acquire(x)
          PROVE  \A e \in DOMAIN entries' : Ready(e)'
      <4>1. entries[x] \in EntryRecords
        BY FieldWritten
      <4>2. /\ DOMAIN entries' = DOMAIN entries
            /\ entries'[x] = [entries[x] EXCEPT !.ref_count = @ + 1]
            /\ \A e \in DOMAIN entries \ {x} : entries'[e] = entries[e]
        BY <3>1 DEF Acquire
      <4>3. Ready(x)'
        BY <4>1, <4>2 DEF EntryRecords
      <4> QED
        BY <4>2, <4>3
    <3>2. \A i \in DOMAIN set : set[i] \in DOMAIN entries
      BY ElementOfSeq
    <3> QED
      BY <1>4, <3>1, <3>2 DEF Walk, Matching
  <2>3. \A u \in Threads : Safe(u)'
    BY <1>4 DEF Walk, Acquire
  <2> QED
    BY <2>2, <2>3
<1>5. CASE CountOut(t)
  BY <1>5 DEF CountOut
<1>6. CASE Miss(t)
  <2>2. \A e \in DOMAIN entries' : Ready(e)'
    <3>1. CASE lock = Nobody
      <4> PICK was_set \in BOOLEAN :
            entries' = Append(entries, NewEntry(read[t].first_block, was_set))
        BY <1>6, <3>1 DEF Miss
      <4> DEFINE made == NewEntry(read[t].first_block, was_set)
      <4>1. made \in EntryRecords /\ made.pending /\ made.was_set = made.condition
        BY NewEntryCovers DEF Read, NewEntry
      <4>2. entries' = Append(entries, made)
        BY <1>6, <3>1 DEF Miss
      <4> HIDE DEF made
      <4>3. ASSUME NEW e \in DOMAIN entries'
            PROVE  Ready(e)'
        <5>1. CASE e = Len(entries) + 1
          BY <4>1, <4>2, <5>1, AppendProperties
        <5>2. CASE e # Len(entries) + 1
          <6>1. e \in DOMAIN entries /\ entries'[e] = entries[e]
            BY SMTT(30), <4>1, <4>2, <5>2, AppendProperties
          <6> QED
            BY <6>1
        <5> QED
          BY <5>1, <5>2
      <4> QED
        BY <4>3
    <3>2. CASE lock # Nobody
      BY <1>6, <3>2 DEF Miss
    <3> QED
      BY <3>1, <3>2
  <2>3. \A u \in Threads : Safe(u)'
    BY <1>6 DEF Miss
  <2> QED
    BY <2>2, <2>3
<1>7. CASE SpinWait(t)
  BY <1>7 DEF SpinWait
<1>8. CASE StashCacheEntry(t)
  BY <1>8 DEF StashCacheEntry
<1>9. CASE ReadVolumeBlocks(t)
  <2>1. found[t] \in DOMAIN entries
    BY <1>9 DEF ReadVolumeBlocks, EntryCovers, Using
  <2>2. \A e \in DOMAIN entries' : Ready(e)'
    BY <1>9, <2>1, FieldWritten, EntryWritten DEF ReadVolumeBlocks, EntryRecords
  <2>3. \A u \in Threads : Safe(u)'
    BY <1>9, <2>1, FieldWritten, EntryWritten DEF ReadVolumeBlocks, EntryRecords
  <2> QED
    BY <2>2, <2>3
<1>10. CASE ClearPending(t)
  <2>1. found[t] \in DOMAIN entries
    BY <1>10 DEF ClearPending, EntryCovers, Using
  <2>2. \A e \in DOMAIN entries' : Ready(e)'
    BY <1>10, <2>1, FieldWritten, EntryWritten DEF ClearPending, EntryRecords
  <2>3. \A u \in Threads : Safe(u)'
    BY <1>10, <2>1, FieldWritten, EntryWritten DEF ClearPending, EntryRecords
  <2> QED
    BY <2>2, <2>3
<1>11. CASE SignalCondition(t)
  <2>1. found[t] \in DOMAIN entries
    BY <1>11 DEF SignalCondition, EntryCovers, Using
  <2>2. \A e \in DOMAIN entries' : Ready(e)'
    BY <1>11, <2>1, FieldWritten, EntryWritten DEF SignalCondition, Signal, EntryRecords
  <2>3. \A u \in Threads : Safe(u)'
    BY <1>11, <2>1, FieldWritten, EntryWritten DEF SignalCondition, Signal, EntryRecords
  <2> QED
    BY <2>2, <2>3
<1>12. CASE TestPending(t)
  <2>1. found[t] \in DOMAIN entries
    BY <1>12 DEF TestPending, EntryCovers, Using
  <2> QED
    BY <1>12, <2>1 DEF TestPending, MayCopy
<1>13. CASE WaitCondition(t)
  <2>1. found[t] \in DOMAIN entries
    BY <1>13 DEF WaitCondition, EntryCovers, Using
  <2> QED
    BY <1>13, <2>1 DEF WaitCondition
<1>14. CASE Copy(t)
  BY <1>14 DEF Copy
<1>15. CASE ReleaseEntry(t)
  <2>1. found[t] \in DOMAIN entries
    BY <1>15 DEF ReleaseEntry, EntryCovers, Using
  <2>2. \A e \in DOMAIN entries' : Ready(e)'
    BY SMTT(30), <1>15, <2>1, FieldWritten, EntryWritten DEF ReleaseEntry, EntryRecords
  <2>3. \A u \in Threads : Safe(u)'
    BY <1>15, <2>1, FieldWritten, EntryWritten DEF ReleaseEntry, EntryRecords
  <2> QED
    BY <2>2, <2>3
<1>16. CASE Return(t)
  BY <1>16 DEF Return
<1> QED
  BY <1>1, <1>2, <1>3, <1>4, <1>5, <1>6, <1>7, <1>8, <1>9, <1>10, <1>11, <1>12,
     <1>13, <1>14, <1>15, <1>16 DEF Step

(* What a call has copied is always the part of its request that lies      *)
(* before the next block (the loop of k_fs_PupRead).                       *)
LEMMA CopiedSoFarKept ==
  ASSUME CacheAssumption, IInv, [CacheNext]_cacheVars, Types'
  PROVE  CopiedSoFar'
<1>0. CASE UNCHANGED cacheVars
  BY <1>0 DEF IInv, cacheVars, CopiedSoFar, BeganClear, Holds
<1> SUFFICES ASSUME NEW t \in Threads,
                    Step(t) \/ \E first \in 0 .. Blocks - 1, count \in 1 .. MaxCount :
                                 PupRead(t, first, count)
             PROVE  CopiedSoFar'
  BY <1>0 DEF CacheNext
<1> DEFINE So(u) ==
      /\ read[u].from <= read[u].first_block
      /\ read[u].first_block + read[u].block_count = read[u].from + read[u].asked
      /\ BeganClear(u) => read[u].got = Run(read[u].from, read[u].first_block - read[u].from)
      /\ pc[u] = "done" => read[u].block_count = 0
<1>c. \A u \in Threads : So(u)
  BY DEF IInv, CopiedSoFar
<1> SUFFICES \A u \in Threads : So(u)'
  BY DEF CopiedSoFar
<1>d. ASSUME NEW u \in Threads, read'[u].from = read[u].from, read'[u].asked = read[u].asked
      PROVE  BeganClear(u)' => BeganClear(u)
  BY EntriesGrow, <1>d DEF Grown, BeganClear, Holds
<1> USE <1>c, <1>d DEF IInv, Types, Goto
<1>1. CASE \E first \in 0 .. Blocks - 1, count \in 1 .. MaxCount : PupRead(t, first, count)
  <2> PICK first \in 0 .. Blocks - 1, count \in 1 .. MaxCount : PupRead(t, first, count)
    BY <1>1
  <2>1. first \in Nat /\ count \in Nat
    BY DEF CacheAssumption
  <2>2. /\ read'[t] = [first_block |-> first, block_count |-> count, from |-> first,
                       asked |-> count, got |-> <<>>]
        /\ pc'[t] = "find"
    BY DEF PupRead
  <2>3. Run(first, first - first) = <<>>
    BY <2>1 DEF Run
  <2>4. So(t)'
    BY <2>1, <2>2, <2>3
  <2> QED
    BY <2>4 DEF PupRead
<1>2. CASE FindLock(t)
  BY <1>2 DEF FindLock
<1>3. CASE CountIn(t)
  BY <1>3 DEF CountIn
<1>4. CASE Walk(t)
  BY <1>4 DEF Walk
<1>5. CASE CountOut(t)
  BY <1>5 DEF CountOut
<1>6. CASE Miss(t)
  BY <1>6 DEF Miss
<1>7. CASE SpinWait(t)
  BY <1>7 DEF SpinWait
<1>8. CASE StashCacheEntry(t)
  BY <1>8 DEF StashCacheEntry
<1>9. CASE ReadVolumeBlocks(t)
  BY <1>9 DEF ReadVolumeBlocks
<1>10. CASE ClearPending(t)
  BY <1>10 DEF ClearPending
<1>11. CASE SignalCondition(t)
  BY <1>11 DEF SignalCondition
<1>12. CASE TestPending(t)
  BY <1>12 DEF TestPending
<1>13. CASE WaitCondition(t)
  BY <1>13 DEF WaitCondition
<1>14. CASE Copy(t)
  <2>1. PICK size \in Nat, copied \in Seq(Int) :
          /\ size <= read[t].block_count
          /\ read' = [read EXCEPT
               ![t].first_block = read[t].first_block + size,
               ![t].block_count = read[t].block_count - size,
               ![t].got = read[t].got \o copied]
          /\ BeganClear(t) => copied = Run(read[t].first_block, size)
    BY <1>14, CopyAppends
  <2> DEFINE r == read[t]
             done == r.first_block - r.from
  <2>2. r \in Read /\ So(t)
    BY <1>c
  <2> HIDE DEF IInv, Types
  <2>3. /\ r.from \in Nat /\ r.first_block \in Nat /\ r.block_count \in Nat /\ r.asked \in Nat
        /\ r.from <= r.first_block /\ r.first_block + r.block_count = r.from + r.asked
        /\ BeganClear(t) => r.got = Run(r.from, done)
    BY <2>2 DEF Read
  <2>4. done \in Nat /\ r.from + done = r.first_block
    BY <2>3
  <2> HIDE DEF done
  <2>5. BeganClear(t) => r.got \o copied = Run(r.from, done + size)
    <3>1. Run(r.from, done) \o Run(r.from + done, size) = Run(r.from, done + size)
      BY ZenonT(40), <2>3, <2>4, RunsJoin
    <3> QED
      BY <2>1, <2>3, <2>4, <3>1
  <2>6. done + size = (r.first_block + size) - r.from
    BY <2>3, <2>4
  <2>7. /\ read'[t].from = r.from /\ read'[t].asked = r.asked
        /\ read'[t].first_block = r.first_block + size
        /\ read'[t].block_count = r.block_count - size
        /\ read'[t].got = r.got \o copied
    BY <2>1, <2>3, <2>2 DEF IInv, Types, Read
  <2>c. BeganClear(t)' => read'[t].got = Run(r.from, (r.first_block + size) - r.from)
    BY <1>d, <2>5, <2>6, <2>7
  <2>8. pc'[t] = "release"
    BY <1>14 DEF Copy, IInv, Types
  <2>9. So(t)'
    BY <2>1, <2>3, <2>7, <2>8, <2>c
  <2>10. ASSUME NEW u \in Threads \ {t}
        PROVE  So(u)'
    BY <1>14, <2>1, <1>c DEF IInv, Types, Copy
  <2> QED
    BY <2>9, <2>10
<1>15. CASE ReleaseEntry(t)
  BY <1>15 DEF ReleaseEntry
<1>16. CASE Return(t)
  <2>1. read'[t] = NoRead /\ \A u \in Threads \ {t} : read'[u] = read[u]
    BY <1>16 DEF Return
  <2>2. NoRead.got = Run(NoRead.from, NoRead.first_block - NoRead.from)
    BY DEF NoRead, Run
  <2>4. So(t)'
    BY <2>1, <2>2 DEF NoRead
  <2> QED
    BY <1>16, <2>1, <2>4 DEF Return
<1> QED
  BY <1>1, <1>2, <1>3, <1>4, <1>5, <1>6, <1>7, <1>8, <1>9, <1>10, <1>11, <1>12,
     <1>13, <1>14, <1>15, <1>16 DEF Step

-----------------------------------------------------------------------------
(* It holds in the first state: no list, no reader, no read (pup.c).        *)
LEMMA Initially ==
  ASSUME CacheAssumption, CacheInit
  PROVE  IInv
<1> USE DEF CacheInit
<1>1. Types
  BY DEF Types, Labels, Read, NoRead
<1>2. LockHeld
  BY DEF LockHeld, Locking, CacheAssumption
<1>3. ReadersCounted
  <2>1. Counted = {}
    BY DEF Counted, Walking, CountingOut
  <2> QED
    BY <2>1, FS_EmptySet DEF ReadersCounted
<1>4. EntryCovers
  BY DEF EntryCovers, Using, CountingOut
<1>5. LoadedFirst
  BY DEF LoadedFirst
<1>6. CopiedSoFar
  BY DEF CopiedSoFar, NoRead, Run
<1> QED
  BY <1>1, <1>2, <1>3, <1>4, <1>5, <1>6 DEF IInv

(* The inductive invariant holds in every state of the cache.              *)
LEMMA Invariant ==
  ASSUME CacheAssumption
  PROVE  CacheSpec => []IInv
<1>1. CacheInit => IInv
  BY Initially
<1>2. IInv /\ [CacheNext]_cacheVars => IInv'
  <2> SUFFICES ASSUME IInv, [CacheNext]_cacheVars
               PROVE  IInv'
    OBVIOUS
  <2>1. Types'
    BY TypesKept
  <2> QED
    BY <2>1, LockHeldKept, ReadersCountedKept, EntryCoversKept, LoadedFirstKept,
       CopiedSoFarKept DEF IInv
<1> QED
  BY <1>1, <1>2, PTL DEF CacheSpec

(* The set's lock, its list, its count of readers and the entry of each    *)
(* thread are what their types say; there are never more readers counted   *)
(* than threads (k_fs_pup_cset_t, pup.h).                                  *)
THEOREM CacheTypes ==
  ASSUME CacheAssumption
  PROVE  CacheSpec => []CacheTypeOK
<1>1. ASSUME IInv
      PROVE  CacheTypeOK
  <2>1. ToSet(set) \subseteq DOMAIN entries
    BY <1>1, ElementOfSeq DEF IInv, Types, ToSet
  <2>2. read_count \in 0 .. Cardinality(Threads)
    <3>1. Counted \subseteq Threads
      BY DEF Counted
    <3>2. Cardinality(Counted) <= Cardinality(Threads) /\ Cardinality(Threads) \in Nat
      BY <3>1, FS_Subset, FS_CardinalityType DEF CacheAssumption
    <3> QED
      BY <1>1, <3>2 DEF IInv, Types, ReadersCounted
  <2> QED
    BY <1>1, <2>1, <2>2 DEF IInv, Types, CacheTypeOK
<1> QED
  BY <1>1, Invariant, PTL

(* k_fs_PupRead returns the blocks that were asked for, in order, though   *)
(* they lie in several entries that other threads may be loading, if none  *)
(* of them began with its condition set (k_fs_PupFindOrLoadCacheEntry).     *)
THEOREM ReadsRight ==
  ASSUME CacheAssumption
  PROVE  CacheSpec => []ReadsAreRight
<1>1. ASSUME IInv
      PROVE  ReadsAreRight
  <2> SUFFICES ASSUME NEW t \in Threads, pc[t] = "done", BeganClear(t)
               PROVE  read[t].got = BlocksRead(t)
    BY DEF ReadsAreRight
  <2>1. read[t] \in Read
    BY <1>1 DEF IInv, Types
  <2>2. read[t].first_block - read[t].from = read[t].asked
    BY <1>1, <2>1 DEF IInv, CopiedSoFar, Read
  <2> QED
    BY <1>1, <2>2 DEF IInv, CopiedSoFar, Run, BlocksRead
<1> QED
  BY <1>1, Invariant, PTL

(* The list of a set is written only while no thread reads it              *)
(* (k_fs_PupStashCacheEntry waits for the readers, pup.c:407).             *)
THEOREM ListStable ==
  ASSUME CacheAssumption
  PROVE  CacheSpec => ListStableWhileRead
<1> DEFINE Written == set' # set => \A t \in Threads : pc[t] \notin {"walk", "walk_again"}
<1>1. IInv /\ [CacheNext]_cacheVars => [Written]_cacheVars
  <2> SUFFICES ASSUME IInv, CacheNext, set' # set
               PROVE  \A t \in Threads : pc[t] \notin Walking
    BY DEF Walking
  <2>1. PICK t \in Threads : StashCacheEntry(t)
    BY DEF CacheNext, Step, PupRead, FindLock, CountIn, Walk, CountOut, Miss, SpinWait,
           ReadVolumeBlocks, ClearPending, SignalCondition, TestPending, WaitCondition,
           Copy, ReleaseEntry, Return
  <2>2. IsFiniteSet(Counted)
    BY FS_Subset DEF CacheAssumption, Counted
  <2>3. Counted = {}
    BY <2>1, <2>2, FS_EmptySet DEF StashCacheEntry, NoReaders, IInv, ReadersCounted
  <2> QED
    BY <2>3 DEF Counted
<1> QED
  BY <1>1, Invariant, PTL DEF CacheSpec, ListStableWhileRead

-----------------------------------------------------------------------------
(* Volumes: threads, sizes of blocks (of more than a byte) and of bytes,   *)
(* the number that sizes wrap at and numbers of blocks are any.            *)

Roots == {Root(count) : count \in Counts}
Disks == [root : Roots, bitmask : SUBSET Nat, node : {RootNodeBlock}]
Volumes == [mounted : {TRUE}, root : Roots, block_bitmask : SUBSET Nat]
Searches == [index : Int, byte : SUBSET Nat, read : BOOLEAN]

(* The bits that are searched on a volume with this root. *)
FreeOf(root) == (root.block_count - root.alloc_start) % Wrap
Indices(root) == 0 .. FreeOf(root) - 1

(* The marks that count: in memory while the volume is mounted, on the disk *)
(* before and after. *)
Marks == IF volume.mounted THEN volume.block_bitmask ELSE disk.bitmask

-----------------------------------------------------------------------------
(* The parts of the inductive invariant. *)
VolumeTypes ==
  /\ disk \in Disks \cup {Unformatted}
  /\ volume \in Volumes \cup {Unmounted}
  /\ alloc \in [Allocators -> Searches]
  /\ owned \subseteq Allocators \X Nat \X Nat
  /\ mounts \in Nat

(* A mounted volume is the formatted one on the disk. *)
SameVolume == volume # Unmounted => disk \in Disks /\ volume.root = disk.root

(* Threads search mounted volumes; one that is about to swap a byte has    *)
(* read the bit it wants as clear.                                         *)
SearchesRight ==
  \A t \in Allocators :
    /\ alloc[t] # Idle => volume # Unmounted /\ alloc[t].index \in Nat
    /\ alloc[t].read => /\ alloc[t].index \in Indices(volume.root)
                        /\ alloc[t].index \notin alloc[t].byte

(* Every block that is given out has its mark, and is one of the volume's. *)
OwnedMarked ==
  /\ owned # {} => disk \in Disks
  /\ \A a \in owned :
       /\ a[2] - disk.root.alloc_start \in Marks
       /\ a[2] - disk.root.alloc_start \in Indices(disk.root)

VolumeInv ==
  /\ VolumeTypes /\ SameVolume /\ SearchesRight
  /\ VolumeFits => OwnedMarked /\ BlocksGivenOnce

-----------------------------------------------------------------------------
(* The layout of pup_FormatVolume, of any number of blocks and of one that *)
(* fits: the blocks to give out begin behind the bitmask, which has a bit  *)
(* for each of them.                                                       *)
LEMMA AnyLayout ==
  ASSUME VolumeAssumption, NEW count \in Counts
  PROVE  /\ Bytes(count) \in Nat /\ BitmaskBlocks(count) \in Nat \ {0}
         /\ AllocStart(count) \in Nat
         /\ AllocStart(count) >= BitmaskStart + BitmaskBlocks(count)
<1> DEFINE byte == BlockBytes * ByteBits
           blocks == Bytes(count) \div (byte + 1)
           start == BitmaskStart + BitmaskBlocks(count)
<1>1. /\ count \in Nat /\ BlockBytes \in Nat /\ ByteBits \in Nat /\ Wrap \in Nat /\ Wrap > 0
  BY DEF VolumeAssumption
<1>2. byte \in Nat /\ count * BlockBytes \in Nat
  BY <1>1, Z3
<1>3. Bytes(count) \in Nat
  <2>1. \A size \in Nat : size % Wrap \in Nat
    BY <1>1
  <2> QED
    BY <1>2, <2>1 DEF Bytes
<1>4. blocks \in Nat
  <2> HIDE DEF byte
  <2> QED
    BY <1>2, <1>3, Z3
<1>5. BitmaskBlocks(count) = IF blocks = 0 THEN 1 ELSE blocks
  BY DEF BitmaskBlocks
<1>6. start \in Nat /\ start = BitmaskBlocks(count) + 2
  BY <1>4, <1>5 DEF BitmaskStart
<1>7. AllocStart(count) \in Nat /\ AllocStart(count) >= start
  <2> HIDE DEF start
  <2>1. AllocStart(count) = ((start + 3) \div 4) * 4
    BY DEF AllocStart, start
  <2> QED
    BY <1>6, <2>1, Z3
<1> QED
  BY <1>3, <1>4, <1>5, <1>7

LEMMA Layout ==
  ASSUME VolumeAssumption, NEW count \in Counts, Fits(count)
  PROVE  /\ count - AllocStart(count) <= BitmaskBlocks(count) * BlockBytes * ByteBits
         /\ (count - AllocStart(count)) % Wrap = count - AllocStart(count)
<1> DEFINE byte == BlockBytes * ByteBits
           size == count * BlockBytes
           blocks == size \div (byte + 1)
<1>1. /\ count \in Nat /\ BlockBytes \in Nat /\ BlockBytes >= 2 /\ ByteBits \in Nat
      /\ ByteBits >= 1 /\ Wrap \in Nat /\ Wrap > 0
  BY DEF VolumeAssumption
<1>2. byte \in Nat /\ byte >= 2 * ByteBits /\ byte >= 2 /\ size \in Nat /\ size >= 2 * count
  BY <1>1, Z3
<1>3. /\ size < Wrap /\ AllocStart(count) <= count /\ AllocStart(count) \in Nat
      /\ AllocStart(count) >= BitmaskBlocks(count) + 2
  BY AnyLayout DEF Fits, BitmaskStart
<1>4. Bytes(count) = size
  <2>1. \A n \in Nat : n < Wrap => n % Wrap = n
    BY <1>1
  <2> QED
    BY <1>2, <1>3, <2>1 DEF Bytes
<1>5. blocks \in Nat /\ size < (blocks + 1) * (byte + 1)
  <2> HIDE DEF byte, size
  <2> QED
    BY <1>2, Z3
<1>6. BitmaskBlocks(count) = IF blocks = 0 THEN 1 ELSE blocks
  BY <1>4 DEF BitmaskBlocks
<1>7. count - AllocStart(count) <= BitmaskBlocks(count) * byte
  <2>1. CASE blocks = 0
    BY <1>1, <1>2, <1>3, <1>5, <1>6, <2>1
  <2>2. CASE blocks # 0
    <3> HIDE DEF blocks, byte, size
    <3>1. (blocks + 1) * (byte + 1) = blocks * byte + blocks + byte + 1
      BY <1>2, <1>5, Z3
    <3>2. blocks * byte \in Nat /\ blocks * byte >= byte
      BY <1>2, <1>5, <2>2, Z3
    <3>3. 2 * count <= 2 * (blocks * byte) + blocks
      BY <1>1, <1>2, <1>5, <3>1, <3>2
    <3> QED
      BY <1>1, <1>3, <1>5, <1>6, <2>2, <3>2, <3>3
  <2> QED
    BY <1>5, <2>1, <2>2
<1>8. BitmaskBlocks(count) * byte = BitmaskBlocks(count) * BlockBytes * ByteBits
  BY <1>1, <1>5, <1>6, Z3
<1>9. count - AllocStart(count) \in Nat /\ count - AllocStart(count) < Wrap
  BY <1>1, <1>2, <1>3
<1>10. (count - AllocStart(count)) % Wrap = count - AllocStart(count)
  <2>1. \A n \in Nat : n < Wrap => n % Wrap = n
    BY <1>1
  <2> QED
    BY <1>9, <2>1
<1> QED
  BY <1>7, <1>8, <1>10

(* The same, of any root record that a format writes.                      *)
LEMMA RootLayout ==
  ASSUME VolumeAssumption, NEW root \in Roots
  PROVE  /\ root.block_count \in Nat
         /\ root.alloc_start \in Nat
         /\ root.bitmask_block_count \in Nat \ {0}
         /\ root.alloc_start >= BitmaskStart + root.bitmask_block_count
         /\ FreeOf(root) \in Nat
         /\ Indices(root) \subseteq Nat
         /\ Fits(root.block_count) =>
              /\ root.block_count - root.alloc_start
                   <= root.bitmask_block_count * BlockBytes * ByteBits
              /\ Indices(root) = 0 .. root.block_count - root.alloc_start - 1
<1>1. PICK count \in Counts : root = Root(count)
  BY DEF Roots
<1>2. /\ root.block_count = count /\ root.alloc_start = AllocStart(count)
      /\ root.bitmask_block_count = BitmaskBlocks(count) /\ count \in Nat
  BY <1>1 DEF Root, VolumeAssumption
<1>3. /\ BitmaskBlocks(count) \in Nat \ {0} /\ AllocStart(count) \in Nat
      /\ AllocStart(count) >= BitmaskStart + BitmaskBlocks(count)
  BY AnyLayout
<1>4. FreeOf(root) \in Nat
  <2>1. Wrap \in Nat /\ Wrap > 0
    BY DEF VolumeAssumption
  <2>2. \A n \in Int : n % Wrap \in Nat
    BY <2>1
  <2>3. root.block_count - root.alloc_start \in Int
    BY <1>2, <1>3
  <2> QED
    BY <2>2, <2>3 DEF FreeOf
<1>5. Indices(root) \subseteq Nat
  BY DEF Indices
<1>6. ASSUME Fits(root.block_count)
      PROVE  /\ root.block_count - root.alloc_start
                  <= root.bitmask_block_count * BlockBytes * ByteBits
             /\ Indices(root) = 0 .. root.block_count - root.alloc_start - 1
  BY <1>2, <1>6, Layout DEF Indices, FreeOf
<1> QED
  BY <1>2, <1>3, <1>4, <1>5, <1>6

(* On a volume that fits the search stays inside the bitmask.              *)
LEMMA SearchInside ==
  ASSUME VolumeAssumption, NEW root \in Roots, Fits(root.block_count), volume.root = root,
         NEW i \in Indices(root)
  PROVE  ~Outside(i) /\ i \in Nat /\ i < Free /\ Free \in Nat
<1>1. PICK n \in Nat : n = FreeOf(root)
  BY RootLayout
<1>2. PICK b \in Nat : b = root.bitmask_block_count * BlockBytes * ByteBits
  <2>1. root.bitmask_block_count \in Nat /\ BlockBytes \in Nat /\ ByteBits \in Nat
    BY RootLayout DEF VolumeAssumption
  <2> QED
    BY <2>1, Z3
<1>3. PICK l \in Int : l = root.block_count - root.alloc_start
  BY RootLayout
<1>4. i \in 0 .. l - 1 /\ l <= b
  BY <1>2, <1>3, RootLayout
<1>5. i \in 0 .. n - 1 /\ Free = n
  BY <1>1 DEF Indices, Free, FreeOf
<1>6. ~(i >= b)
  BY <1>4
<1> QED
  BY <1>2, <1>5, <1>6 DEF Outside

(* No step leaves the types: pup_FormatVolume, mounting, unmounting and    *)
(* pup_AllocBlock.                                                         *)
LEMMA VolumeTypesKept ==
  ASSUME VolumeAssumption, VolumeInv, [VolumeNext]_volumeVars
  PROVE  VolumeTypes'
<1> USE DEF VolumeInv, VolumeTypes
<1>1. ASSUME NEW count \in Counts, FormatPartition(count)
      PROVE  VolumeTypes'
  BY <1>1 DEF FormatPartition, PupFormatVolume, PupMountVolume, Disks, Volumes, Roots
<1>2. CASE MountVolume
  BY <1>2 DEF MountVolume, PupMountVolume, Disks, Volumes
<1>3. CASE UnmountVolume
  <2>1. volume \in Volumes /\ disk \in Disks
    BY <1>3 DEF UnmountVolume, SameVolume
  <2> QED
    BY <1>3, <2>1 DEF UnmountVolume, PupUnmountVolume, WrittenBack, Disks, Volumes
<1>4. ASSUME NEW t \in Allocators, AllocBlock(t)
      PROVE  VolumeTypes'
  BY <1>4 DEF AllocBlock, Searches
<1>5. ASSUME NEW t \in Allocators, ReadByte(t)
      PROVE  VolumeTypes'
  <2>1. volume \in Volumes /\ alloc[t].index \in Nat
    BY <1>5 DEF ReadByte, SearchesRight
  <2>2. \A byte \in BytesRead(alloc[t].index) : byte \in SUBSET Nat
    BY <2>1 DEF BytesRead, ByteOf, Volumes
  <2>3. Idle \in Searches
    BY DEF Idle, Searches
  <2>4. PICK byte \in BytesRead(alloc[t].index) : alloc' = [alloc EXCEPT ![t] =
          IF alloc[t].index >= Free THEN Idle
          ELSE IF alloc[t].index \in byte THEN [@ EXCEPT !.index = alloc[t].index + 1]
          ELSE [index |-> alloc[t].index, byte |-> byte, read |-> TRUE]]
    BY <1>5 DEF ReadByte
  <2>5. [alloc[t] EXCEPT !.index = alloc[t].index + 1] \in Searches
    BY <2>1 DEF Searches
  <2>6. [index |-> alloc[t].index, byte |-> byte, read |-> TRUE] \in Searches
    BY <2>1, <2>2, <2>4 DEF Searches
  <2>7. alloc' \in [Allocators -> Searches]
    BY <2>3, <2>4, <2>5, <2>6
  <2> QED
    BY <1>5, <2>7 DEF ReadByte
<1>6. ASSUME NEW t \in Allocators, GetBlock(t)
      PROVE  VolumeTypes'
  <2>1. /\ volume \in Volumes /\ alloc[t].index \in Nat /\ alloc[t] \in Searches
    BY <1>6 DEF GetBlock, SearchesRight, Idle
  <2>2. volume.root.alloc_start \in Nat
    BY <2>1, RootLayout DEF Volumes
  <2>3. Swapped(t) \in SUBSET Nat
    BY <2>1 DEF Swapped, Volumes, Searches
  <2>4. alloc' \in [Allocators -> Searches]
    BY <1>6 DEF GetBlock, Idle, Searches
  <2>5. volume' \in Volumes
    BY <1>6, <2>1, <2>3 DEF GetBlock, Volumes
  <2>6. owned' \subseteq Allocators \X Nat \X Nat
    <3>1. <<t, volume.root.alloc_start + alloc[t].index, mounts>> \in Allocators \X Nat \X Nat
      BY <2>1, <2>2
    <3> QED
      BY <1>6, <3>1 DEF GetBlock
  <2> QED
    BY <1>6, <2>4, <2>5, <2>6 DEF GetBlock
<1>8. ASSUME NEW t \in Allocators, SearchAgain(t)
      PROVE  VolumeTypes'
  BY <1>8 DEF SearchAgain, Searches
<1>7. CASE UNCHANGED volumeVars
  BY <1>7 DEF volumeVars
<1> QED
  BY <1>1, <1>2, <1>3, <1>4, <1>5, <1>6, <1>7, <1>8 DEF VolumeNext

(* A mount takes the root record and the bitmask from the disk, and        *)
(* nothing writes the disk while the volume is mounted.                    *)
LEMMA SameVolumeKept ==
  ASSUME VolumeAssumption, VolumeInv, [VolumeNext]_volumeVars, VolumeTypes'
  PROVE  SameVolume'
<1> USE DEF VolumeInv, VolumeTypes, SameVolume
<1>1. ASSUME NEW count \in Counts, FormatPartition(count)
      PROVE  SameVolume'
  <2>1. disk' = [root |-> Root(count), bitmask |-> {}, node |-> RootNodeBlock]
    BY <1>1 DEF FormatPartition, PupFormatVolume
  <2>2. volume'.root = Root(count)
    BY <1>1 DEF FormatPartition, PupMountVolume
  <2> QED
    BY <2>1, <2>2 DEF Disks, Roots
<1>2. CASE MountVolume
  BY <1>2 DEF MountVolume, PupMountVolume
<1>3. CASE UnmountVolume
  BY <1>3 DEF UnmountVolume, PupUnmountVolume
<1>4. ASSUME NEW t \in Allocators, AllocBlock(t) \/ ReadByte(t) \/ SearchAgain(t)
      PROVE  SameVolume'
  BY <1>4 DEF AllocBlock, ReadByte, SearchAgain
<1>5. ASSUME NEW t \in Allocators, GetBlock(t)
      PROVE  SameVolume'
  <2>1. volume \in Volumes /\ volume # Unmounted
    BY <1>5 DEF GetBlock, SearchesRight, Idle
  <2> QED
    BY <1>5, <2>1 DEF GetBlock, Volumes
<1>6. CASE UNCHANGED volumeVars
  BY <1>6 DEF volumeVars
<1> QED
  BY <1>1, <1>2, <1>3, <1>4, <1>5, <1>6 DEF VolumeNext

(* A search begins on a mounted volume, which nobody unmounts under it, and *)
(* goes for a bit that it has read as clear.                               *)
LEMMA SearchesKept ==
  ASSUME VolumeAssumption, VolumeInv, [VolumeNext]_volumeVars, VolumeTypes'
  PROVE  SearchesRight'
<1> USE DEF VolumeInv, VolumeTypes, SearchesRight
<1>1. ASSUME NEW count \in Counts, FormatPartition(count)
      PROVE  SearchesRight'
  BY <1>1 DEF FormatPartition, Idle
<1>2. CASE MountVolume
  BY <1>2 DEF MountVolume, Idle
<1>3. CASE UnmountVolume
  BY <1>3 DEF UnmountVolume, Idle
<1>4. ASSUME NEW t \in Allocators, AllocBlock(t)
      PROVE  SearchesRight'
  BY <1>4 DEF AllocBlock
<1>5. ASSUME NEW t \in Allocators, ReadByte(t)
      PROVE  SearchesRight'
  <2>1. /\ volume \in Volumes /\ volume # Unmounted /\ volume' = volume
        /\ alloc[t].index \in Nat
    BY <1>5 DEF ReadByte
  <2>2. Free \in Nat /\ Indices(volume.root) = 0 .. Free - 1
    BY <2>1, RootLayout DEF Volumes, Free, FreeOf, Indices
  <2> DEFINE i == alloc[t].index
  <2>3. PICK byte \in BytesRead(i) : alloc' = [alloc EXCEPT ![t] =
          IF i >= Free THEN Idle
          ELSE IF i \in byte THEN [@ EXCEPT !.index = i + 1]
          ELSE [index |-> i, byte |-> byte, read |-> TRUE]]
    BY <1>5 DEF ReadByte
  <2>4. CASE i >= Free
    BY <2>1, <2>3, <2>4 DEF Idle
  <2>5. CASE i < Free /\ i \in byte
    <3>1. alloc' = [alloc EXCEPT ![t] = [@ EXCEPT !.index = i + 1]]
      <4>1. ~(i >= Free)
        BY <2>1, <2>2, <2>5
      <4> QED
        BY <2>3, <2>5, <4>1
    <3>2. alloc'[t].index = i + 1 /\ alloc'[t].read = FALSE
      BY <1>5, <3>1 DEF ReadByte, Searches
    <3> QED
      BY <2>1, <3>1, <3>2
  <2>6. CASE i < Free /\ i \notin byte
    <3>1. alloc' = [alloc EXCEPT ![t] = [index |-> i, byte |-> byte, read |-> TRUE]]
      <4>1. ~(i >= Free)
        BY <2>1, <2>2, <2>6
      <4> QED
        BY <2>3, <2>6, <4>1
    <3>2. i \in Indices(volume.root)
      BY <2>1, <2>2, <2>6
    <3> QED
      BY <2>1, <2>6, <3>1, <3>2
  <2> QED
    BY <2>1, <2>2, <2>4, <2>5, <2>6
<1>6. ASSUME NEW t \in Allocators, GetBlock(t) \/ SearchAgain(t)
      PROVE  SearchesRight'
  <2>1. volume \in Volumes /\ volume # Unmounted
    BY <1>6 DEF GetBlock, SearchAgain, Idle
  <2>2. volume'.mounted = TRUE /\ volume'.root = volume.root
    BY <1>6, <2>1 DEF GetBlock, SearchAgain, Volumes
  <2>3. volume' # Unmounted
    BY <2>2 DEF Unmounted
  <2>4. /\ alloc'[t].read = FALSE /\ (alloc'[t] # Idle => alloc'[t].index \in Nat)
        /\ \A u \in Allocators \ {t} : alloc'[u] = alloc[u]
    BY <1>6 DEF GetBlock, SearchAgain, Idle
  <2> QED
    BY <2>1, <2>2, <2>3, <2>4
<1>7. CASE UNCHANGED volumeVars
  BY <1>7 DEF volumeVars
<1> QED
  BY <1>1, <1>2, <1>3, <1>4, <1>5, <1>6, <1>7 DEF VolumeNext

(* What AllocBlock swaps in is what was there with one bit more.           *)
LEMMA OneMarkMore ==
  ASSUME VolumeAssumption, VolumeInv, NEW t \in Allocators, alloc[t].read, SameByte(t),
         volume.root \in Roots, Fits(volume.root.block_count)
  PROVE  /\ Swapped(t) = volume.block_bitmask \cup {alloc[t].index}
         /\ alloc[t].index \notin volume.block_bitmask
<1>1. /\ volume \in Volumes /\ alloc[t].index \in Indices(volume.root)
      /\ alloc[t].index \notin alloc[t].byte
  BY DEF VolumeInv, VolumeTypes, SearchesRight, Idle
<1>2. /\ alloc[t].index \in Nat /\ alloc[t].index < Free /\ Free \in Nat
      /\ ~Outside(alloc[t].index)
  BY <1>1, SearchInside
<1>3. alloc[t].index \in ByteOf(alloc[t].index)
  BY <1>1, <1>2 DEF ByteOf
<1>4. volume.block_bitmask \cap ByteOf(alloc[t].index) = alloc[t].byte
  BY DEF SameByte
<1> QED
  BY <1>1, <1>2, <1>3, <1>4 DEF Swapped

(* Marks are only added, by the swap; unmounting and mounting move them    *)
(* from memory to the disk and back.                                       *)
LEMMA OwnedKept ==
  ASSUME VolumeAssumption, VolumeInv, [VolumeNext]_volumeVars, VolumeTypes'
  PROVE  (VolumeFits => OwnedMarked /\ BlocksGivenOnce)'
<1> USE DEF VolumeInv, VolumeTypes, OwnedMarked, BlocksGivenOnce, VolumeFits
<1>1. ASSUME NEW count \in Counts, FormatPartition(count)
      PROVE  (VolumeFits => OwnedMarked /\ BlocksGivenOnce)'
  BY <1>1 DEF FormatPartition
<1>2. CASE MountVolume
  <2>1. ~volume.mounted
    BY <1>2 DEF MountVolume, Unmounted
  <2>2. volume'.mounted /\ volume'.block_bitmask = disk.bitmask
    BY <1>2 DEF MountVolume, PupMountVolume
  <2> QED
    BY <1>2, <2>1, <2>2 DEF MountVolume, Marks
<1>3. CASE UnmountVolume
  <2>1. volume \in Volumes /\ disk \in Disks /\ volume.mounted
    BY <1>3 DEF UnmountVolume, SameVolume, Volumes
  <2>2. disk' = [disk EXCEPT !.bitmask = volume.block_bitmask] /\ ~volume'.mounted
    BY <1>3 DEF UnmountVolume, PupUnmountVolume, WrittenBack, Unmounted
  <2>3. disk' \in Disks /\ disk'.root = disk.root /\ disk'.bitmask = volume.block_bitmask
    BY <2>1, <2>2 DEF Disks, Volumes
  <2> QED
    <3>1. disk # Unformatted /\ disk' # Unformatted
      BY <2>1, <2>3 DEF Disks, Unformatted
    <3>2. VolumeFits' => VolumeFits
      BY <2>3, <3>1
    <3>3. (OwnedMarked /\ BlocksGivenOnce) => (OwnedMarked /\ BlocksGivenOnce)'
      BY <1>3, <2>1, <2>2, <2>3 DEF UnmountVolume, Marks
    <3> QED
      BY <3>2, <3>3
<1>4. ASSUME NEW t \in Allocators, AllocBlock(t) \/ ReadByte(t) \/ SearchAgain(t)
      PROVE  (VolumeFits => OwnedMarked /\ BlocksGivenOnce)'
  BY <1>4 DEF AllocBlock, ReadByte, SearchAgain, Marks
<1>5. ASSUME NEW t \in Allocators, GetBlock(t), VolumeFits
      PROVE  OwnedMarked' /\ BlocksGivenOnce'
  <2> DEFINE i == alloc[t].index
             start == disk.root.alloc_start
             new == <<t, start + i, mounts>>
  <2>1. /\ volume \in Volumes /\ volume.mounted /\ disk \in Disks /\ volume.root = disk.root
        /\ i \in Indices(disk.root)
    <3>1. alloc[t].read /\ alloc[t] # Idle
      BY <1>5 DEF GetBlock, Idle
    <3>2. volume # Unmounted /\ i \in Indices(volume.root)
      BY <3>1 DEF SearchesRight
    <3> QED
      BY <3>2 DEF SameVolume, Volumes
  <2>2. disk.root \in Roots /\ Fits(disk.root.block_count)
    BY <1>5, <2>1 DEF Disks, Unformatted
  <2>3. ~Outside(i) /\ i \in Nat /\ start \in Nat
    BY <2>1, <2>2, SearchInside, RootLayout
  <2>4. alloc[t].read /\ SameByte(t)
    BY <1>5, <2>3 DEF GetBlock
  <2>5. /\ Swapped(t) = volume.block_bitmask \cup {i}
        /\ i \notin volume.block_bitmask
    BY <2>1, <2>2, <2>4, OneMarkMore
  <2>6. /\ owned' = owned \cup {new} /\ disk' = disk
        /\ Marks' = Marks \cup {i}
    BY <1>5, <2>1, <2>5 DEF GetBlock, Marks, Volumes
  <2>7. new[2] - start = i
    BY <2>3
  <2>8. OwnedMarked'
    BY <1>5, <2>1, <2>6, <2>7
  <2>9. Marks = volume.block_bitmask
    BY <2>1 DEF Marks
  <2>10. \A a \in owned : a[2] # new[2]
    BY <1>5, <2>5, <2>7, <2>9
  <2>11. BlocksGivenOnce'
    BY <1>5, <2>6, <2>10
  <2> QED
    BY <2>8, <2>11
<1>7. ASSUME NEW t \in Allocators, GetBlock(t)
      PROVE  (VolumeFits => OwnedMarked /\ BlocksGivenOnce)'
  BY <1>5, <1>7 DEF GetBlock
<1>6. CASE UNCHANGED volumeVars
  BY <1>6 DEF volumeVars, Marks
<1> QED
  BY <1>1, <1>2, <1>3, <1>4, <1>6, <1>7 DEF VolumeNext

(* The inductive invariant holds in every state of the volume.             *)
LEMMA VolumeInvariant ==
  ASSUME VolumeAssumption
  PROVE  VolumeSpec => []VolumeInv
<1>1. VolumeInit => VolumeInv
  BY DEF VolumeInit, VolumeInv, VolumeTypes, Searches, Idle, SameVolume, SearchesRight, OwnedMarked,
         BlocksGivenOnce
<1>2. VolumeInv /\ [VolumeNext]_volumeVars => VolumeInv'
  BY VolumeTypesKept, SameVolumeKept, SearchesKept, OwnedKept DEF VolumeInv
<1> QED
  BY <1>1, <1>2, PTL DEF VolumeSpec

(* pup_AllocBlock gives each block to one caller, never one that holds the *)
(* volume's own tables, and the blocks set aside for the bitmask are       *)
(* enough for it, on every volume that pup_FormatVolume makes of a size    *)
(* that a uint32_t holds and that leaves a block behind the tables.        *)
THEOREM OwnersRight ==
  ASSUME VolumeAssumption
  PROVE  VolumeSpec => []BlocksAreOwners
<1>1. ASSUME VolumeInv, VolumeFits
      PROVE  BlocksGivenOnce /\ BlocksOutsideMetadata /\ BitmaskLargeEnough
  <2> USE <1>1 DEF VolumeInv, VolumeTypes
  <2>1. BlocksOutsideMetadata
    <3> SUFFICES ASSUME NEW a \in owned
                 PROVE  /\ a[2] \notin {0, RootNodeBlock}
                        /\ a[2] \notin BitmaskStart .. BitmaskStart + disk.root.bitmask_block_count - 1
                        /\ a[2] < disk.root.block_count
      BY DEF BlocksOutsideMetadata
    <3>1. disk.root \in Roots /\ a[2] \in Nat
          /\ a[2] - disk.root.alloc_start \in Indices(disk.root)
      BY <1>1 DEF OwnedMarked, Disks
    <3>2. Fits(disk.root.block_count)
      BY <1>1 DEF VolumeFits, OwnedMarked, Disks, Unformatted
    <3>3. PICK x \in Nat, start \in Nat, count \in Nat, tables \in Nat :
            /\ x = a[2] /\ start = disk.root.alloc_start /\ count = disk.root.block_count
            /\ tables = disk.root.bitmask_block_count /\ start >= 2 + tables
      BY <3>1, RootLayout DEF BitmaskStart
    <3>4. x - start \in 0 .. count - start - 1
      BY <3>1, <3>2, <3>3, RootLayout
    <3>5. x >= start /\ x < count
      BY <3>4
    <3> QED
      BY <3>3, <3>5 DEF RootNodeBlock, BitmaskStart
  <2>2. BitmaskLargeEnough
    BY <1>1, RootLayout DEF BitmaskLargeEnough, Disks, VolumeFits
  <2> QED
    BY <2>1, <2>2
<1> QED
  <2>1. VolumeInv => BlocksAreOwners
    BY <1>1 DEF BlocksAreOwners
  <2> QED
    BY <2>1, VolumeInvariant, PTL

-----------------------------------------------------------------------------
(* The pages of cache entries.                                             *)

Entries == [page : Pages, k : 1 .. PerPage]

PageTypes ==
  /\ entry_pages \in Seq(Pages) /\ freeable \in Seq(Pages) /\ in_use \subseteq Entries
  /\ free_entries \in [Pages -> Seq(Entries)] /\ index \in [Pages -> Nat]

(* No page is twice in the lists, and each knows its place. *)
Different(s) == \A i, j \in 1 .. Len(s) : s[i] = s[j] => i = j

ListsRight ==
  /\ Different(entry_pages) /\ Different(freeable)
  /\ \A i \in 1 .. Len(entry_pages), j \in 1 .. Len(freeable) : entry_pages[i] # freeable[j]
  /\ \A i \in 1 .. Len(entry_pages) : index[entry_pages[i]] = i - 1

(* The entries in use that are cut from page p, and those that are free. *)
UsedOf(p) == {e \in in_use : e.page = p}

EntriesRight(p) ==
  /\ Different(free_entries[p])
  /\ \A i \in 1 .. Len(free_entries[p]) :
       free_entries[p][i].page = p /\ free_entries[p][i] \notin in_use
  /\ IsFiniteSet(UsedOf(p))
  /\ Len(free_entries[p]) + Cardinality(UsedOf(p)) = PerPage

(* The place c where the next allocation begins. *)
CursorRight ==
  \E c \in 1 .. Len(entry_pages) :
    cur_page = entry_pages[c] /\ \A i \in 1 .. c - 1 : free_entries[entry_pages[i]] = <<>>

PagesInv ==
  /\ PageTypes /\ ListsRight /\ CursorRight
  /\ \A i \in 1 .. Len(entry_pages) : EntriesRight(entry_pages[i])
  /\ \A e \in in_use : \E i \in 1 .. Len(entry_pages) : e.page = entry_pages[i]

-----------------------------------------------------------------------------
LEMMA PlaceOf ==
  ASSUME PageTypes, Different(entry_pages), NEW i \in 1 .. Len(entry_pages)
  PROVE  Position(entry_pages[i]) = i
<1>1. DOMAIN entry_pages = 1 .. Len(entry_pages)
  BY DEF PageTypes
<1> QED
  BY <1>1 DEF Position, Different

(* A list without the k-th of its members. *)
LEMMA Removed ==
  ASSUME NEW S, NEW s \in Seq(S), NEW k \in 1 .. Len(s)
  PROVE  /\ RemoveAt(s, k) \in Seq(S) /\ Len(RemoveAt(s, k)) = Len(s) - 1
         /\ \A i \in 1 .. k - 1 : RemoveAt(s, k)[i] = s[i]
         /\ \A i \in k .. Len(s) - 1 : RemoveAt(s, k)[i] = s[i + 1]
<1>1. PICK n \in Nat : n = Len(s)
  BY LenProperties
<1>2. PICK a \in Seq(S) : /\ a = SubSeq(s, 1, k - 1) /\ Len(a) = k - 1
                          /\ \A i \in 1 .. k - 1 : a[i] = s[i]
  <2>1. \A i \in 1 .. k - 1 : s[i] \in S
    BY <1>1, ElementOfSeq
  <2>2. SubSeq(s, 1, k - 1) \in Seq(S)
    BY <1>1, <2>1, SubSeqProperties
  <2>3. Len(SubSeq(s, 1, k - 1)) = k - 1 /\ \A i \in 1 .. k - 1 : SubSeq(s, 1, k - 1)[i] = s[i]
    BY <1>1
  <2> QED
    BY <2>2, <2>3
<1>3. PICK b \in Seq(S) : /\ b = SubSeq(s, k + 1, n) /\ Len(b) = n - k
                          /\ \A i \in 1 .. n - k : b[i] = s[i + k]
  <2>1. \A i \in k + 1 .. n : s[i] \in S
    BY <1>1, ElementOfSeq
  <2>2. SubSeq(s, k + 1, n) \in Seq(S)
    BY <1>1, <2>1, SubSeqProperties
  <2>3. /\ Len(SubSeq(s, k + 1, n)) = n - k
        /\ \A i \in 1 .. n - k : SubSeq(s, k + 1, n)[i] = s[i + k]
    BY <1>1
  <2> QED
    BY <2>2, <2>3
<1>4. PICK r \in Seq(S) : r = RemoveAt(s, k) /\ r = a \o b
  BY <1>1, <1>2, <1>3, ConcatProperties DEF RemoveAt
<1>5. /\ Len(r) = Len(a) + Len(b)
      /\ \A i \in 1 .. Len(a) + Len(b) : r[i] = IF i <= Len(a) THEN a[i] ELSE b[i - Len(a)]
  BY <1>4, ConcatProperties
<1>6. Len(r) = n - 1
  BY <1>1, <1>2, <1>3, <1>5
<1>9. Len(a) = k - 1 /\ Len(b) = n - k /\ k \in 1 .. n
  BY <1>1, <1>2, <1>3
<1>7. ASSUME NEW i \in 1 .. k - 1 PROVE r[i] = s[i]
  <2>1. i \in 1 .. Len(a) + Len(b) /\ i <= Len(a)
    BY <1>9
  <2> QED
    BY <1>2, <1>5, <2>1
<1>8. ASSUME NEW i \in k .. n - 1 PROVE r[i] = s[i + 1]
  <2>1. i \in 1 .. Len(a) + Len(b) /\ ~ (i <= Len(a)) /\ i - Len(a) = i - (k - 1)
    BY <1>9
  <2>2. r[i] = b[i - (k - 1)]
    BY <1>5, <2>1
  <2>3. i - (k - 1) \in 1 .. n - k /\ (i - (k - 1)) + k = i + 1
    BY <1>1
  <2> QED
    BY <1>3, <2>2, <2>3
<1> QED
  BY <1>1, <1>4, <1>6, <1>7, <1>8

(* The first of the free entries q of page p is given out. *)
LEMMA GiveRight ==
  ASSUME PageTypes, NEW p \in Pages, NEW q \in Seq(Entries), q # <<>>, Different(q),
         \A i \in 1 .. Len(q) : q[i].page = p /\ q[i] \notin in_use,
         IsFiniteSet(UsedOf(p)), Len(q) + Cardinality(UsedOf(p)) = PerPage,
         Give(p, q)
  PROVE  /\ EntriesRight(p)'
         /\ \A r \in Pages \ {p} : EntriesRight(r) => EntriesRight(r)'
         /\ Head(q) \in Entries /\ Head(q).page = p /\ in_use' = in_use \cup {Head(q)}
         /\ free_entries' \in [Pages -> Seq(Entries)] /\ in_use' \subseteq Entries
         /\ \A r \in Pages \ {p} : free_entries'[r] = free_entries[r]
<1>1. PICK h \in Entries, m \in Nat, u \in Seq(Entries) :
        /\ h = Head(q) /\ h = q[1] /\ m = Len(u) /\ Len(q) = m + 1
        /\ u = Tail(q) /\ \A i \in 1 .. m : u[i] = q[i + 1]
  <2>1. /\ Head(q) \in Entries /\ Head(q) = q[1] /\ Tail(q) \in Seq(Entries)
        /\ Len(Tail(q)) \in Nat /\ Len(q) = Len(Tail(q)) + 1
        /\ \A i \in 1 .. Len(Tail(q)) : Tail(q)[i] = q[i + 1]
    OBVIOUS
  <2> QED
    BY <2>1
<1>2. /\ free_entries' = [free_entries EXCEPT ![p] = u] /\ in_use' = in_use \cup {h}
      /\ free_entries \in [Pages -> Seq(Entries)] /\ in_use \subseteq Entries
  BY <1>1 DEF Give, PageTypes
<1>3. h.page = p /\ h \notin in_use
  BY <1>1
<1>4. UsedOf(p)' = UsedOf(p) \cup {h} /\ h \notin UsedOf(p)
  BY <1>2, <1>3 DEF UsedOf
<1>5. /\ IsFiniteSet(UsedOf(p))' /\ Cardinality(UsedOf(p)') = Cardinality(UsedOf(p)) + 1
      /\ Cardinality(UsedOf(p)) \in Nat
  BY <1>4, FS_AddElement, FS_CardinalityType
<1>6. free_entries'[p] = u
  BY <1>2
<1>7. EntriesRight(p)'
  <2>1. Different(u)
    <3>1. ASSUME NEW i \in 1 .. m, NEW j \in 1 .. m, u[i] = u[j] PROVE i = j
      <4>1. q[i + 1] = q[j + 1] /\ i + 1 \in 1 .. Len(q) /\ j + 1 \in 1 .. Len(q)
        BY <1>1, <3>1
      <4> QED
        BY <4>1 DEF Different
    <3> QED
      BY <1>1, <3>1 DEF Different
  <2>2. ASSUME NEW i \in 1 .. m PROVE u[i].page = p /\ u[i] \notin in_use'
    <3>1. u[i] = q[i + 1] /\ i + 1 \in 1 .. Len(q) /\ 1 \in 1 .. Len(q)
      BY <1>1
    <3>2. q[i + 1] # q[1]
      BY <3>1 DEF Different
    <3> QED
      BY <1>1, <1>2, <3>1, <3>2
  <2>3. m + Cardinality(UsedOf(p)') = PerPage
    BY <1>1, <1>5
  <2> QED
    BY <1>1, <1>5, <1>6, <2>1, <2>2, <2>3 DEF EntriesRight, Different
<1>8. ASSUME NEW r \in Pages \ {p}, EntriesRight(r) PROVE EntriesRight(r)'
  <2>1. free_entries'[r] = free_entries[r] /\ UsedOf(r)' = UsedOf(r)
    BY <1>2, <1>3 DEF UsedOf
  <2>2. \A i \in 1 .. Len(free_entries[r]) : free_entries[r][i] # h
    BY <1>3, <1>8 DEF EntriesRight
  <2> QED
    BY <1>2, <1>8, <2>1, <2>2 DEF EntriesRight, Different
<1> QED
  BY <1>1, <1>2, <1>3, <1>7, <1>8

(* The lists stay right when only entries change hands. *)
LEMMA ListsSame ==
  ASSUME ListsRight, UNCHANGED <<entry_pages, freeable, index>>
  PROVE  ListsRight'
BY DEF ListsRight, Different

(* A set of numbers that is not empty has a smallest. *)
LEMMA Smallest ==
  ASSUME NEW T, T \subseteq Nat, T # {}
  PROVE  \E x \in T : \A y \in T : x <= y
<1>1. PICK x \in T : \A y \in T : <<y, x>> \notin OpToRel(<, Nat)
  BY NatLessThanWellFounded, WFMin
<1>2. \A y \in T : ~ (y < x)
  BY <1>1 DEF OpToRel
<1>3. \A y \in T : x <= y
  BY <1>2
<1> QED
  BY <1>3

LEMMA FromPageKeeps ==
  ASSUME PagesInv, AllocFromPage
  PROVE  PagesInv'
<1>1. PICK c \in 1 .. Len(entry_pages) :
        cur_page = entry_pages[c] /\ \A i \in 1 .. c - 1 : free_entries[entry_pages[i]] = <<>>
  BY DEF PagesInv, CursorRight
<1>2. Position(cur_page) = c /\ Len(entry_pages) \in Nat
  BY <1>1, PlaceOf DEF PagesInv, PageTypes, ListsRight
<1>3. PICK n \in WithRoom : \A j \in WithRoom : n <= j
  <2>1. WithRoom \subseteq Nat /\ WithRoom # {}
    BY <1>2 DEF WithRoom, AllocFromPage
  <2> QED
    BY <2>1, Smallest
<1>4. /\ n \in c .. Len(entry_pages) /\ n \in 1 .. Len(entry_pages)
      /\ free_entries[entry_pages[n]] # <<>>
  BY <1>2, <1>3 DEF WithRoom
<1>5. (CHOOSE i \in WithRoom : \A j \in WithRoom : i <= j) = n
  <2>1. ASSUME NEW i \in WithRoom, \A j \in WithRoom : i <= j PROVE i = n
    <3>1. i <= n /\ n <= i /\ i \in Nat /\ n \in Nat
      BY <1>2, <1>3, <2>1 DEF WithRoom
    <3> QED
      BY <3>1
  <2> QED
    BY <1>3, <2>1
<1>6. PICK p \in Pages, q \in Seq(Entries) : p = entry_pages[n] /\ q = free_entries[p]
  <2>1. entry_pages[n] \in Pages /\ free_entries[entry_pages[n]] \in Seq(Entries)
    BY <1>4, ElementOfSeq DEF PagesInv, PageTypes
  <2> QED
    BY <2>1
<1>7. Give(p, q) /\ UNCHANGED <<entry_pages, freeable, index>> /\ q # <<>>
  BY <1>4, <1>5, <1>6 DEF AllocFromPage
<1>8. EntriesRight(p)
  BY <1>4, <1>6 DEF PagesInv
<1>9. /\ EntriesRight(p)'
      /\ \A r \in Pages \ {p} : EntriesRight(r) => EntriesRight(r)'
      /\ Head(q) \in Entries /\ Head(q).page = p /\ in_use' = in_use \cup {Head(q)}
      /\ free_entries' \in [Pages -> Seq(Entries)] /\ in_use' \subseteq Entries
      /\ \A r \in Pages \ {p} : free_entries'[r] = free_entries[r]
  <2>1. /\ Different(q) /\ \A i \in 1 .. Len(q) : q[i].page = p /\ q[i] \notin in_use
        /\ IsFiniteSet(UsedOf(p)) /\ Len(q) + Cardinality(UsedOf(p)) = PerPage
    BY <1>6, <1>8 DEF EntriesRight
  <2>2. PageTypes /\ q # <<>> /\ Give(p, q)
    BY <1>7 DEF PagesInv
  <2> QED
    BY <2>1, <2>2, GiveRight
<1>10. PageTypes'
  BY <1>7, <1>9 DEF PagesInv, PageTypes
<1>11. ListsRight'
  BY <1>7, ListsSame DEF PagesInv
<1>12. \A i \in 1 .. Len(entry_pages) : entry_pages[i] \in Pages
  BY ElementOfSeq DEF PagesInv, PageTypes
<1>13. CursorRight'
  <2>1. ASSUME NEW i \in 1 .. n - 1 PROVE free_entries'[entry_pages[i]] = <<>>
    <3>1. i \in 1 .. Len(entry_pages) /\ i # n
      BY <1>2, <1>4
    <3>2. entry_pages[i] \in Pages \ {p}
      BY <1>4, <1>6, <1>12, <3>1 DEF PagesInv, ListsRight, Different
    <3>3. free_entries[entry_pages[i]] = <<>>
      <4>1. CASE i < c
        BY <1>1, <1>2, <3>1, <4>1
      <4>2. CASE i >= c
        <5>1. i \in c .. Len(entry_pages) /\ ~ (n <= i)
          BY <1>2, <1>4, <3>1, <4>2
        <5> QED
          BY <1>2, <1>3, <5>1 DEF WithRoom
      <4> QED
        BY <1>1, <3>1, <4>1, <4>2
    <3> QED
      BY <1>9, <3>2, <3>3
  <2>2. cur_page' = entry_pages[n]
    BY <1>6, <1>7 DEF Give
  <2> QED
    BY <1>4, <1>7, <2>1, <2>2 DEF CursorRight
<1>14. ASSUME NEW i \in 1 .. Len(entry_pages) PROVE EntriesRight(entry_pages[i])'
  <2>1. EntriesRight(entry_pages[i]) /\ entry_pages[i] \in Pages
    BY <1>12 DEF PagesInv
  <2>2. \A r \in Pages : EntriesRight(r) => EntriesRight(r)'
    BY <1>9
  <2>3. PICK r \in Pages : r = entry_pages[i] /\ r = entry_pages'[i] /\ EntriesRight(r)
    BY <1>7, <2>1
  <2>4. EntriesRight(r)'
    BY <2>2, <2>3
  <2> QED
    BY <2>3, <2>4 DEF EntriesRight, UsedOf
<1>15. \A e \in in_use' : \E i \in 1 .. Len(entry_pages) : e.page = entry_pages[i]
  BY <1>4, <1>6, <1>9 DEF PagesInv
<1> QED
  BY <1>7, <1>10, <1>11, <1>13, <1>14, <1>15 DEF PagesInv
LEMMA AllFree ==
  ASSUME PagesAssumption, NEW p \in Pages
  PROVE  /\ AllEntries(p) \in Seq(Entries) /\ AllEntries(p) # <<>> /\ Len(AllEntries(p)) = PerPage
         /\ Different(AllEntries(p))
         /\ \A k \in 1 .. PerPage : AllEntries(p)[k].page = p
<1>1. PerPage \in Nat /\ PerPage > 0
  BY DEF PagesAssumption
<1>2. \A k \in 1 .. PerPage : Entry(p, k) \in Entries /\ Entry(p, k).page = p /\ Entry(p, k).k = k
  BY DEF Entry, Entries
<1>3. AllEntries(p) \in Seq(Entries) /\ Len(AllEntries(p)) = PerPage
  BY <1>1, <1>2 DEF AllEntries
<1>4. \A k \in 1 .. PerPage : AllEntries(p)[k] = Entry(p, k)
  BY DEF AllEntries
<1>5. Different(AllEntries(p))
  BY <1>2, <1>3, <1>4 DEF Different
<1>6. AllEntries(p) # <<>>
  BY <1>1, <1>3
<1> QED
  BY <1>2, <1>3, <1>4, <1>5, <1>6

(* A page p that is not in the list, with the pages f to be taken up again from then on. *)
LEMMA NewPageKeeps ==
  ASSUME PagesAssumption, PagesInv, WithRoom = {}, NEW p \in Pages, InitCacheEntryPage(p),
         \A i \in 1 .. Len(entry_pages) : entry_pages[i] # p,
         NEW f \in Seq(Pages), freeable' = f, Different(f),
         \A j \in 1 .. Len(f) : f[j] # p,
         \A i \in 1 .. Len(entry_pages), j \in 1 .. Len(f) : entry_pages[i] # f[j]
  PROVE  PagesInv'
<1>1. PICK n \in Nat, s \in Seq(Pages), t \in Seq(Pages) :
        /\ n = Len(entry_pages) /\ s = entry_pages /\ t = entry_pages' /\ Len(t) = n + 1
        /\ t[n + 1] = p /\ \A i \in 1 .. n : t[i] = s[i]
  <2>1. entry_pages \in Seq(Pages) /\ entry_pages' = Append(entry_pages, p)
    BY DEF PagesInv, PageTypes, InitCacheEntryPage
  <2>2. /\ Append(entry_pages, p) \in Seq(Pages)
        /\ Len(Append(entry_pages, p)) = Len(entry_pages) + 1
        /\ Append(entry_pages, p)[Len(entry_pages) + 1] = p
        /\ \A i \in 1 .. Len(entry_pages) : Append(entry_pages, p)[i] = entry_pages[i]
    BY <2>1, AppendProperties
  <2>3. Len(entry_pages) \in Nat
    BY <2>1
  <2> QED
    BY <2>1, <2>2, <2>3
<1>2. Len(s) = n /\ s = entry_pages /\ t = entry_pages'
  BY <1>1
<1>3. \A i \in 1 .. n : s[i] \in Pages /\ s[i] # p
  BY <1>2, ElementOfSeq
<1>4. PICK c \in 1 .. n : cur_page = s[c] /\ \A i \in 1 .. c - 1 : free_entries[s[i]] = <<>>
  BY <1>2 DEF PagesInv, CursorRight
<1>5. Position(cur_page) = c
  BY <1>2, <1>4, PlaceOf DEF PagesInv, ListsRight
<1>6. \A i \in 1 .. n : free_entries[s[i]] = <<>>
  <2>1. ASSUME NEW i \in 1 .. n, i < c PROVE free_entries[s[i]] = <<>>
    BY <1>1, <1>4, <2>1
  <2>2. ASSUME NEW i \in 1 .. n, i >= c PROVE free_entries[s[i]] = <<>>
    <3>1. i \in Position(cur_page) .. Len(entry_pages)
      BY <1>1, <1>5, <2>2
    <3> QED
      BY <1>2, <3>1 DEF WithRoom
  <2> QED
    BY <1>1, <1>4, <2>1, <2>2
<1>7. UsedOf(p) = {}
  BY <1>2, <1>3 DEF PagesInv, UsedOf
<1>8. IsFiniteSet(UsedOf(p)) /\ Cardinality(UsedOf(p)) = 0
  BY <1>7, FS_EmptySet
<1>9. PICK q \in Seq(Entries) : q = AllEntries(p) /\ q # <<>> /\ Len(q) = PerPage /\ Different(q)
                                /\ \A k \in 1 .. PerPage : q[k].page = p
  BY AllFree
<1>10. \A k \in 1 .. Len(q) : q[k].page = p /\ q[k] \notin in_use
  BY <1>7, <1>9 DEF UsedOf
<1>11. Len(q) + Cardinality(UsedOf(p)) = PerPage
  BY <1>8, <1>9 DEF PagesAssumption
<1>12. Give(p, q)
  BY <1>9 DEF InitCacheEntryPage
<1>13. /\ EntriesRight(p)'
       /\ \A r \in Pages \ {p} : EntriesRight(r) => EntriesRight(r)'
       /\ Head(q) \in Entries /\ Head(q).page = p /\ in_use' = in_use \cup {Head(q)}
       /\ free_entries' \in [Pages -> Seq(Entries)] /\ in_use' \subseteq Entries
       /\ \A r \in Pages \ {p} : free_entries'[r] = free_entries[r]
  BY <1>8, <1>9, <1>10, <1>11, <1>12, GiveRight DEF PagesInv
<1>14. index' = [index EXCEPT ![p] = n] /\ index \in [Pages -> Nat]
  BY <1>1 DEF InitCacheEntryPage, PagesInv, PageTypes
<1>15. PageTypes'
  BY <1>1, <1>13, <1>14 DEF PageTypes
<1>16. ASSUME NEW i \in 1 .. n + 1 PROVE i = n + 1 \/ i \in 1 .. n
  BY <1>1
<1>17. ListsRight'
  <2>1. Different(s) /\ \A i \in 1 .. n : index[s[i]] = i - 1
    BY <1>2 DEF PagesInv, ListsRight
  <2>2. Different(t)
    <3>1. ASSUME NEW i \in 1 .. n + 1, NEW j \in 1 .. n + 1, t[i] = t[j] PROVE i = j
      BY <1>1, <1>2, <1>3, <1>16, <2>1, <3>1 DEF Different
    <3> QED
      BY <1>1, <3>1 DEF Different
  <2>3. \A i \in 1 .. n + 1, j \in 1 .. Len(f) : t[i] # f[j]
    BY <1>1, <1>2, <1>16
  <2>4. ASSUME NEW i \in 1 .. n + 1 PROVE index'[t[i]] = i - 1
    <3>1. CASE i = n + 1
      BY <1>1, <1>14, <3>1
    <3>2. CASE i \in 1 .. n
      BY <1>1, <1>3, <1>14, <2>1, <3>2
    <3> QED
      BY <1>16, <3>1, <3>2
  <2>5. Len(t) = n + 1 /\ t = entry_pages' /\ freeable' = f
    BY <1>1
  <2> QED
    BY <2>2, <2>3, <2>4, <2>5 DEF ListsRight
<1>18. CursorRight'
  <2>1. n + 1 \in 1 .. Len(t) /\ cur_page' = t[n + 1] /\ (n + 1) - 1 = n
    BY <1>1, <1>12 DEF Give
  <2>2. ASSUME NEW i \in 1 .. n PROVE free_entries'[t[i]] = <<>>
    <3>1. PICK r \in Pages \ {p} : r = t[i] /\ r = s[i] /\ free_entries[r] = <<>>
      BY <1>1, <1>3, <1>6
    <3> QED
      BY <1>13, <3>1
  <2> QED
    BY <1>2, <2>1, <2>2 DEF CursorRight
<1>19. ASSUME NEW i \in 1 .. n + 1 PROVE EntriesRight(entry_pages[i])'
  <2>1. CASE i = n + 1
    <3>1. p = entry_pages'[i] /\ EntriesRight(p)'
      BY <1>1, <1>13, <2>1
    <3> QED
      BY <3>1 DEF EntriesRight, UsedOf
  <2>2. CASE i \in 1 .. n
    <3>1. PICK r \in Pages \ {p} : r = t[i] /\ r = entry_pages'[i] /\ EntriesRight(r)
      BY <1>1, <1>2, <1>3, <2>2 DEF PagesInv
    <3>2. EntriesRight(r)'
      BY <1>13, <3>1
    <3> QED
      BY <3>1, <3>2 DEF EntriesRight, UsedOf
  <2> QED
    BY <1>16, <2>1, <2>2
<1>20. ASSUME NEW e \in in_use' PROVE \E i \in 1 .. n + 1 : e.page = t[i]
  <2>1. CASE e \in in_use
    <3>1. PICK i \in 1 .. n : e.page = s[i]
      BY <1>2, <2>1 DEF PagesInv
    <3>2. i \in 1 .. n + 1 /\ t[i] = s[i]
      BY <1>1, <3>1
    <3> QED
      BY <3>1, <3>2
  <2>2. CASE e = Head(q)
    <3>1. n + 1 \in 1 .. n + 1 /\ t[n + 1] = p
      BY <1>1
    <3>2. e.page = p
      BY <1>13, <2>2
    <3> QED
      BY <3>1, <3>2
  <2> QED
    BY <1>13, <1>20, <2>1, <2>2
<1>21. Len(t) = n + 1 /\ t = entry_pages'
  BY <1>1
<1> QED
  BY <1>15, <1>17, <1>18, <1>19, <1>20, <1>21 DEF PagesInv

LEMMA FromNewPageKeeps ==
  ASSUME PagesAssumption, PagesInv, AllocFromNewPage
  PROVE  PagesInv'
<1>1. /\ entry_pages \in Seq(Pages) /\ freeable \in Seq(Pages) /\ WithRoom = {}
      /\ Different(freeable)
      /\ \A i \in 1 .. Len(entry_pages), j \in 1 .. Len(freeable) : entry_pages[i] # freeable[j]
  BY DEF PagesInv, PageTypes, ListsRight, AllocFromNewPage
<1>2. CASE freeable # <<>>
  <2>1. PICK p \in Pages, f \in Seq(Pages), m \in Nat :
          /\ p = Head(freeable) /\ p = freeable[1] /\ f = Tail(freeable)
          /\ m = Len(f) /\ Len(freeable) = m + 1
          /\ \A j \in 1 .. m : f[j] = freeable[j + 1]
    <3>1. /\ Head(freeable) \in Pages /\ Head(freeable) = freeable[1]
          /\ Tail(freeable) \in Seq(Pages) /\ Len(Tail(freeable)) \in Nat
          /\ Len(freeable) = Len(Tail(freeable)) + 1
          /\ \A j \in 1 .. Len(Tail(freeable)) : Tail(freeable)[j] = freeable[j + 1]
      BY <1>1, <1>2
    <3> QED
      BY <3>1
  <2>2. InitCacheEntryPage(p) /\ freeable' = f
    BY <1>2, <2>1 DEF AllocFromNewPage
  <2>3. 1 \in 1 .. Len(freeable) /\ \A j \in 1 .. m : j + 1 \in 1 .. Len(freeable) /\ j + 1 # 1
    BY <2>1
  <2>4. \A j \in 1 .. m : f[j] # p
    BY <1>1, <2>1, <2>3 DEF Different
  <2>5. \A i \in 1 .. Len(entry_pages) : entry_pages[i] # p
    BY <1>1, <2>1, <2>3
  <2>6. \A i \in 1 .. Len(entry_pages), j \in 1 .. Len(f) : entry_pages[i] # f[j]
    BY <1>1, <2>1, <2>3
  <2>7. Different(f)
    <3>1. ASSUME NEW i \in 1 .. m, NEW j \in 1 .. m, f[i] = f[j] PROVE i = j
      <4>1. freeable[i + 1] = freeable[j + 1]
        BY <2>1, <3>1
      <4>2. i + 1 = j + 1
        BY <1>1, <2>3, <4>1 DEF Different
      <4> QED
        BY <4>2
    <3> QED
      BY <2>1, <3>1 DEF Different
  <2> QED
    BY <1>1, <2>1, <2>2, <2>4, <2>5, <2>6, <2>7, NewPageKeeps
<1>3. CASE freeable = <<>>
  <2>1. PICK p \in Pages \ ToSet(entry_pages) : InitCacheEntryPage(p)
    BY <1>3 DEF AllocFromNewPage
  <2>2. \A i \in 1 .. Len(entry_pages) : entry_pages[i] # p
    BY <1>1, <2>1 DEF ToSet
  <2>3. freeable' = freeable /\ \A j \in 1 .. Len(freeable) : freeable[j] # p
    BY <1>3 DEF AllocFromNewPage
  <2> QED
    BY <1>1, <2>1, <2>2, <2>3, NewPageKeeps
<1> QED
  BY <1>2, <1>3
(* Entry e is free again, in front of the free entries of its page p. *)
LEMMA TakenBack ==
  ASSUME PageTypes, NEW p \in Pages, NEW e \in in_use, e.page = p, EntriesRight(p),
         in_use' = in_use \ {e},
         free_entries' = [free_entries EXCEPT ![p] = <<e>> \o @]
  PROVE  /\ EntriesRight(p)'
         /\ \A r \in Pages \ {p} : EntriesRight(r) => EntriesRight(r)'
         /\ free_entries' \in [Pages -> Seq(Entries)] /\ in_use' \subseteq Entries
         /\ \A r \in Pages \ {p} : free_entries'[r] = free_entries[r]
<1>1. in_use \subseteq Entries /\ free_entries \in [Pages -> Seq(Entries)] /\ e \in Entries
  BY DEF PageTypes
<1>2. PICK q \in Seq(Entries), n \in Nat : q = free_entries[p] /\ n = Len(q)
  <2>1. free_entries[p] \in Seq(Entries) /\ Len(free_entries[p]) \in Nat
    BY <1>1
  <2> QED
    BY <2>1
<1>3. PICK u \in Seq(Entries) :
        /\ u = <<e>> \o q /\ Len(u) = n + 1 /\ u[1] = e
        /\ \A i \in 2 .. n + 1 : u[i] = q[i - 1]
  <2>1. <<e>> \in Seq(Entries) /\ Len(<<e>>) = 1 /\ <<e>>[1] = e
    BY <1>1
  <2>2. /\ <<e>> \o q \in Seq(Entries) /\ Len(<<e>> \o q) = 1 + n
        /\ \A i \in 1 .. 1 + n : (<<e>> \o q)[i] = IF i <= 1 THEN <<e>>[i] ELSE q[i - 1]
    BY <1>2, <2>1, ConcatProperties
  <2>3. 1 \in 1 .. 1 + n /\ 1 + n = n + 1
    BY <1>2
  <2>4. (<<e>> \o q)[1] = e
    BY <2>1, <2>2, <2>3
  <2>5. ASSUME NEW i \in 2 .. n + 1 PROVE (<<e>> \o q)[i] = q[i - 1]
    <3>1. i \in 1 .. 1 + n /\ ~ (i <= 1)
      BY <1>2
    <3> QED
      BY <2>2, <3>1
  <2> QED
    BY <2>2, <2>3, <2>4, <2>5
<1>4. free_entries' = [free_entries EXCEPT ![p] = u]
  BY <1>2, <1>3
<1>5. free_entries'[p] = u
  BY <1>1, <1>4
<1>6. UsedOf(p)' = UsedOf(p) \ {e} /\ e \in UsedOf(p)
  BY DEF UsedOf
<1>7. IsFiniteSet(UsedOf(p)) /\ Cardinality(UsedOf(p)) \in Nat
  BY FS_CardinalityType DEF EntriesRight
<1>8. IsFiniteSet(UsedOf(p) \ {e}) /\ Cardinality(UsedOf(p) \ {e}) = Cardinality(UsedOf(p)) - 1
  BY <1>6, <1>7, FS_RemoveElement
<1>9. n + Cardinality(UsedOf(p)) = PerPage
  BY <1>2 DEF EntriesRight
<1>10. (n + 1) + Cardinality(UsedOf(p)') = PerPage
  <2>1. PICK k \in Nat : k = Cardinality(UsedOf(p))
    BY <1>7
  <2>2. Cardinality(UsedOf(p)') = k - 1 /\ n + k = PerPage
    BY <1>6, <1>8, <1>9, <2>1
  <2> QED
    BY <2>2
<1>11. ASSUME NEW i \in 1 .. n + 1 PROVE i = 1 \/ (i \in 2 .. n + 1 /\ i - 1 \in 1 .. n)
  BY <1>2
<1>12. Different(q) /\ \A i \in 1 .. n : q[i].page = p /\ q[i] \notin in_use
  BY <1>2 DEF EntriesRight
<1>13. ASSUME NEW i \in 1 .. n + 1 PROVE u[i].page = p /\ u[i] \notin in_use'
  <2>1. CASE i = 1
    BY <1>3, <2>1
  <2>2. CASE i \in 2 .. n + 1 /\ i - 1 \in 1 .. n
    BY <1>3, <1>12, <2>2
  <2> QED
    BY <1>11, <2>1, <2>2
<1>14. ASSUME NEW i \in 1 .. n + 1, NEW j \in 1 .. n + 1, u[i] = u[j] PROVE i = j
  <2>1. CASE i = 1 /\ j = 1
    BY <2>1
  <2>2. CASE i = 1 /\ j \in 2 .. n + 1 /\ j - 1 \in 1 .. n
    BY <1>3, <1>12, <1>14, <2>2
  <2>3. CASE j = 1 /\ i \in 2 .. n + 1 /\ i - 1 \in 1 .. n
    BY <1>3, <1>12, <1>14, <2>3
  <2>4. CASE i \in 2 .. n + 1 /\ i - 1 \in 1 .. n /\ j \in 2 .. n + 1 /\ j - 1 \in 1 .. n
    <3>1. q[i - 1] = q[j - 1]
      BY <1>3, <1>14, <2>4
    <3>2. i - 1 = j - 1
      BY <1>2, <1>12, <2>4, <3>1 DEF Different
    <3> QED
      BY <3>2
  <2> QED
    BY <1>11, <2>1, <2>2, <2>3, <2>4
<1>15. EntriesRight(p)'
  <2>1. Different(u)
    BY <1>3, <1>14 DEF Different
  <2> QED
    BY <1>3, <1>5, <1>6, <1>8, <1>10, <1>13, <2>1 DEF EntriesRight, Different
<1>16. \A r \in Pages \ {p} : free_entries'[r] = free_entries[r]
  BY <1>1, <1>4
<1>17. ASSUME NEW r \in Pages \ {p}, EntriesRight(r) PROVE EntriesRight(r)'
  <2>1. UsedOf(r)' = UsedOf(r) /\ free_entries'[r] = free_entries[r]
    BY <1>16 DEF UsedOf
  <2> QED
    BY <1>17, <2>1 DEF EntriesRight, Different
<1>18. free_entries' \in [Pages -> Seq(Entries)]
  BY <1>1, <1>3, <1>4
<1> QED
  BY <1>1, <1>15, <1>16, <1>17, <1>18
(* A release that leaves the page in the list. *)
LEMMA StaysKeeps ==
  ASSUME PagesInv, NEW e \in in_use, FreeCacheEntry(e),
         cur_page' = LowerPage(e.page), UNCHANGED <<entry_pages, freeable, index>>
  PROVE  PagesInv'
<1>1. PICK n \in Nat, s \in Seq(Pages), m \in 1 .. Len(entry_pages) :
        n = Len(s) /\ s = entry_pages /\ s = entry_pages' /\ e.page = s[m]
  <2>1. entry_pages \in Seq(Pages) /\ entry_pages' = entry_pages /\ Len(entry_pages) \in Nat
    BY DEF PagesInv, PageTypes
  <2>2. PICK m \in 1 .. Len(entry_pages) : e.page = entry_pages[m]
    BY DEF PagesInv
  <2> QED
    BY <2>1, <2>2
<1>2. m \in 1 .. n /\ \A i \in 1 .. n : s[i] \in Pages /\ EntriesRight(s[i])
  BY <1>1, ElementOfSeq DEF PagesInv
<1>3. PICK p \in Pages : p = s[m] /\ p = e.page
  BY <1>1, <1>2
<1>4. /\ EntriesRight(p)'
      /\ \A r \in Pages \ {p} : EntriesRight(r) => EntriesRight(r)'
      /\ free_entries' \in [Pages -> Seq(Entries)] /\ in_use' \subseteq Entries
      /\ \A r \in Pages \ {p} : free_entries'[r] = free_entries[r]
  <2>1. /\ in_use' = in_use \ {e}
        /\ free_entries' = [free_entries EXCEPT ![p] = <<e>> \o @]
    BY <1>3 DEF FreeCacheEntry
  <2> QED
    BY <1>2, <1>3, <2>1, TakenBack DEF PagesInv
<1>5. PICK c \in 1 .. n : cur_page = s[c] /\ \A i \in 1 .. c - 1 : free_entries[s[i]] = <<>>
  BY <1>1 DEF PagesInv, CursorRight
<1>6. Different(s) /\ index[s[m]] = m - 1 /\ index[s[c]] = c - 1
  BY <1>1, <1>2, <1>5 DEF PagesInv, ListsRight
<1>7. ASSUME NEW d \in 1 .. n, d <= m, d <= c, cur_page' = s[d] PROVE CursorRight'
  <2>1. ASSUME NEW i \in 1 .. d - 1 PROVE free_entries'[s[i]] = <<>>
    <3>1. i \in 1 .. n /\ i # m /\ i \in 1 .. c - 1
      BY <1>1, <1>2, <1>7
    <3>2. PICK r \in Pages \ {p} : r = s[i] /\ free_entries[r] = <<>>
      BY <1>2, <1>3, <1>5, <1>6, <1>1, <3>1 DEF Different
    <3> QED
      BY <1>4, <3>2
  <2> QED
    BY <1>1, <1>7, <2>1 DEF CursorRight
<1>8. CursorRight'
  <2>1. CASE m < c
    <3>1. cur_page' = s[m]
      BY <1>1, <1>3, <1>5, <1>6, <2>1 DEF LowerPage
    <3> QED
      BY <1>1, <1>2, <1>5, <1>7, <2>1, <3>1
  <2>2. CASE c <= m
    <3>1. cur_page' = s[c]
      BY <1>1, <1>3, <1>5, <1>6, <2>2 DEF LowerPage
    <3> QED
      BY <1>1, <1>2, <1>5, <1>7, <2>2, <3>1
  <2> QED
    BY <1>1, <1>2, <1>5, <2>1, <2>2
<1>9. ASSUME NEW i \in 1 .. n PROVE EntriesRight(entry_pages[i])'
  <2>1. PICK r \in Pages : r = s[i] /\ r = entry_pages'[i] /\ EntriesRight(r)
    BY <1>1, <1>2
  <2>2. EntriesRight(r)'
    BY <1>4, <2>1
  <2> QED
    BY <2>1, <2>2 DEF EntriesRight, UsedOf
<1>10. \A x \in in_use' : \E i \in 1 .. n : x.page = s[i]
  BY <1>1 DEF FreeCacheEntry, PagesInv
<1>11. PageTypes'
  BY <1>4 DEF PagesInv, PageTypes
<1>12. ListsRight'
  BY ListsSame DEF PagesInv
<1> QED
  BY <1>1, <1>8, <1>9, <1>10, <1>11, <1>12 DEF PagesInv

(* A release that gives up the page: the pages behind it move one place up. *)
LEMMA DropKeeps ==
  ASSUME PagesInv, NEW e \in in_use, FreeCacheEntry(e), Unused(e), Len(entry_pages) > 1,
         DropPage(e.page)
  PROVE  PagesInv'
<1>1. PICK n \in Nat, s \in Seq(Pages), m \in 1 .. Len(entry_pages) :
        n = Len(s) /\ s = entry_pages /\ e.page = s[m]
  <2>1. entry_pages \in Seq(Pages) /\ Len(entry_pages) \in Nat
    BY DEF PagesInv, PageTypes
  <2>2. PICK m \in 1 .. Len(entry_pages) : e.page = entry_pages[m]
    BY DEF PagesInv
  <2> QED
    BY <2>1, <2>2
<1>2. m \in 1 .. n /\ n > 1 /\ \A i \in 1 .. n : s[i] \in Pages /\ EntriesRight(s[i])
  BY <1>1, ElementOfSeq DEF PagesInv
<1>3. PICK p \in Pages : p = s[m] /\ p = e.page
  BY <1>1, <1>2
<1>4. /\ EntriesRight(p)'
      /\ \A r \in Pages \ {p} : EntriesRight(r) => EntriesRight(r)'
      /\ free_entries' \in [Pages -> Seq(Entries)] /\ in_use' \subseteq Entries
      /\ \A r \in Pages \ {p} : free_entries'[r] = free_entries[r]
  <2>1. /\ in_use' = in_use \ {e}
        /\ free_entries' = [free_entries EXCEPT ![p] = <<e>> \o @]
    BY <1>3 DEF FreeCacheEntry
  <2> QED
    BY <1>2, <1>3, <2>1, TakenBack DEF PagesInv
<1>5. PICK c \in 1 .. n : cur_page = s[c] /\ \A i \in 1 .. c - 1 : free_entries[s[i]] = <<>>
  BY <1>1 DEF PagesInv, CursorRight
<1>6. /\ Different(s) /\ \A i \in 1 .. n : Position(s[i]) = i /\ index[s[i]] = i - 1
  BY <1>1, PlaceOf DEF PagesInv, ListsRight
<1>7. PICK t \in Seq(Pages) :
        /\ t = RemoveAt(entry_pages, Position(p)) /\ Len(t) = n - 1
        /\ \A i \in 1 .. m - 1 : t[i] = s[i]
        /\ \A i \in m .. n - 1 : t[i] = s[i + 1]
  <2>1. m \in 1 .. Len(s) /\ Len(s) = n /\ RemoveAt(entry_pages, Position(p)) = RemoveAt(s, m)
    BY <1>1, <1>2, <1>3, <1>6
  <2>2. /\ RemoveAt(s, m) \in Seq(Pages) /\ Len(RemoveAt(s, m)) = Len(s) - 1
        /\ \A i \in 1 .. m - 1 : RemoveAt(s, m)[i] = s[i]
        /\ \A i \in m .. Len(s) - 1 : RemoveAt(s, m)[i] = s[i + 1]
    BY <2>1, Removed
  <2> QED
    BY <2>1, <2>2
<1>8. /\ entry_pages' = t /\ freeable' = <<p>> \o freeable /\ index' = Renumbered(p)
      /\ cur_page' = IF p = cur_page THEN t[1] ELSE cur_page
  BY <1>3, <1>7 DEF DropPage
<1>9. ASSUME NEW i \in 1 .. n - 1
      PROVE  \/ i \in 1 .. m - 1 /\ i \in 1 .. n /\ i # m /\ t[i] = s[i]
             \/ i \in m .. n - 1 /\ i + 1 \in 1 .. n /\ i + 1 # m /\ t[i] = s[i + 1]
  <2>0. m \in Nat /\ n \in Nat /\ i \in Nat /\ 1 <= m /\ m <= n /\ 1 <= i /\ i <= n - 1
    BY <1>2
  <2>1. i \in 1 .. m - 1 \/ i \in m .. n - 1
    BY <2>0
  <2>2. CASE i \in 1 .. m - 1
    <3>1. i \in 1 .. n /\ i # m
      BY <2>0, <2>2
    <3>2. t[i] = s[i]
      BY <1>7, <2>2
    <3> QED
      BY <2>2, <3>1, <3>2
  <2>3. CASE i \in m .. n - 1
    <3>1. i + 1 \in 1 .. n /\ i + 1 # m
      BY <2>0, <2>3
    <3>2. t[i] = s[i + 1]
      BY <1>7, <2>3
    <3> QED
      BY <2>3, <3>1, <3>2
  <2> QED
    BY <2>1, <2>2, <2>3
<1>10. ASSUME NEW i \in 1 .. n, i # m PROVE s[i] \in Pages \ {p}
  BY <1>1, <1>2, <1>3, <1>6, <1>10 DEF Different
<1>11. ASSUME NEW i \in 1 .. n - 1 PROVE t[i] \in Pages \ {p} /\ EntriesRight(t[i])
  BY <1>2, <1>9, <1>10
<1>12. PICK l \in Nat, f \in Seq(Pages) : l = Len(f) /\ f = freeable
  <2>1. freeable \in Seq(Pages) /\ Len(freeable) \in Nat
    BY DEF PagesInv, PageTypes
  <2> QED
    BY <2>1
<1>13. PICK g \in Seq(Pages) :
         /\ g = freeable' /\ Len(g) = l + 1 /\ g[1] = p
         /\ \A j \in 2 .. l + 1 : g[j] = f[j - 1]
  <2>1. <<p>> \in Seq(Pages) /\ Len(<<p>>) = 1 /\ <<p>>[1] = p
    OBVIOUS
  <2>2. /\ <<p>> \o f \in Seq(Pages) /\ Len(<<p>> \o f) = 1 + l
        /\ \A i \in 1 .. 1 + l : (<<p>> \o f)[i] = IF i <= 1 THEN <<p>>[i] ELSE f[i - 1]
    BY <1>12, <2>1, ConcatProperties
  <2>3. 1 \in 1 .. 1 + l /\ 1 + l = l + 1
    BY <1>12
  <2>4. (<<p>> \o f)[1] = p
    BY <2>1, <2>2, <2>3
  <2>5. ASSUME NEW i \in 2 .. l + 1 PROVE (<<p>> \o f)[i] = f[i - 1]
    <3>1. i \in 1 .. 1 + l /\ ~ (i <= 1)
      BY <1>12
    <3> QED
      BY <2>2, <3>1
  <2>6. freeable' = <<p>> \o f /\ Len(<<p>> \o f) = l + 1
    BY <1>8, <1>12, <2>2, <2>3
  <2> QED
    BY <2>2, <2>4, <2>5, <2>6
<1>14. ASSUME NEW i \in 1 .. l + 1 PROVE i = 1 \/ (i \in 2 .. l + 1 /\ i - 1 \in 1 .. l)
  BY <1>12
<1>15. /\ Different(f)
       /\ \A i \in 1 .. n, j \in 1 .. l : s[i] # f[j]
  BY <1>1, <1>12 DEF PagesInv, ListsRight
<1>16. Different(t)
  <2>1. ASSUME NEW i \in 1 .. n - 1, NEW j \in 1 .. n - 1, t[i] = t[j] PROVE i = j
    <3>1. \A a, b \in 1 .. n : s[a] = s[b] => a = b
      BY <1>1, <1>6 DEF Different
    <3>2. CASE i \in 1 .. m - 1
      <4>1. CASE j \in 1 .. m - 1
        BY <1>2, <1>9, <2>1, <3>1, <3>2, <4>1
      <4>2. CASE j \in m .. n - 1
        BY <1>2, <1>9, <2>1, <3>1, <3>2, <4>2
      <4> QED
        BY <1>9, <4>1, <4>2
    <3>3. CASE i \in m .. n - 1
      <4>1. CASE j \in 1 .. m - 1
        BY <1>2, <1>9, <2>1, <3>1, <3>3, <4>1
      <4>2. CASE j \in m .. n - 1
        BY <1>2, <1>9, <2>1, <3>1, <3>3, <4>2
      <4> QED
        BY <1>9, <4>1, <4>2
    <3> QED
      BY <1>9, <3>2, <3>3
  <2> QED
    BY <1>7, <2>1 DEF Different
<1>17. Different(g)
  <2>1. ASSUME NEW i \in 1 .. l, NEW j \in 1 .. l, f[i] = f[j] PROVE i = j
    BY <1>12, <1>15, <2>1 DEF Different
  <2>2. \A j \in 1 .. l : f[j] # p
    BY <1>2, <1>3, <1>15
  <2>3. ASSUME NEW i \in 1 .. l + 1, NEW j \in 1 .. l + 1, g[i] = g[j] PROVE i = j
    <3>1. CASE i = 1 /\ j = 1
      BY <3>1
    <3>2. CASE i = 1 /\ j \in 2 .. l + 1 /\ j - 1 \in 1 .. l
      BY <1>13, <2>2, <2>3, <3>2
    <3>3. CASE j = 1 /\ i \in 2 .. l + 1 /\ i - 1 \in 1 .. l
      BY <1>13, <2>2, <2>3, <3>3
    <3>4. CASE i \in 2 .. l + 1 /\ i - 1 \in 1 .. l /\ j \in 2 .. l + 1 /\ j - 1 \in 1 .. l
      <4>1. f[i - 1] = f[j - 1]
        BY <1>13, <2>3, <3>4
      <4>2. i - 1 = j - 1
        BY <2>1, <3>4, <4>1
      <4> QED
        BY <4>2
    <3> QED
      BY <1>14, <3>1, <3>2, <3>3, <3>4
  <2> QED
    BY <1>13, <2>3 DEF Different
<1>18. ASSUME NEW i \in 1 .. n - 1, NEW j \in 1 .. l + 1 PROVE t[i] # g[j]
  <2>1. PICK k \in 1 .. n : t[i] = s[k]
    BY <1>9
  <2>2. CASE j = 1
    BY <1>11, <1>13, <2>2
  <2>3. CASE j \in 2 .. l + 1 /\ j - 1 \in 1 .. l
    BY <1>13, <1>15, <2>1, <2>3
  <2> QED
    BY <1>14, <2>2, <2>3
<1>19. ToSet(entry_pages) = {s[i] : i \in 1 .. n}
  <2>1. DOMAIN s = 1 .. n
    BY <1>1
  <2> QED
    BY <1>1, <2>1 DEF ToSet
<1>20. /\ index \in [Pages -> Nat] /\ Position(p) = m /\ index[p] = m - 1
  BY <1>2, <1>3, <1>6 DEF PagesInv, PageTypes
<1>21. ASSUME NEW q \in Pages PROVE index'[q] \in Nat
  <2>1. CASE q \in ToSet(entry_pages) /\ Position(q) > Position(p)
    <3>1. PICK k \in 1 .. n : q = s[k] /\ Position(q) = k
      BY <1>6, <1>19, <2>1
    <3>2. index'[q] = (m - 1) + k - m - 1 /\ k > m
      BY <1>8, <1>20, <2>1, <3>1 DEF Renumbered
    <3> QED
      BY <1>2, <3>2
  <2>2. CASE ~ (q \in ToSet(entry_pages) /\ Position(q) > Position(p))
    BY <1>8, <1>20, <2>2 DEF Renumbered
  <2> QED
    BY <2>1, <2>2
<1>22. ASSUME NEW i \in 1 .. n - 1 PROVE index'[t[i]] = i - 1
  <2>1. CASE i \in 1 .. m - 1
    <3>1. /\ i \in 1 .. n /\ t[i] = s[i] /\ Position(s[i]) = i /\ index[s[i]] = i - 1
          /\ s[i] \in Pages /\ ~ (i > m)
      BY <1>2, <1>6, <1>9, <2>1
    <3> QED
      BY <1>8, <1>20, <3>1 DEF Renumbered
  <2>2. CASE i \in m .. n - 1
    <3>1. i + 1 \in 1 .. n /\ i + 1 > m /\ t[i] = s[i + 1]
      BY <1>2, <1>7, <2>2
    <3>2. /\ Position(s[i + 1]) = i + 1 /\ s[i + 1] \in Pages
          /\ s[i + 1] \in ToSet(entry_pages)
      BY <1>2, <1>6, <1>19, <3>1
    <3>3. index'[s[i + 1]] = (m - 1) + (i + 1) - m - 1
      BY <1>8, <1>20, <3>1, <3>2 DEF Renumbered
    <3>4. (m - 1) + (i + 1) - m - 1 = i - 1
      BY <1>1
    <3> QED
      BY <3>1, <3>3, <3>4
  <2> QED
    BY <1>9, <2>1, <2>2
<1>23. PageTypes'
  <2>1. index' \in [Pages -> Nat]
    BY <1>8, <1>21 DEF Renumbered
  <2> QED
    BY <1>4, <1>7, <1>8, <1>13, <2>1 DEF PageTypes
<1>24. ListsRight'
  <2>1. t = entry_pages' /\ Len(t) = n - 1 /\ g = freeable' /\ Len(g) = l + 1
    BY <1>7, <1>8, <1>13
  <2>2. \A i \in 1 .. Len(t), j \in 1 .. Len(g) : t[i] # g[j]
    BY <1>18, <2>1
  <2>3. \A i \in 1 .. Len(t) : index'[t[i]] = i - 1
    BY <1>22, <2>1
  <2> QED
    BY <1>16, <1>17, <2>1, <2>2, <2>3 DEF ListsRight
<1>25. ASSUME NEW d \in 1 .. n - 1, cur_page' = t[d],
              \A i \in 1 .. d - 1 : t[i] \in Pages \ {p} /\ free_entries[t[i]] = <<>>
       PROVE  CursorRight'
  <2>1. \A i \in 1 .. d - 1 : free_entries'[t[i]] = <<>>
    BY <1>4, <1>25
  <2> QED
    BY <1>7, <1>8, <1>25, <2>1 DEF CursorRight
<1>26. CursorRight'
  <2>1. CASE p = cur_page
    <3>1. 1 \in 1 .. n - 1 /\ cur_page' = t[1] /\ 1 .. 1 - 1 = {}
      BY <1>2, <1>8, <2>1
    <3> QED
      BY <1>25, <3>1
  <2>2. CASE p # cur_page /\ c < m
    <3>1. c \in 1 .. n - 1 /\ c \in 1 .. m - 1
      BY <1>2, <2>2
    <3>2. cur_page' = t[c]
      BY <1>5, <1>7, <1>8, <2>2, <3>1
    <3>3. ASSUME NEW i \in 1 .. c - 1 PROVE t[i] \in Pages \ {p} /\ free_entries[t[i]] = <<>>
      <4>1. i \in 1 .. m - 1 /\ i \in 1 .. n - 1
        BY <3>1
      <4> QED
        BY <1>5, <1>7, <1>11, <4>1
    <3> QED
      BY <1>25, <3>1, <3>2, <3>3
  <2>3. CASE p # cur_page /\ c > m
    <3>1. c - 1 \in m .. n - 1 /\ c - 1 \in 1 .. n - 1 /\ (c - 1) + 1 = c
      BY <1>2, <2>3
    <3>2. cur_page' = t[c - 1]
      <4>1. t[c - 1] = s[(c - 1) + 1]
        BY <1>7, <3>1
      <4> QED
        BY <1>5, <1>8, <2>3, <3>1, <4>1
    <3>3. ASSUME NEW i \in 1 .. (c - 1) - 1
          PROVE t[i] \in Pages \ {p} /\ free_entries[t[i]] = <<>>
      <4>1. i \in 1 .. n - 1 /\ i \in 1 .. c - 1 /\ i + 1 \in 1 .. c - 1
        BY <3>1
      <4>2. t[i] = s[i] \/ t[i] = s[i + 1]
        BY <1>9, <4>1
      <4> QED
        BY <1>5, <1>11, <4>1, <4>2
    <3> QED
      BY <1>25, <3>1, <3>2, <3>3
  <2>4. p = cur_page \/ c < m \/ c > m
    <3>1. c # m => c < m \/ c > m
      BY <1>2, <1>5
    <3>2. c = m => p = cur_page
      BY <1>3, <1>5
    <3> QED
      BY <3>1, <3>2
  <2> QED
    BY <2>1, <2>2, <2>3, <2>4
<1>27. ASSUME NEW i \in 1 .. n - 1 PROVE EntriesRight(entry_pages[i])'
  <2>1. PICK r \in Pages \ {p} : r = t[i] /\ r = entry_pages'[i] /\ EntriesRight(r)
    BY <1>8, <1>11
  <2>2. EntriesRight(r)'
    BY <1>4, <2>1
  <2> QED
    BY <2>1, <2>2 DEF EntriesRight, UsedOf
<1>28. ASSUME NEW x \in in_use' PROVE \E i \in 1 .. n - 1 : x.page = t[i]
  <2>1. x \in in_use /\ x.page # p
    BY <1>3 DEF FreeCacheEntry, Unused
  <2>2. PICK k \in 1 .. n : x.page = s[k]
    BY <1>1, <2>1 DEF PagesInv
  <2>3. k # m
    BY <1>3, <2>1, <2>2
  <2>4. CASE k < m
    <3>1. k \in 1 .. m - 1 /\ k \in 1 .. n - 1
      BY <1>2, <2>4
    <3> QED
      BY <1>7, <2>2, <3>1
  <2>5. CASE k > m
    <3>1. k - 1 \in m .. n - 1 /\ k - 1 \in 1 .. n - 1 /\ (k - 1) + 1 = k
      BY <1>2, <2>5
    <3>2. t[k - 1] = s[(k - 1) + 1]
      BY <1>7, <3>1
    <3> QED
      BY <2>2, <3>1, <3>2
  <2> QED
    BY <1>2, <2>3, <2>4, <2>5
<1>29. Len(t) = n - 1 /\ t = entry_pages'
  BY <1>7, <1>8
<1> QED
  BY <1>23, <1>24, <1>26, <1>27, <1>28, <1>29 DEF PagesInv

LEMMA FreeKeeps ==
  ASSUME PagesInv, NEW e \in in_use, FreeCacheEntry(e)
  PROVE  PagesInv'
<1>1. CASE Unused(e) /\ Len(entry_pages) > 1
  BY <1>1, DropKeeps DEF FreeCacheEntry
<1>2. CASE ~ (Unused(e) /\ Len(entry_pages) > 1)
  BY <1>2, StaysKeeps DEF FreeCacheEntry
<1> QED
  BY <1>1, <1>2

LEMMA PagesInitially ==
  ASSUME PagesAssumption, PagesInit
  PROVE  PagesInv
<1>1. PICK p \in Pages :
        /\ entry_pages = <<p>> /\ cur_page = p /\ freeable = <<>>
        /\ free_entries = [q \in Pages |-> IF q = p THEN AllEntries(p) ELSE <<>>]
        /\ index = [q \in Pages |-> 0] /\ in_use = {}
  BY DEF PagesInit
<1>2. PICK q \in Seq(Entries) :
        /\ q = AllEntries(p) /\ Len(q) = PerPage /\ Different(q)
        /\ \A k \in 1 .. PerPage : q[k].page = p
  BY AllFree
<1>3. /\ <<p>> \in Seq(Pages) /\ Len(<<p>>) = 1 /\ <<p>>[1] = p
      /\ <<>> \in Seq(Pages) /\ <<>> \in Seq(Entries) /\ Len(<<>>) = 0
  OBVIOUS
<1>4. PageTypes
  BY <1>1, <1>2, <1>3 DEF PageTypes
<1>5. \A i \in 1 .. Len(entry_pages) : i = 1 /\ entry_pages[i] = p
  BY <1>1, <1>3
<1>6. 1 .. Len(freeable) = {} /\ 1 \in 1 .. Len(entry_pages) /\ 1 .. 1 - 1 = {}
  BY <1>1, <1>3
<1>7. ListsRight
  BY <1>1, <1>5, <1>6 DEF ListsRight, Different
<1>8. CursorRight
  BY <1>1, <1>5, <1>6 DEF CursorRight
<1>9. EntriesRight(p)
  <2>1. UsedOf(p) = {}
    BY <1>1 DEF UsedOf
  <2>2. IsFiniteSet(UsedOf(p)) /\ Cardinality(UsedOf(p)) = 0
    BY <2>1, FS_EmptySet
  <2>3. free_entries[p] = q /\ PerPage + 0 = PerPage
    BY <1>1, <1>2 DEF PagesAssumption
  <2> QED
    BY <1>1, <1>2, <2>2, <2>3 DEF EntriesRight
<1>10. \A i \in 1 .. Len(entry_pages) : EntriesRight(entry_pages[i])
  BY <1>5, <1>9
<1> QED
  BY <1>1, <1>4, <1>7, <1>8, <1>10 DEF PagesInv

LEMMA PagesInvariant == PagesSpec => []PagesInv
<1>1. PagesInit => PagesInv
  BY PagesInitially, PagesAssumption
<1>2. PagesInv /\ [PagesNext]_pagesVars => PagesInv'
  <2>1. CASE PagesNext /\ PagesInv
    BY <2>1, FromPageKeeps, FromNewPageKeeps, FreeKeeps, PagesAssumption DEF PagesNext
  <2>2. CASE UNCHANGED pagesVars /\ PagesInv
    <3>1. PageTypes' /\ CursorRight'
      BY <2>2 DEF pagesVars, PagesInv, PageTypes, CursorRight
    <3>2. ListsRight'
      BY <2>2, ListsSame DEF pagesVars, PagesInv
    <3>3. ASSUME NEW i \in 1 .. Len(entry_pages) PROVE EntriesRight(entry_pages[i])'
      <4>1. EntriesRight(entry_pages[i])
        BY <2>2 DEF PagesInv
      <4> QED
        BY <2>2, <4>1 DEF pagesVars, EntriesRight, UsedOf, Different
    <3>4. entry_pages' = entry_pages /\ in_use' = in_use
      BY <2>2 DEF pagesVars
    <3>5. \A e \in in_use : \E i \in 1 .. Len(entry_pages) : e.page = entry_pages[i]
      BY <2>2 DEF PagesInv
    <3> QED
      BY <3>1, <3>2, <3>3, <3>4, <3>5 DEF PagesInv
  <2> QED
    BY <2>1, <2>2
<1> QED
  BY <1>1, <1>2, PTL DEF PagesSpec

(* The allocator of cache entries, AllocCacheEntry and FreeCacheEntry: an entry of a page of *)
(* the list is free, once, or in use; none in use lies in a page that was given up; and no   *)
(* page before the one where the next allocation begins has a free entry.                    *)
THEOREM EntriesStayRight == PagesSpec => []EntriesKept
<1>1. PagesInv => EntriesKept
  <2>1. SUFFICES ASSUME PagesInv PROVE EntriesKept
    OBVIOUS
  <2>2. ToSet(entry_pages) = {entry_pages[i] : i \in 1 .. Len(entry_pages)}
    <3>1. DOMAIN entry_pages = 1 .. Len(entry_pages)
      BY <2>1 DEF PagesInv, PageTypes
    <3> QED
      BY <3>1 DEF ToSet
  <2>3. ASSUME NEW p \in ToSet(entry_pages)
        PROVE  /\ ToSet(free_entries[p]) \cap in_use = {}
               /\ Len(free_entries[p]) + Cardinality({e \in in_use : e.page = p}) = PerPage
               /\ IsInjective(free_entries[p])
    <3>1. PICK i \in 1 .. Len(entry_pages) : p = entry_pages[i]
      BY <2>2
    <3>2. EntriesRight(p) /\ p \in Pages
      BY <2>1, <3>1, ElementOfSeq DEF PagesInv, PageTypes
    <3>3. PICK q \in Seq(Entries) : q = free_entries[p]
      BY <2>1, <3>2 DEF PagesInv, PageTypes
    <3>4. DOMAIN q = 1 .. Len(q)
      BY <3>3
    <3>5. ToSet(q) \cap in_use = {}
      BY <3>2, <3>3, <3>4 DEF ToSet, EntriesRight
    <3>6. IsInjective(q)
      BY <3>2, <3>3, <3>4 DEF IsInjective, EntriesRight, Different
    <3> QED
      BY <3>2, <3>3, <3>5, <3>6 DEF EntriesRight, UsedOf
  <2>4. \A e \in in_use : e.page \in ToSet(entry_pages)
    BY <2>1, <2>2 DEF PagesInv
  <2>5. NoEntryMissed
    <3>1. PICK c \in 1 .. Len(entry_pages) :
            cur_page = entry_pages[c] /\ \A i \in 1 .. c - 1 : free_entries[entry_pages[i]] = <<>>
      BY <2>1 DEF PagesInv, CursorRight
    <3>2. Position(cur_page) = c
      BY <2>1, <3>1, PlaceOf DEF PagesInv, ListsRight
    <3> QED
      BY <3>1, <3>2 DEF NoEntryMissed
  <2> QED
    BY <2>3, <2>4, <2>5 DEF EntriesKept, EntriesOnce
<1> QED
  BY <1>1, PagesInvariant, PTL
=============================================================================
