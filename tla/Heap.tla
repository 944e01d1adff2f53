-------------------------------- MODULE Heap --------------------------------
(***************************************************************************)
(* The small heaps of src/kernel/rt/alloc.c: every thread has, for each    *)
(* bucket, a list of free chunks of 2^bucket units (of eight bytes).  A    *)
(* page is cut into chunks of one size from its end downwards, and what is *)
(* left at its start into one chunk of every smaller size.  A chunk has no *)
(* header: SmallFree tells its bucket from where in the page it lies.      *)
(* The heap is the calling thread's own, so each call is one step.         *)
(***************************************************************************)
EXTENDS Integers, Sequences, FiniteSets, SequencesExt

CONSTANTS Threads,  \* the threads that allocate and free
          Buckets,  \* K_RT_SMALL_BUCKET_COUNT; a page holds 2^Buckets - 1 units
          MaxPages, \* bound: pages cut into chunks
          MaxGiven  \* bound: chunks given out at once

BucketSet == 0 .. Buckets - 1
Units == 2^Buckets - 1
NoBucket == Buckets

VARIABLES buckets,      \* buckets[t][b]: the free chunks, first to last
          main_bucket,  \* the main bucket of every page, in the order they were cut
          given         \* memory given out: page, off, and the units asked for

vars == <<buckets, main_bucket, given>>

Init == /\ buckets = [t \in Threads |-> [b \in BucketSet |-> <<>>]]
        /\ main_bucket = <<>>
        /\ given = {}

\* The smallest bucket whose chunks have the size, in units.
SmallBucketIndexFromSize_NoHeader(units) ==
  LET large == {b \in BucketSet : units <= 2^b + 1}
  IN IF large = {} THEN NoBucket ELSE CHOOSE b \in large : \A c \in large : b <= c
SmallBucketIndexFromSize(units) ==
  LET large == {b \in BucketSet : units <= 2^b}
  IN IF large = {} THEN NoBucket ELSE CHOOSE b \in large : \A c \in large : b <= c

\* InitChunkPage: where the chunks of each bucket lie in a page cut for bucket m.
ChunkOffsets(m, b) ==
  IF b = m THEN {Units - 2^m * k : k \in 1 .. Units \div 2^m}
           ELSE IF b < m THEN {2^b - 1} ELSE {}

CutPage(own, m) ==
  LET page == Len(main_bucket) + 1
      Chunks(b) == SetToSortSeq({[page |-> page, off |-> o] : o \in ChunkOffsets(m, b)},
                                LAMBDA c, d : c.off < d.off)
  IN [b \in BucketSet |-> own[b] \o Chunks(b)]

SmallAlloc(t, units) ==
  LET b == SmallBucketIndexFromSize(units)
      empty == buckets[t][b] = <<>>
      own == IF empty THEN CutPage(buckets[t], b) ELSE buckets[t]
      chunk == Head(own[b])
  IN /\ b # NoBucket /\ Cardinality(given) < MaxGiven
     /\ empty => Len(main_bucket) < MaxPages
     /\ main_bucket' = IF empty THEN Append(main_bucket, b) ELSE main_bucket
     /\ buckets' = [buckets EXCEPT ![t] = [own EXCEPT ![b] = Tail(@)]]
     /\ given' = given \cup {[page |-> chunk.page, off |-> chunk.off, units |-> units]}

\* The header is one unit, so the chunk at off starts off + 1 units into the page.
BucketOf(c) ==
  LET b == SmallBucketIndexFromSize(c.off + 1)
  IN IF b > main_bucket[c.page] THEN main_bucket[c.page] ELSE b

SmallFree(t, c) ==
  /\ buckets' = [buckets EXCEPT ![t][BucketOf(c)] = <<[page |-> c.page, off |-> c.off]>> \o @]
  /\ given' = given \ {c}
  /\ UNCHANGED main_bucket

-----------------------------------------------------------------------------
\* What is too large for the largest bucket gets pages of its own (see PageMap); here
\* a block of them is one that starts where no page of chunks does.
OwnPages == 0
BigBlock(units) == [page |-> OwnPages, off |-> -1, units |-> units]
BigAlloc(units) == /\ BigBlock(units) \notin given /\ Cardinality(given) < MaxGiven
                   /\ given' = given \cup {BigBlock(units)}
BigFree(c) == given' = given \ {c}

Malloc(t, units) ==
  \/ units <= 2^(Buckets - 1) /\ SmallAlloc(t, units)
  \/ units > 2^(Buckets - 1) /\ BigAlloc(units) /\ UNCHANGED <<buckets, main_bucket>>

\* k_rt_Free has nothing but the address: memory that starts a page is BigAlloc's.
PlaceInPage(c) == (c.off + 1) % (Units + 1)
Free(t, c) ==
  \/ PlaceInPage(c) # 0 /\ SmallFree(t, c)
  \/ PlaceInPage(c) = 0 /\ BigFree(c) /\ UNCHANGED <<buckets, main_bucket>>

Next == \E t \in Threads :
  \/ \E units \in 1 .. 2^(Buckets - 1) + 1 : Malloc(t, units)
  \/ \E c \in given : Free(t, c)

-----------------------------------------------------------------------------
\* Every chunk in a list or given out, with the units it stands for.
Part(c, len) == {<<c.page, u>> : u \in c.off .. c.off + len - 1}
Listed == UNION {UNION {{[part |-> Part(buckets[t][b][i], 2^b), at |-> <<t, b, i>>]
                           : i \in DOMAIN buckets[t][b]} : b \in BucketSet} : t \in Threads}
InChunks == {c \in given : c.page # OwnPages}
Given == {[part |-> Part(c, 2^BucketOf(c)), at |-> <<c>>] : c \in InChunks}
AllUnits == {<<p, u>> : p \in DOMAIN main_bucket, u \in 0 .. Units - 1}

\* However pages are cut and in whatever order and by whichever thread chunks are
\* freed, the chunks in the lists and those given out never overlap and cover
\* every unit: k_rt_Free, which has the address only, gives back to the right heap
\* and bucket what the allocation took.
ChunksPartitionPages ==
  /\ UNION {x.part : x \in Listed \cup Given} = AllUnits
  /\ \A x, y \in Listed \cup Given : x.part \cap y.part # {} => x = y

\* A chunk that is given out, as SmallFree will measure it, has the room asked for.
ChunkHasRoom == \A c \in InChunks : c.units <= 2^BucketOf(c)

\* Whatever the order of Malloc and Free, every unit of the heap's pages is in one
\* place, and a chunk is as large as its caller was promised.
ChunksRight == ChunksPartitionPages /\ ChunkHasRoom
=============================================================================
