------------------------------ MODULE MCMemory ------------------------------
(***************************************************************************)
(* The modules about memory, on small instances.  They share no state; a   *)
(* behaviour exercises the part that is chosen in its first state, and the *)
(* others stay as they begin.                                              *)
(*   VRanges: two free ranges at boot, of four and seven pages, requests   *)
(*            of one to three pages                                        *)
(*   PageMap: two ranges of RAM, of two and six pages, two page tables,    *)
(*            two threads                                                  *)
(*   Heap:    two threads, chunks of one and two units                     *)
(*   Boot:    RAM in two blocks, at several places and sizes               *)
(*   Process: three processes, images of one and two segments              *)
(***************************************************************************)
EXTENDS VRanges, PageMap

CONSTANTS Parts, t1, t2, MemoryMaps, Programs

VARIABLES part,
          buckets, main_bucket, given,
          stage, ram, found, areas, prange_count, pages, tomap, vfree,
          free, memory, procs, creating, at, ended

TwoRanges == [i \in 0 .. 1 |-> IF i = 0 THEN VRange(1, 4) ELSE VRange(6, 7)]

TwoBases(r) == IF r = 0 THEN 1 ELSE 5
TwoCounts(r) == IF r = 0 THEN 2 ELSE 6

Block(base, size) == [base |-> base, size |-> size]
TwoBlocks ==
  { <<Block(224, 48), Block(330, 416)>> } \cup
  { <<Block(a, s1), Block(b, s2)>> :
      a \in {33, 64}, s1 \in {64, 96, 128}, b \in {330, 352}, s2 \in {192, 256, 400, 416} }
  \cup { <<Block(64, s2), Block(640, s1)>> : s1 \in {128, 300}, s2 \in {192, 256, 400, 416} }
  \cup { <<Block(64, s), Block(330, 410)>> : s \in {114, 122, 150} }
  \cup { <<Block(96, s), Block(640, 400)>> : s \in {32, 64, 72, 96, 136} }
OneBlock == { <<Block(64, 288)>> }

\* A prange that is not written holds zeros, or anything.
Found == { [base |-> 0, size |-> 0, free |-> 0, used |-> 0],
           [base |-> 96, size |-> 5, free |-> 1200, used |-> 400] }

Segment(v, f, m) == [vaddr |-> v, file_size |-> f, mem_size |-> m]
\* Segments that start and end anywhere, that share a page, and that go on in
\* pages of which the file has nothing.
SomeImages == { <<Segment(16, 5, 8)>>, <<Segment(20, 2, 11)>>, <<Segment(17, 2, 2)>>,
                <<Segment(16, 4, 4), Segment(24, 3, 3)>>,
                <<Segment(16, 2, 2), Segment(18, 5, 7)>> }

Heap == INSTANCE Heap WITH Threads <- {t1, t2}, Buckets <- 2, MaxPages <- 2, MaxGiven <- 3
Boot == INSTANCE Boot WITH PageBytes <- 32, Align <- 16, VRangeBytes <- 64,
          PRangeBytes <- 20, IndexBytes <- 4, HeaderBytes <- 4, Maps <- MemoryMaps,
          FirstVirtual <- 6, LastVirtual <- 60, LowBytes <- 32, Wrap <- 2048,
          Leftovers <- Found
Process == INSTANCE Process WITH PageBytes <- 4, TablePages <- 4,
             PhysicalPages <- 101 .. 113, Images <- Programs, SharedPages <- {1, 3},
             StackPage <- 2, MaxProcesses <- 3

ASSUME MapAssumption

heapVars == <<buckets, main_bucket, given>>
bootVars == <<stage, ram, found, areas, prange_count, pages, tomap, vfree>>
processVars == <<free, memory, procs, creating, at, ended>>
allVars == <<part, vars, mapVars, heapVars, bootVars, processVars>>

AllInit ==
  /\ part \in Parts
  /\ Init /\ MapInit /\ Heap!Init /\ Process!Init
  /\ part = "vranges" \/ use = CHOOSE u \in Uses : TRUE
  /\ IF part = "boot" THEN Boot!Init ELSE Boot!InitFrom(CHOOSE m \in MemoryMaps : TRUE)

AllNext ==
  \/ part = "vranges" /\ Next /\ UNCHANGED <<part, mapVars, heapVars, bootVars, processVars>>
  \/ part = "map" /\ MapNext /\ UNCHANGED <<part, vars, heapVars, bootVars, processVars>>
  \/ part = "heap" /\ Heap!Next /\ UNCHANGED <<part, vars, mapVars, bootVars, processVars>>
  \/ part = "boot" /\ Boot!Next /\ UNCHANGED <<part, vars, mapVars, heapVars, processVars>>
  \/ part = "process" /\ Process!Next /\ UNCHANGED <<part, vars, mapVars, heapVars, bootVars>>

AllSpec == AllInit /\ [][AllNext]_allVars

-----------------------------------------------------------------------------
(* The variables stay in their types. *)
TypesOK == TypeOK /\ MapTypeOK

(* The properties of the instances, under names of their own. *)

ChunksRight == Heap!ChunksRight
BootMemoryRight == Boot!BootMemoryRight
HeadersSuffice == Boot!HeadersSuffice
ProcessPagesRight == Process!ProcessPagesRight
=============================================================================
