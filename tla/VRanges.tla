------------------------------- MODULE VRanges -------------------------------
(***************************************************************************)
(* The allocator of virtual address ranges (kernel/mem/mngr.c).  One array *)
(* holds the free ranges and, behind them, the used ranges, both sorted by *)
(* start.  Allocating and freeing move entries between the two parts.      *)
(*                                                                         *)
(* Both operations hold k_mem_virtual_ranges_spinlock from the first read  *)
(* to the last write, so each is one step here.                            *)
(***************************************************************************)
EXTENDS Integers

CONSTANTS
  PageBytes,  \* 1 << K_MEM_4KB_ADDRESS_SHIFT
  Sizes,      \* the sizes in bytes that callers ask for
  FreeAtBoot, \* the free ranges k_mem_Init leaves, in order
  BootCount,  \* their number
  Cap,        \* bound: the last index of the array
  Uses        \* how callers use the allocator: see use

ASSUME VRangesAssumption ==
  /\ PageBytes \in Nat \ {0}
  /\ Sizes \subseteq Nat \ {0}
  /\ Cap \in Nat /\ BootCount \in 1 .. Cap
  /\ FreeAtBoot \in [0 .. BootCount - 1 -> [start : Nat \ {0}, size : Nat \ {0}]]
  /\ \A i, j \in 0 .. BootCount - 1 : i < j =>
       FreeAtBoot[i].start + FreeAtBoot[i].size < FreeAtBoot[j].start
  /\ Uses \subseteq {"partial", "keep", "any"}

VARIABLES
  ranges,      \* k_mem_virtual_ranges.ranges, unused slots included
  free_count,  \* k_mem_virtual_ranges.free_count
  range_count, \* k_mem_virtual_ranges.range_count
  held,        \* what callers have got and not given back: start -> pages
  use          \* "partial": no request takes a whole free range,
               \* "keep": nothing is given back, "any": neither holds

vars == <<ranges, free_count, range_count, held, use>>

-----------------------------------------------------------------------------
VRange(s, n) == [start |-> s, size |-> n]

End(r) == r.start + r.size

PageSet(r) == r.start .. End(r) - 1

Arena == UNION {PageSet(FreeAtBoot[i]) : i \in 0 .. BootCount - 1}

(* k_mem_Init leaves only free ranges. *)
Init ==
  /\ ranges = [i \in 0 .. Cap |-> IF i < BootCount THEN FreeAtBoot[i] ELSE VRange(0, 0)]
  /\ free_count = BootCount
  /\ range_count = BootCount
  /\ held = [s \in {} |-> 0]
  /\ use \in Uses

(* Mutant: the size in pages, rounded down. *)
RequestSize_Down(size) == size \div PageBytes

(* The size in pages, rounded up. *)
RequestSize(size) == (size \div PageBytes) + (IF size % PageBytes # 0 THEN 1 ELSE 0)

(* u is the index of the first used range that does not start before s.    *)
UsedVirtualRangeIndex(u, s) ==
  /\ u \in free_count .. range_count
  /\ \A i \in free_count .. u - 1 : ranges[i].start < s
  /\ u < range_count => ranges[u].start >= s

(* f is the index of the first free range that is large enough, or of the  *)
(* first that lies behind s.                                               *)
Fits(i, n) == ranges[i].size >= n
FirstFit(f, n) ==
  f \in 0 .. free_count - 1 /\ Fits(f, n) /\ \A i \in 0 .. f - 1 : ~Fits(i, n)
FirstBehind(f, s) ==
  /\ f \in 0 .. free_count - 1
  /\ ranges[f].start > s /\ \A i \in 0 .. f - 1 : ranges[i].start <= s

(* The loops that move entries from .. to - 1 down by k, and up by one. *)
MoveDown(A, from, to, k) ==
  [i \in 0 .. Cap |-> IF i \in from .. to - 1 THEN A[i + k] ELSE A[i]]

MoveUp(A, from, to) ==
  [i \in 0 .. Cap |-> IF i \in from + 1 .. to THEN A[i - 1] ELSE A[i]]

-----------------------------------------------------------------------------
Holding(start, n) ==
  [s \in DOMAIN held \cup {start} |-> IF s = start THEN n ELSE held[s]]

(* Mutant: the free range keeps its size. *)
AllocSplit_KeepSize(n) ==
  \E f \in 0 .. Cap, u \in 0 .. Cap :
    /\ FirstFit(f, n) /\ UsedVirtualRangeIndex(u, ranges[f].start)
    /\ ranges[f].size > n
    /\ range_count < Cap
    /\ ranges' = [MoveUp(ranges, u, range_count) EXCEPT
                    ![u] = VRange(ranges[f].start, n),
                    ![f] = VRange(ranges[f].start + n, ranges[f].size)]
    /\ range_count' = range_count + 1
    /\ held' = Holding(ranges[f].start, n)
    /\ UNCHANGED <<free_count, use>>

(* The range is larger than the request: its first pages become a used     *)
(* range.                                                                  *)
AllocSplit(n) ==
  \E f \in 0 .. Cap, u \in 0 .. Cap :
    /\ FirstFit(f, n) /\ UsedVirtualRangeIndex(u, ranges[f].start)
    /\ ranges[f].size > n
    /\ range_count < Cap
    /\ ranges' = [MoveUp(ranges, u, range_count) EXCEPT
                    ![u] = VRange(ranges[f].start, n),
                    ![f] = VRange(ranges[f].start + n, ranges[f].size - n)]
    /\ range_count' = range_count + 1
    /\ held' = Holding(ranges[f].start, n)
    /\ UNCHANGED <<free_count, use>>

(* The request takes the whole range.  The entry written for it has the    *)
(* range's size for a start and lands one slot behind its place.           *)
AllocExact(n) ==
  \E f \in 0 .. Cap, u \in 0 .. Cap :
    /\ use # "partial"
    /\ FirstFit(f, n) /\ UsedVirtualRangeIndex(u, ranges[f].start)
    /\ ranges[f].size = n
    /\ ranges' = [MoveDown(ranges, f, u, 1) EXCEPT ![u] = VRange(n, n)]
    /\ free_count' = free_count - 1
    /\ held' = Holding(ranges[f].start, n)
    /\ UNCHANGED <<range_count, use>>

AllocVirtualRange(size) ==
  LET n == RequestSize(size) IN AllocSplit(n) \/ AllocExact(n)

-----------------------------------------------------------------------------
(* Mutant: a free range just before the given one is not noticed. *)
TouchesPrev_Never(u, f) == FALSE

(* What FreeVirtualRange does to the array for the used range at index u   *)
(* and the free range at index f, the first one behind it, depends on      *)
(* whether the used range touches that one and the one before it.          *)
TouchesPrev(u, f) == f > 0 /\ End(ranges[f - 1]) = ranges[u].start

TouchesNext(u, f) == End(ranges[u]) = ranges[f].start

(* Mutant: the two entries that are no longer needed are both left. *)
MergeBoth_OneSlot(u, f) ==
  /\ TouchesPrev(u, f) /\ TouchesNext(u, f)
  /\ LET A == [ranges EXCEPT ![f] =
                 VRange(ranges[f - 1].start, ranges[f - 1].size + ranges[u].size + ranges[f].size)]
     IN  ranges' = MoveDown(A, f - 1, u - 1, 1)
  /\ free_count' = free_count - 1
  /\ range_count' = range_count - 1

(* The range closes the gap between two free ranges: both their entries    *)
(* and its own become one.                                                 *)
MergeBoth(u, f) ==
  /\ TouchesPrev(u, f) /\ TouchesNext(u, f)
  /\ LET A == [ranges EXCEPT ![f] =
                 VRange(ranges[f - 1].start, ranges[f - 1].size + ranges[u].size + ranges[f].size)]
     IN  ranges' = MoveDown(MoveDown(A, f - 1, u - 1, 1), u - 1, range_count - 2, 2)
  /\ free_count' = free_count - 1
  /\ range_count' = range_count - 2

MergeNext(u, f) ==
  /\ ~TouchesPrev(u, f) /\ TouchesNext(u, f)
  /\ LET A == [ranges EXCEPT ![f] = VRange(ranges[u].start, ranges[u].size + ranges[f].size)]
     IN  ranges' = MoveDown(A, u, range_count - 1, 1)
  /\ range_count' = range_count - 1
  /\ UNCHANGED free_count

MergePrev(u, f) ==
  /\ TouchesPrev(u, f) /\ ~TouchesNext(u, f)
  /\ LET A == [ranges EXCEPT ![f - 1] =
                 VRange(ranges[f - 1].start, ranges[f - 1].size + ranges[u].size)]
     IN  ranges' = MoveDown(A, u, range_count - 1, 1)
  /\ range_count' = range_count - 1
  /\ UNCHANGED free_count

(* Mutant: the entry goes behind the free range it should precede. *)
NoMerge_Behind(u, f) ==
  /\ ~TouchesPrev(u, f) /\ ~TouchesNext(u, f)
  /\ ranges' = [MoveUp(ranges, f + 1, u) EXCEPT ![f + 1] = ranges[u]]
  /\ free_count' = free_count + 1
  /\ UNCHANGED range_count

(* The range touches no free range: its entry moves into the free part. *)
NoMerge(u, f) ==
  /\ ~TouchesPrev(u, f) /\ ~TouchesNext(u, f)
  /\ ranges' = [MoveUp(ranges, f, u) EXCEPT ![f] = ranges[u]]
  /\ free_count' = free_count + 1
  /\ UNCHANGED range_count

(* Mutant: a range of which the address is an inner page is freed, too. *)
Known_Inner(u, s) == u < range_count

(* The address is the start of a used range. *)
Known(u, s) == u < range_count /\ ranges[u].start = s

(* The holder gives the range at page s back, or somebody passes another   *)
(* address: then nothing happens.  A range behind the last free range is   *)
(* not given back either.                                                  *)
FreeVirtualRange(s) ==
  \E u \in 0 .. Cap :
    /\ use # "keep"
    /\ UsedVirtualRangeIndex(u, s)
    /\ held' = [r \in DOMAIN held \ {s} |-> held[r]]
    /\ UNCHANGED use
    /\ \/ \E f \in 0 .. Cap :
            /\ Known(u, s) /\ FirstBehind(f, ranges[u].start)
            /\ MergeBoth(u, f) \/ MergeNext(u, f) \/ MergePrev(u, f) \/ NoMerge(u, f)
       \/ /\ Known(u, s) => \A f \in 0 .. free_count - 1 : ranges[f].start <= ranges[u].start
          /\ UNCHANGED <<ranges, free_count, range_count>>

Next ==
  \/ \E size \in Sizes : AllocVirtualRange(size)
  \/ \E s \in Arena : FreeVirtualRange(s)

Spec == Init /\ [][Next]_vars

-----------------------------------------------------------------------------
FreePart == {ranges[i] : i \in 0 .. free_count - 1}
UsedPart == {ranges[i] : i \in free_count .. range_count - 1}

TypeOK ==
  /\ ranges \in [0 .. Cap -> [start : Nat, size : Nat]]
  /\ free_count \in 0 .. range_count
  /\ range_count \in 0 .. Cap
  /\ use \in Uses
  /\ DOMAIN held \subseteq Arena /\ \A s \in DOMAIN held : held[s] \in Nat \ {0}

(* Free ranges are at the front of the array, used ranges behind them, and *)
(* the used ranges are those that callers hold (the entry is needed when   *)
(* the range is given back).                                               *)
UsedRangesAreHeld == use # "keep" => UsedPart = {VRange(s, held[s]) : s \in DOMAIN held}

(* The free part is sorted, and two free ranges never touch: they would    *)
(* have been merged.                                                       *)
FreeRangesApart ==
  \A i \in 1 .. free_count - 1 : End(ranges[i - 1]) < ranges[i].start

(* No page is lost and none is counted twice: the free ranges are what the *)
(* callers do not hold.                                                    *)
FreeIsRest ==
  /\ UNION {PageSet(r) : r \in FreePart}
       = Arena \ UNION {PageSet(VRange(s, held[s])) : s \in DOMAIN held}
  /\ \A r \in FreePart : r.size > 0

(* A request is refused only if no gap between the ranges in use is large  *)
(* enough.                                                                 *)
FindsEveryGap ==
  \A size \in Sizes :
    LET n == RequestSize(size)
    IN  (\A i \in 0 .. free_count - 1 : ~Fits(i, n)) =>
          \A s \in Arena :
            \E p \in PageSet(VRange(s, n)) :
              \/ p \notin Arena
              \/ \E r \in DOMAIN held : p \in PageSet(VRange(r, held[r]))

(* The array of ranges, after any number of merges and splits in place.    *)
RangesRight == UsedRangesAreHeld /\ FreeRangesApart /\ FreeIsRest /\ FindsEveryGap

(* What callers rely on: see RangeAllocator. *)
Promise == INSTANCE RangeAllocator

AllocatorSpec == Promise!Spec

=============================================================================
