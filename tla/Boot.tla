-------------------------------- MODULE Boot --------------------------------
(***************************************************************************)
(* How memory is divided when the kernel starts (src/kernel/mem/mem.c).    *)
(* k_mem_Init cuts the array of virtual ranges, the array of physical      *)
(* ranges and the page headers from the RAM the boot loader found, makes   *)
(* pages of the rest, and takes what is mapped for the kernel out of the   *)
(* free virtual ranges.  Addresses and sizes are in bytes, scaled down:    *)
(* a page is PageBytes long and areas are rounded up to Align.             *)
(***************************************************************************)
EXTENDS Integers, Sequences, FiniteSets, SequencesExt

CONSTANTS PageBytes, Align,
          VRangeBytes,   \* size of the array of virtual ranges
          PRangeBytes,   \* sizeof(struct k_mem_prange_t)
          IndexBytes,    \* sizeof(uint32_t), an entry of free_pages
          HeaderBytes,   \* sizeof(struct k_mem_upage_t), an entry of used_pages
          Maps,          \* memory maps of the boot loader: sequences of [base, size]
          FirstVirtual,  \* first page of the virtual range at boot
          LastVirtual,   \* last page of it
          LowBytes,      \* size of the low memory that is mapped first
          Leftovers,     \* what the RAM of a prange may hold before it is written
          Wrap           \* sizes are unsigned: they wrap at this number

VARIABLES stage,    \* what k_mem_Init does next
          ram,      \* ranges: the RAM not given to an area
          found,    \* the RAM at boot, aligned
          areas,    \* what is cut from it, in order: [start, size]
          prange_count, \* k_mem_physical_ranges.range_count
          pages,    \* k_mem_physical_ranges.ranges: base_address, page_count and arrays
          tomap,    \* areas that MapKernelData has not been called for
          vfree     \* the free part of k_mem_virtual_ranges: [start, size], in pages

vars == <<stage, ram, found, areas, prange_count, pages, tomap, vfree>>

Block(b, s) == [base |-> b, size |-> s]
Up(n, to) == ((n + to - 1) \div to) * to
Total(rs) == FoldSeq(LAMBDA r, sum : r.size + sum, 0, rs)

\* The whole pages of a range: its base moves up to a page, its size shrinks.
Aligned(r) == Block(Up(r.base, PageBytes), r.size - (Up(r.base, PageBytes) - r.base))

-----------------------------------------------------------------------------
\* BestFitRange: of the ranges that are large enough, each one that is smaller or
\* lower than the best so far becomes the best.
Better(rs, size, best, i) ==
  IF rs[i].size >= size /\ (best = 0 \/ rs[i].size < rs[best].size \/ rs[i].base < rs[best].base)
    THEN i ELSE best
Best(rs, size) ==
  FoldLeft(LAMBDA best, i : Better(rs, size, best, i), 0, [i \in DOMAIN rs |-> i])

\* The part of the range that is taken is its start; an emptied range goes.
Shrink(rs, i, size) ==
  SelectSeq([rs EXCEPT ![i] = Block(@.base + size, @.size - size)], LAMBDA r : r.size # 0)

BestFitRange(size) ==
  LET whole == Up(size, Align)
      best == Best(ram, whole)
  IN /\ best # 0  \* k_mem_Init uses the result unchecked
     /\ areas' = Append(areas, [start |-> ram[best].base, size |-> size])
     /\ ram' = Shrink(ram, best, whole)

-----------------------------------------------------------------------------
\* MapKernelData: the free virtual ranges less the pages [first, end).
Touches(v, first, end) == end > v.start /\ first < v.start + v.size
Below(v, first) == [v EXCEPT !.size = IF first >= v.start THEN first - v.start ELSE 0]
Above(v, end) == LET top == v.start + v.size
                 IN [start |-> end, size |-> IF end <= top THEN top - end ELSE 0]

\* What the loop leaves of one range: nothing, one part, or two.  Two parts take
\* the place of the range and of the one behind it, which is not moved on.
Pieces_One(v, first, end) ==
  IF Below(v, first).size # 0 THEN <<Below(v, first)>>
  ELSE IF Above(v, end).size # 0 THEN <<Above(v, end)>> ELSE <<>>
Pieces(v, first, end) ==
  SelectSeq(<<Below(v, first), Above(v, end)>>, LAMBDA part : part.size # 0)

FirstTouched(vs, first, end) ==
  LET touched == {i \in DOMAIN vs : Touches(vs[i], first, end)}
  IN IF touched = {} THEN 0 ELSE CHOOSE i \in touched : \A j \in touched : i <= j

\* The slot behind the last range, which is then counted, was never written.
Unwritten == [start |-> 0, size |-> 0]

VirtualRange == [start : Nat, size : Nat]

Chop[vs \in Seq(VirtualRange), first \in Nat, end \in Nat] ==
  LET i == FirstTouched(vs, first, end)
      parts == Pieces(vs[i], first, end)
      before == SubSeq(vs, 1, i - 1)
      after == SubSeq(vs, i + 1, Len(vs))
  IN IF i = 0 THEN vs
     ELSE IF Len(parts) < 2 THEN before \o parts \o Chop[after, first, end]
     ELSE before \o parts \o (IF after = <<>> THEN <<>> ELSE Append(Tail(after), Unwritten))

\* The pages of an area, by its start and end: the last page is added only when
\* the whole pages between them are shorter than the area.
AreaPages(area) ==
  LET first == area.start \div PageBytes
      last == (area.start + area.size) \div PageBytes
  IN <<first, IF (last - first) * PageBytes < area.size THEN last + 1 ELSE last>>
MapKernelData(area) ==
  vfree' = Chop[vfree, AreaPages(area)[1], AreaPages(area)[2]]

-----------------------------------------------------------------------------
InitFrom(m) ==
  /\ stage = "vranges"
  /\ found = [i \in DOMAIN m |-> Aligned(m[i])]
  /\ ram = found
  /\ areas = <<>> /\ pages = <<>> /\ tomap = <<>> /\ prange_count = 0
  /\ vfree = <<[start |-> FirstVirtual, size |-> LastVirtual - FirstVirtual + 1]>>
Init == \E m \in Maps : InitFrom(m)

Cut(now, size, next) ==
  /\ stage = now
  /\ BestFitRange(size)
  /\ stage' = next
  /\ UNCHANGED <<found, pages, tomap, vfree>>

\* k_mem_available, counted in whole Align units as BestFitRange does.
Available == Total(found) - FoldSeq(LAMBDA a, sum : Up(a.size, Align) + sum, 0, areas)
PairCount == Available \div (IndexBytes + HeaderBytes + PageBytes)

CutVRanges == Cut("vranges", VRangeBytes, "pranges") /\ UNCHANGED prange_count

\* The ranges are counted once their own array is cut, and not again.
CutPRanges ==
  /\ Cut("pranges", PRangeBytes * Len(ram), "headers")
  /\ prange_count' = Len(ram')
CutHeaders ==
  /\ Cut("headers", (IndexBytes + HeaderBytes) * PairCount, "fill")
  /\ UNCHANGED prange_count

\* The pages of what is left of a range; unsigned, so that less than the step up
\* to the next page wraps around.
PageCountOf(r) ==
  ((r.size - (Up(r.base, PageBytes) - r.base)) % Wrap) \div PageBytes
PRange_Down(r) == Block((r.base \div PageBytes) * PageBytes, r.size \div PageBytes)
PRange(r) == Block(Up(r.base, PageBytes), PageCountOf(r))

\* free_pages and used_pages of the ranges follow each other in the headers' area.
WithHeaders(prs, i) ==
  LET before == Total(SubSeq(prs, 1, i - 1))
      free == areas[3].start + (IndexBytes + HeaderBytes) * before
  IN [base |-> prs[i].base, size |-> prs[i].size,
      free |-> free, used |-> free + IndexBytes * prs[i].size]

\* The loop fills as many entries as there are ranges now; those behind them were
\* counted, and stay as they were found.
Filled(left) ==
  LET prs == [i \in DOMAIN ram |-> PRange(ram[i])]
  IN [i \in 1 .. prange_count |-> IF i <= Len(ram) THEN WithHeaders(prs, i) ELSE left]

HeaderAreas(pr) ==
  << [start |-> pr.free, size |-> IndexBytes * pr.size],
     [start |-> pr.used, size |-> HeaderBytes * pr.size] >>

FillPRanges ==
  /\ stage = "fill"
  /\ \E left \in Leftovers : pages' = Filled(left)
  /\ tomap' = <<[start |-> PageBytes, size |-> LowBytes], areas[1], areas[2]>> \o
       FlattenSeq([i \in 1 .. prange_count |-> HeaderAreas(pages'[i])])
  /\ stage' = "map"
  /\ UNCHANGED <<ram, found, areas, prange_count, vfree>>

MapNext ==
  /\ stage = "map"
  /\ MapKernelData(Head(tomap))
  /\ tomap' = Tail(tomap)
  /\ stage' = IF Len(tomap) = 1 THEN "done" ELSE "map"
  /\ UNCHANGED <<ram, found, areas, prange_count, pages>>

Next == CutVRanges \/ CutPRanges \/ CutHeaders \/ FillPRanges \/ MapNext

-----------------------------------------------------------------------------
Bytes(start, size) == start .. start + size - 1
PageBytesOf == UNION {Bytes(pages[i].base, pages[i].size * PageBytes) : i \in DOMAIN pages}
AreaBytes == UNION {Bytes(areas[i].start, areas[i].size) : i \in DOMAIN areas}
FoundBytes == UNION {Bytes(found[i].base, found[i].size) : i \in DOMAIN found}

\* What k_mem_Init cuts for its arrays lies in RAM, no two of the arrays overlap,
\* and no page that is handed out later overlaps one.
AreasApart ==
  /\ AreaBytes \cup PageBytesOf \subseteq FoundBytes
  /\ AreaBytes \cap PageBytesOf = {}
  /\ \A i, j \in DOMAIN areas : i # j =>
       Bytes(areas[i].start, areas[i].size) \cap Bytes(areas[j].start, areas[j].size) = {}

\* The headers that were cut are enough for the pages that are made of what is left
\* once they are cut, though cutting them changes what is left.
HeadersSuffice ==
  stage \in {"map", "done"} => Total(pages) * (IndexBytes + HeaderBytes) <= areas[3].size

\* Taking the kernel's arrays out of the virtual ranges loses no other page of them.
VFreePages == UNION {Bytes(vfree[i].start, vfree[i].size) : i \in DOMAIN vfree}
OtherPagesStayFree ==
  stage = "done" =>
    \A p \in FirstVirtual .. LastVirtual :
      p \in VFreePages \/ p * PageBytes < PageBytes + LowBytes
        \/ \E b \in Bytes(p * PageBytes, PageBytes) : b \in AreaBytes

\* The memory maps for which k_mem_Init divides the RAM as it means to: every range
\* it counted is there to be filled, none ends before its next page begins, and
\* (for the virtual ranges) the arrays were found in the order they are mapped in.
RangesFilled == Len(pages) <= Len(ram)
NoneWraps == \A i \in DOMAIN pages : pages[i].size * PageBytes <= Total(found)
InOrder == \A i, j \in DOMAIN areas : i < j => areas[i].start <= areas[j].start

\* Booting takes each page it needs once, and takes nothing else.
BootMemoryRight ==
  RangesFilled /\ NoneWraps => AreasApart /\ (InOrder => OtherPagesStayFree)
=============================================================================
