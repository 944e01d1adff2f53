------------------------------- MODULE Process -------------------------------
(***************************************************************************)
(* Creating a process from an ELF image and giving its memory back when it *)
(* ends (src/kernel/proc/proc.c).  Addresses are counted in bytes of pages *)
(* of PageBytes; a page table covers TablePages pages.  The image is       *)
(* loaded page by page, while other processes end.                         *)
(***************************************************************************)
EXTENDS Integers, Sequences, FiniteSets, FiniteSetsExt, Functions

CONSTANTS PageBytes, TablePages,
          PhysicalPages,  \* pages of RAM; NullPage is none of them
          Images,         \* sequences of LOAD segments: [vaddr, file_size, mem_size]
          SharedPages,    \* linear pages that are mapped to themselves
          StackPage,      \* K_PROC_INIT_STACK_ADDRESS, in pages
          MaxProcesses    \* bound: processes created

NullPage == 0

VARIABLES free,      \* pages the allocator has
          memory,    \* content of each page
          procs,     \* page_map, tables: directory index to page, pages: linear to physical
          creating,  \* the process CreateProcess works on, and its image; or 0
          at,        \* which segment is loaded, the linear address, the bytes copied
          ended      \* processes that have ended

vars == <<free, memory, procs, creating, at, ended>>

\* A byte of the image is <<segment, place>>; of the others only zero is known.
Zero == <<>>
Stale == <<0, 0>>
Unmapped == <<0, 1>>
NewMap(page) == [image |-> <<>>, page_map |-> page, tables |-> <<>>, pages |-> <<>>]
NotLoading == [segment |-> 0, linear |-> 0, copied |-> 0]

Init == /\ free = PhysicalPages
        /\ memory = [p \in PhysicalPages |-> [i \in 0 .. PageBytes - 1 |-> Stale]]
        /\ procs = <<>> /\ creating = 0 /\ at = NotLoading /\ ended = {}

Put(f, x, y) == [z \in DOMAIN f \cup {x} |-> IF z = x THEN y ELSE f[z]]

-----------------------------------------------------------------------------
\* k_mem_AllocPhysicalPage and FreePhysicalPages, which ignores what is not RAM.
AllocPhysicalPage(set) == Min(set)
FreePhysicalPages(set) == free' = free \cup (set \cap PhysicalPages)

\* k_proc_MapProcessAddress: a missing table and a missing page are allocated.
TableOf(page) == page \div TablePages
Missing(map, page) == page \notin DOMAIN map.pages

WithTable(map, page, set) ==
  IF TableOf(page) \in DOMAIN map.tables THEN map
  ELSE [map EXCEPT !.tables = Put(@, TableOf(page), AllocPhysicalPage(set))]
MapProcessAddress(map, page, physical, set) ==
  LET tabled == WithTable(map, page, set)
      left == set \ {tabled.tables[TableOf(page)]}
  IN IF ~Missing(map, page) THEN map
     ELSE [tabled EXCEPT !.pages =
             Put(@, page, IF physical # NullPage THEN physical ELSE AllocPhysicalPage(left))]

Pages(map) == {map.page_map} \cup Range(map.tables) \cup Range(map.pages)
Enough == Cardinality(free) >= 3

-----------------------------------------------------------------------------
CreateProcess(image) ==
  /\ creating = 0 /\ Len(procs) < MaxProcesses /\ Enough
  /\ LET page == AllocPhysicalPage(free)
     IN /\ procs' = Append(procs, [NewMap(page) EXCEPT !.image = image])
        /\ free' = free \ {page}
  /\ creating' = Len(procs) + 1
  /\ at' = [segment |-> 1, linear |-> (image[1].vaddr \div PageBytes) * PageBytes, copied |-> 0]
  /\ UNCHANGED <<memory, ended>>

map == procs[creating]
segment == map.image[at.segment]
EndAddress == (segment.vaddr \div PageBytes) * PageBytes + segment.mem_size
Loading == creating # 0 /\ at.segment \in 1 .. Len(map.image)

Padding == IF at.linear < segment.vaddr THEN segment.vaddr - at.linear ELSE 0
CopySize == Min({PageBytes - Padding} \cup
                (IF at.copied < segment.file_size THEN {segment.file_size - at.copied} ELSE {}))
Copies == at.copied < segment.file_size
Ends == at.linear + Padding + CopySize
EndsInPage == Ends % PageBytes # 0
ByteFrom_Start == 0
ByteFrom == at.copied

\* What a turn of the loop leaves in the page: zeros before the segment and behind it,
\* its bytes between them; a page that has no bytes of the image is left as it was.
Filled(old) ==
  [i \in 0 .. PageBytes - 1 |->
     IF EndsInPage /\ i >= CopySize THEN Zero
     ELSE IF i < Padding THEN Zero
     ELSE IF Copies /\ i < Padding + CopySize THEN <<at.segment, ByteFrom + i - Padding>>
     ELSE old[i]]

LoadPage ==
  /\ Loading /\ at.linear < EndAddress /\ Enough
  /\ LET mapped == MapProcessAddress(map, at.linear \div PageBytes, NullPage, free)
         page == mapped.pages[at.linear \div PageBytes]
     IN /\ procs' = [procs EXCEPT ![creating] = mapped]
        /\ free' = free \ Pages(mapped)
        /\ memory' = [memory EXCEPT ![page] = Filled(@)]
  /\ at' = [at EXCEPT !.linear = Ends + (IF EndsInPage THEN PageBytes - CopySize ELSE 0),
                      !.copied = IF Copies THEN @ + CopySize ELSE @]
  /\ UNCHANGED <<creating, ended>>

NextSegment ==
  /\ Loading /\ at.linear >= EndAddress
  /\ at' = IF at.segment = Len(map.image) THEN [NotLoading EXCEPT !.segment = @ + Len(map.image) + 1]
           ELSE [segment |-> at.segment + 1, copied |-> 0,
                 linear |-> (map.image[at.segment + 1].vaddr \div PageBytes) * PageBytes]
  /\ UNCHANGED <<free, memory, procs, creating, ended>>

\* What the kernel shares with every process, and the page for the stack of ring 0.
FinishProcess ==
  /\ creating # 0 /\ ~Loading /\ Enough
  /\ LET stack == AllocPhysicalPage(free)
         Add(m, page, physical) == MapProcessAddress(m, page, physical, free \ (Pages(m) \cup {stack}))
         shared == FoldSet(LAMBDA page, m : Add(m, page, page), map, SharedPages)
         whole == Add(shared, StackPage, stack)
     IN /\ procs' = [procs EXCEPT ![creating] = whole]
        /\ free' = free \ Pages(whole)
  /\ creating' = 0 /\ at' = NotLoading
  /\ UNCHANGED <<memory, ended>>

-----------------------------------------------------------------------------
\* TerminateProcess gives back every page that is mapped, every table, and the map.
Returned_NoTables(m) == {m.page_map} \cup Range(m.pages)
Returned(m) == Pages(m)

TerminateProcess(p) ==
  /\ p \in DOMAIN procs \ (ended \cup {creating})
  /\ FreePhysicalPages(Returned(procs[p]))
  /\ ended' = ended \cup {p}
  /\ UNCHANGED <<memory, procs, creating, at>>

Next == \/ \E image \in Images : CreateProcess(image)
        \/ LoadPage \/ NextSegment \/ FinishProcess
        \/ \E p \in 1 .. MaxProcesses : TerminateProcess(p)

-----------------------------------------------------------------------------
Living == DOMAIN procs \ ended
Ready == Living \ {creating}

\* When a process is ready each byte of its segments in the file lies at the address
\* the image names, and the rest of a segment is zero, whatever was in those pages.
At(p, address) ==
  LET page == address \div PageBytes IN
  IF page \in DOMAIN procs[p].pages THEN memory[procs[p].pages[page]][address % PageBytes]
                                    ELSE Unmapped
Loaded(p) ==
  \A s \in DOMAIN procs[p].image :
    LET segm == procs[p].image[s] IN
    \A i \in 0 .. segm.mem_size - 1 :
      At(p, segm.vaddr + i) = IF i < segm.file_size THEN <<s, i>> ELSE Zero

\* The images that CreateProcess loads as they are meant: every segment starts a page
\* no other one has bytes in, and what is behind its bytes of the file ends in the page
\* that they end in.
LastPage(segm, size) == (segm.vaddr + size - 1) \div PageBytes
PagesOfSegment(segm) == segm.vaddr \div PageBytes .. LastPage(segm, segm.mem_size)
Plain(image) ==
  \A s \in DOMAIN image :
    /\ image[s].vaddr % PageBytes = 0
    /\ LastPage(image[s], image[s].mem_size) = LastPage(image[s], image[s].file_size)
    /\ \A o \in DOMAIN image \ {s} :
         PagesOfSegment(image[s]) \cap PagesOfSegment(image[o]) = {}

\* The pages of RAM are the free ones and those of the processes that live, and each
\* belongs to one process: what ends gives back all it took.
PagesAccounted ==
  /\ free \cup UNION {Pages(procs[p]) \cap PhysicalPages : p \in Living} = PhysicalPages
  /\ \A p, q \in Living : p # q => Pages(procs[p]) \cap Pages(procs[q]) \cap PhysicalPages = {}
  /\ \A p \in Living : Pages(procs[p]) \cap free = {}

\* A process finds its file's bytes and zeroes where its image says, and its end
\* gives back every page, whatever its segments share.
ProcessPagesRight ==
  (\A p \in Ready : Plain(procs[p].image) => Loaded(p)) /\ PagesAccounted
=============================================================================
