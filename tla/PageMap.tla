------------------------------- MODULE PageMap -------------------------------
(***************************************************************************)
(* The paging structures of the kernel (src/kernel/mem/pmap.c) over the    *)
(* physical pages, and the big allocations that are made from both         *)
(* (src/kernel/rt/alloc.c): BigAlloc takes a range of linear addresses and *)
(* then, for every page of it, a physical page that it maps there.  The    *)
(* linear ranges are the allocator's of VRanges, used through what         *)
(* RangeAllocator promises of it.  Nothing of this is under a lock but the *)
(* two allocators below: calls of several threads are interleaved between  *)
(* any two accesses to what they share.                                    *)
(***************************************************************************)
EXTENDS PhysPages

CONSTANTS
  Callers,  \* threads that allocate and free
  Dirs,     \* page directory entries below those of the paging structures
  Slots,    \* entries of one page table
  Lengths,  \* lengths, in pages, that callers ask for
  MaxLive,  \* bound: allocations handed out and under way
  TablesAlone  \* bound: nobody maps in a directory entry whose table is being made

\* No header behind the last of a range reads as one in use.
MapAssumption ==
  /\ RangesAssumption /\ UsedBeyond = {}
  /\ {Dirs, Slots} \subseteq Nat \ {0} /\ Lengths \subseteq Nat \ {0}
  /\ TablesAlone \in BOOLEAN

NoEntry == -1
Addresses == 0 .. Dirs * Slots - 1
Forbidden(a) == a = 0 \/ a \notin Addresses
Dir(a) == a \div Slots
Slot(a) == a % Slots
EmptyTable == [s \in 0 .. Slots - 1 |-> NoEntry]

VARIABLES
  pdir,    \* the table of each directory entry
  table,   \* the entries in the pages that are tables; page 0 may become one
  live,    \* allocations handed out: [start, len]
  call     \* each caller's BigAlloc or BigFree: its step, and its local variables

mapVars == <<free_pages, used_pages, pages_held, pdir, table, live, call>>

Idle == [op |-> "none", start |-> 0, len |-> 0, done |-> 0, page |-> NullPage,
         table |-> NullPage]

MapInit ==
  /\ PagesInit
  /\ pdir = [d \in 0 .. Dirs - 1 |-> NoEntry]
  /\ table = [p \in Pages \cup {NullPage} |-> EmptyTable]
  /\ live = {}
  /\ call = [c \in Callers |-> Idle]

-----------------------------------------------------------------------------
LinearAddressPhysicalPage(a) ==
  IF Forbidden(a) \/ pdir[Dir(a)] = NoEntry THEN NullPage
  ELSE LET entry == table[pdir[Dir(a)]][Slot(a)] IN IF entry = NoEntry THEN NullPage ELSE entry

IsLinearAddressMapped(a) ==
  /\ ~Forbidden(a)
  /\ pdir[Dir(a)] # NoEntry
  /\ table[pdir[Dir(a)]][Slot(a)] # NoEntry

TableMissing(a) == pdir[Dir(a)] = NoEntry

UnmapLinearAddress_Keep(a) == table' = table
UnmapLinearAddress(a) ==
  table' = IF IsLinearAddressMapped(a) THEN [table EXCEPT ![pdir[Dir(a)]][Slot(a)] = NoEntry]
                                       ELSE table

-----------------------------------------------------------------------------
\* BigAlloc.  The addresses of a call are its own from the range allocator on.
Cover(v) == v.start .. v.start + v.len - 1
Apart(start, len) ==
  /\ start >= 1 /\ start + len <= Dirs * Slots
  /\ \A v \in live : (start .. start + len - 1) \cap Cover(v) = {}
  /\ \A c \in Callers : (start .. start + len - 1) \cap Cover(call[c]) = {}

BigAlloc(c, start, len) ==
  /\ call[c] = Idle /\ Apart(start, len)
  /\ Cardinality(live) + Cardinality({o \in Callers : call[o] # Idle}) < MaxLive
  /\ call' = [call EXCEPT ![c] = [Idle EXCEPT !.op = "alloc", !.start = start, !.len = len]]
  /\ UNCHANGED <<pageVars, pdir, table, live>>

\* Bound: a call goes on while the last range has a page for it.
RoomLeft == free_pages[RangeCount - 1] # <<>>

Goto(c, op) == call' = [call EXCEPT ![c].op = op]
BigAllocPage(c) ==
  /\ call[c].op = "alloc" /\ RoomLeft
  /\ AllocPhysicalPage
  /\ call' = [call EXCEPT ![c].op = "map", ![c].page = AllocatedPage]
  /\ UNCHANGED <<pdir, table, live>>

\* MapLinearAddress tests whether the directory entry of the address is used,
Address(c) == call[c].start + call[c].done
MakesTable(c) == call[c].op \in {"table", "link", "clear"}
Undisturbed(c) ==
  TablesAlone =>
    \A o \in Callers \ {c} : MakesTable(o) => Dir(Address(o)) # Dir(Address(c))

TestTable(c) ==
  /\ call[c].op = "map" /\ Undisturbed(c)
  /\ Goto(c, IF ~Forbidden(Address(c)) /\ TableMissing(Address(c)) THEN "table" ELSE "enter")
  /\ UNCHANGED <<pageVars, pdir, table, live>>

\* takes a page for the table of an unused one,
AllocTable(c) ==
  /\ call[c].op = "table" /\ RoomLeft
  /\ TakePages
  /\ call' = [call EXCEPT ![c].op = "link", ![c].table = AllocatedPage]
  /\ UNCHANGED <<pages_held, pdir, table, live>>

\* stores the entry, which makes a table of whatever is in the page,
LinkTable(c) ==
  /\ call[c].op = "link"
  /\ pdir' = [pdir EXCEPT ![Dir(Address(c))] = call[c].table]
  /\ \E left \in {NoEntry, call[c].page} :
       table' = [table EXCEPT ![call[c].table] = [s \in 0 .. Slots - 1 |-> left]]
  /\ Goto(c, "clear")
  /\ UNCHANGED <<pageVars, live>>

\* clears the table the entry leads to now,
ClearedTable_From(c) ==
  [s \in 0 .. Slots - 1 |->
    IF s < Slot(Address(c)) THEN table[pdir[Dir(Address(c))]][s] ELSE NoEntry]
ClearedTable(c) == EmptyTable
ClearTable(c) ==
  /\ call[c].op = "clear"
  /\ table' = [table EXCEPT ![pdir[Dir(Address(c))]] = ClearedTable(c)]
  /\ Goto(c, "enter")
  /\ UNCHANGED <<pageVars, pdir, live>>

\* and enters the page, unless the address is in use.  BigAlloc takes no notice of
\* that and goes on to its next page.
EnterPage(c) ==
  /\ call[c].op = "enter"
  /\ LET a == Address(c) IN
     table' = IF Forbidden(a) \/ IsLinearAddressMapped(a) THEN table
              ELSE [table EXCEPT ![pdir[Dir(a)]][Slot(a)] = call[c].page]
  /\ IF call[c].done + 1 = call[c].len
       THEN /\ call' = [call EXCEPT ![c] = Idle]
            /\ live' = live \cup {[start |-> call[c].start, len |-> call[c].len]}
       ELSE /\ call' = [call EXCEPT ![c].op = "alloc", ![c].done = @ + 1]
            /\ UNCHANGED live
  /\ UNCHANGED <<pageVars, pdir>>

\* BigFree looks up the first page of the allocation, unmaps it, gives the addresses
\* back, and then that page.
FreedPage(v) == LinearAddressPhysicalPage(v.start)
BigFree(c, v) ==
  /\ call[c] = Idle
  /\ call' = [call EXCEPT ![c] =
       [Idle EXCEPT !.op = "unmap", !.start = v.start, !.len = v.len, !.page = FreedPage(v)]]
  /\ live' = live \ {v}
  /\ UNCHANGED <<pageVars, pdir, table>>

BigFreeUnmap(c) ==
  /\ call[c].op = "unmap"
  /\ UnmapLinearAddress(call[c].start)
  /\ Goto(c, "release")
  /\ UNCHANGED <<pageVars, pdir, live>>

BigFreeRange(c) ==
  /\ call[c].op = "release"
  /\ call' = [call EXCEPT ![c].op = "give", ![c].len = 0]
  /\ UNCHANGED <<pageVars, pdir, table, live>>

BigFreePage(c) ==
  /\ call[c].op = "give"
  /\ FreePhysicalPages(call[c].page)
  /\ call' = [call EXCEPT ![c] = Idle]
  /\ UNCHANGED <<pdir, table, live>>

MapStep(c) ==
  \/ \E start \in Addresses, len \in Lengths : BigAlloc(c, start, len)
  \/ BigAllocPage(c) \/ TestTable(c) \/ AllocTable(c) \/ LinkTable(c)
  \/ ClearTable(c) \/ EnterPage(c)
  \/ \E v \in live : BigFree(c, v)
  \/ BigFreeUnmap(c) \/ BigFreeRange(c) \/ BigFreePage(c)

MapNext == \E c \in Callers : MapStep(c)

MapSpec == MapInit /\ [][MapNext]_mapVars

-----------------------------------------------------------------------------
MapTypeOK ==
  /\ PagesTypeOK
  /\ pdir \in [0 .. Dirs - 1 -> Pages \cup {NoEntry, NullPage}]
  /\ table \in [Pages \cup {NullPage} -> [0 .. Slots - 1 -> Pages \cup {NoEntry, NullPage}]]
  /\ \A v \in live : v.start \in Addresses /\ v.len \in Lengths
  /\ \A c \in Callers :
       call[c].op \in {"none", "alloc", "map", "table", "link", "clear", "enter",
                     "unmap", "release", "give"}

\* Every page of an allocation handed out by BigAlloc is backed by RAM that is in
\* use, though BigFree left pages of earlier allocations mapped there.
LiveAddresses == UNION {Cover(v) : v \in live}
LiveIsBacked ==
  \A a \in LiveAddresses : LinearAddressPhysicalPage(a) \in pages_held

\* No two addresses that callers own lead to the same page of RAM, and none leads
\* to a page that is a table.
BackingIsPrivate ==
  \A a \in LiveAddresses :
    /\ \A b \in LiveAddresses :
         LinearAddressPhysicalPage(a) = LinearAddressPhysicalPage(b) => a = b
    /\ \A d \in 0 .. Dirs - 1 : LinearAddressPhysicalPage(a) # pdir[d]

\* The walk of AllocPhysicalPage loses pages of every range but the last: there
\* every page in use was given to a caller or is a table, or is to be one.
Tables == {pdir[d] : d \in 0 .. Dirs - 1} \ {NoEntry}
NewTables == {call[c].table : c \in {o \in Callers : call[o].op = "link"}}
LastRangeKept ==
  {p \in PagesOf(RangeCount - 1) : used_pages[p].flags # {}}
    = (pages_held \cup Tables \cup NewTables) \cap PagesOf(RangeCount - 1)

\* alloc/dealloc of pages from boot on: the lists and headers of every range agree
\* with one another and with what the callers hold.
PageListsRight == FreeIndexRight /\ HeldNotFree /\ LastRangeKept

\* Memory that BigAlloc has returned is its caller's alone, whatever was mapped or
\* freed before and whoever maps and frees in the meantime.
AllocationsBacked == LiveIsBacked /\ BackingIsPrivate
=============================================================================
