---------------------------- MODULE PageMapProofs ----------------------------
(***************************************************************************)
(* Proofs about PageMap and the physical pages below it, for any ranges of *)
(* RAM, any number of page tables and of entries in each, any threads that *)
(* allocate and free at once, and allocations of any lengths whose pages   *)
(* are found in the last range.                                            *)
(***************************************************************************)
EXTENDS PageMap, FiniteSetTheorems, FunctionTheorems, SequenceTheorems, TLAPS

-----------------------------------------------------------------------------
LastRange == RangeCount - 1
LastPages == PagesOf(LastRange)
InUse == {"used", "head"}
Headers == [index : Nat, flags : {{}, InUse}]
NoPage == LastPages \cup {NoEntry}
Usable == 1 .. Dirs * Slots - 1

(* The steps of a call: those of BigAlloc, those that make a table, and those *)
(* that have a page in hand.                                                  *)
Making == {"table", "link", "clear"}
Mapping == Making \cup {"map", "enter"}
Allocating == Mapping \cup {"alloc"}
WithPage == Mapping \cup {"release", "give"}
Steps == Allocating \cup {"none", "unmap", "release", "give"}
CallRecords == [op : Steps, start : Nat, len : Nat, done : Nat, page : Nat, table : Nat]

(* The address that a call maps next. *)
At(x) == x.start + x.done

(* The page an address leads to, and the same once tables that are being made *)
(* are clear.                                                                 *)
P(a) == LinearAddressPhysicalPage(a)
Unclear(d) == \E c \in Callers : call[c].op = "clear" /\ Dir(At(call[c])) = d
Q(a) == IF Unclear(Dir(a)) THEN NullPage ELSE P(a)

-----------------------------------------------------------------------------
(* The parts of the inductive invariant.  First of the physical pages. *)
PagesTypes ==
  /\ free_pages \in [Ranges -> Seq(Nat)]
  /\ used_pages \in [Pages -> Headers]

(* The page at each place of a free list is one of the range, and its      *)
(* header has that place. *)
ListRight ==
  \A r \in Ranges : \A i \in 1 .. Len(free_pages[r]) :
    /\ free_pages[r][i] \in PagesOf(r)
    /\ used_pages[free_pages[r][i]].flags = {}
    /\ used_pages[free_pages[r][i]].index = i - 1

PagesInv == PagesTypes /\ ListRight /\ FreeIndexRight

(* Of the paging structures. *)
MapTypes ==
  /\ pages_held \subseteq LastPages
  /\ pdir \in [0 .. Dirs - 1 -> NoPage]
  /\ table \in [Pages \cup {NullPage} -> [0 .. Slots - 1 -> NoPage]]
  /\ call \in [Callers -> CallRecords]

(* A page of the last range is in use if it was given out, is a table or is to *)
(* be one, and it is one of these only, and once.                              *)
LastInUse ==
  /\ \A p \in LastPages : used_pages[p].flags # {} <=> p \in pages_held \cup Tables \cup NewTables
  /\ pages_held \cap Tables = {} /\ pages_held \cap NewTables = {} /\ Tables \cap NewTables = {}
  /\ \A d, e \in 0 .. Dirs - 1 : pdir[d] = pdir[e] /\ pdir[d] # NoEntry => d = e
  /\ \A c, o \in Callers :
       call[c].op = "link" /\ call[o].op = "link" /\ call[c].table = call[o].table => c = o

(* Every address that is mapped, its owner's or left behind by BigFree, has *)
(* a page of its own that was given out. *)
MappedRight ==
  /\ \A a \in Usable : Q(a) \in pages_held \cup {NullPage}
  /\ \A a, b \in Usable : Q(a) = Q(b) /\ Q(a) # NullPage => a = b

(* Of the allocations: they lie apart and are mapped. *)
LiveRight ==
  /\ \A v \in live : /\ v.start \in Nat /\ v.len \in Lengths /\ Cover(v) \subseteq Usable
                     /\ \A a \in Cover(v) : Q(a) # NullPage
  /\ \A v, w \in live : v # w => Cover(v) \cap Cover(w) = {}

(* Of a call x: its addresses are its own, *)
Owning(x) ==
  /\ x.op \in {"none", "give"} => x.len = 0
  /\ x.op \notin {"none", "give"} => x.len \in Lengths
  /\ x.op \in Allocating => x.done < x.len
  /\ Cover(x) \subseteq Usable
  /\ \A v \in live : Cover(x) \cap Cover(v) = {}

(* BigAlloc has mapped them up to the next one; BigFree found the first one's page; *)
(* the page in hand is mapped nowhere;                                              *)
Holding(x) ==
  /\ x.op \in Allocating => \A a \in Usable : a \in x.start .. At(x) - 1 => Q(a) # NullPage
  /\ x.op = "unmap" => x.page = Q(x.start) /\ x.page # NullPage
  /\ x.op \in WithPage => x.page \in pages_held /\ \A a \in Usable : Q(a) # x.page

(* and the table of the next address is there, or is to be made, as its step says. *)
TableRight(x) ==
  /\ x.op \in {"table", "link"} => pdir[Dir(At(x))] = NoEntry
  /\ x.op \in {"clear", "enter"} => pdir[Dir(At(x))] # NoEntry
  /\ x.op = "enter" => ~Unclear(Dir(At(x)))
  /\ x.op = "link" => x.table \in LastPages

CallRight(x) == Owning(x) /\ Holding(x) /\ TableRight(x)
CallsRight == \A c \in Callers : CallRight(call[c])

(* Two calls have different addresses and pages, and make tables for different *)
(* entries of the directory.                                                   *)
PairRight(x, y) ==
  /\ Cover(x) \cap Cover(y) = {}
  /\ x.op \in WithPage /\ y.op \in WithPage => x.page # y.page
  /\ x.op \in Making /\ y.op \in Making => Dir(At(x)) # Dir(At(y))
CallsApart == \A c, o \in Callers : c # o => PairRight(call[c], call[o])

IInv ==
  PagesInv /\ MapTypes /\ LastInUse /\ MappedRight /\ LiveRight /\ CallsRight /\ CallsApart

-----------------------------------------------------------------------------
(* Each page belongs to one range; the last range is one of them.          *)
LEMMA RangesApart ==
  ASSUME RangesAssumption
  PROVE  /\ LastRange \in Ranges
         /\ \A r \in Ranges : r \in Int /\ r <= LastRange /\ PagesOf(r) \subseteq Pages
         /\ \A r \in Ranges : \A p \in PagesOf(r) : p \in Nat /\ p # NullPage
         /\ \A r, s \in Ranges : \A p \in Pages :
              p \in PagesOf(r) /\ p \in PagesOf(s) => r = s
<1>1. LastRange \in Ranges /\ \A r \in Ranges : r \in Int /\ r <= LastRange
  BY DEF RangesAssumption, LastRange, Ranges
<1>2. \A r \in Ranges : PagesOf(r) \subseteq Pages
  BY DEF Pages
<1>3. ASSUME NEW r \in Ranges, NEW p \in PagesOf(r)
      PROVE  p \in Nat /\ p # NullPage
  BY DEF RangesAssumption, PagesOf, NullPage
<1>4. ASSUME NEW r \in Ranges, NEW s \in Ranges, NEW p \in PagesOf(r), p \in PagesOf(s), r < s
      PROVE  FALSE
  BY <1>4 DEF RangesAssumption, PagesOf
<1>5. ASSUME NEW r \in Ranges, NEW s \in Ranges, NEW p \in Pages,
             p \in PagesOf(r), p \in PagesOf(s)
      PROVE  r = s
  BY <1>1, <1>4, <1>5
<1> QED
  BY <1>1, <1>2, <1>3, <1>5

(* The top of a free list that is not empty.                               *)
LEMMA TopOfList ==
  ASSUME RangesAssumption, PagesInv, NEW r \in Walk
  PROVE  /\ r \in Ranges
         /\ Len(free_pages[r]) \in Nat \ {0}
         /\ Last(free_pages[r]) = free_pages[r][Len(free_pages[r])]
         /\ Last(free_pages[r]) \in PagesOf(r)
         /\ Last(free_pages[r]) \in Pages
         /\ used_pages[Last(free_pages[r])].flags = {}
         /\ used_pages[Last(free_pages[r])].index = Len(free_pages[r]) - 1
         /\ Front(free_pages[r]) \in Seq(Nat)
         /\ Len(Front(free_pages[r])) = Len(free_pages[r]) - 1
         /\ \A i \in 1 .. Len(free_pages[r]) - 1 :
              Front(free_pages[r])[i] = free_pages[r][i]
<1> DEFINE s == free_pages[r]
<1>1. r \in Ranges /\ s \in Seq(Nat) /\ s # <<>>
  BY DEF Walk, PagesInv, PagesTypes
<1>2. Len(s) \in Nat \ {0} /\ Last(s) = s[Len(s)] /\ Front(s) = SubSeq(s, 1, Len(s) - 1)
  BY <1>1 DEF Last, Front
<1>3. /\ s[Len(s)] \in PagesOf(r) /\ used_pages[s[Len(s)]].flags = {}
      /\ used_pages[s[Len(s)]].index = Len(s) - 1
  <2>1. Len(free_pages[r]) \in 1 .. Len(free_pages[r])
    BY <1>2
  <2> QED
    BY <1>1, <2>1 DEF PagesInv, ListRight
<1>4. /\ Front(s) \in Seq(Nat) /\ Len(Front(s)) = Len(s) - 1
      /\ \A i \in 1 .. Len(s) - 1 : Front(s)[i] = s[i]
  BY <1>1, <1>2, SubSeqProperties
<1> QED
  BY <1>1, <1>2, <1>3, <1>4, RangesApart

(* The pages that k_mem_AllocPhysicalPage takes are the tops of the lists. *)
LEMMA TakenPages ==
  ASSUME RangesAssumption, PagesInv
  PROVE  /\ Taken \subseteq Pages
         /\ \A r \in Ranges, p \in Pages :
              p \in Taken /\ p \in PagesOf(r) <=> r \in Walk /\ p = Last(free_pages[r])
<1>1. Taken \subseteq Pages
  BY TopOfList DEF Taken
<1>2. ASSUME NEW r \in Ranges, NEW p \in Pages, p \in Taken, p \in PagesOf(r)
      PROVE  r \in Walk /\ p = Last(free_pages[r])
  <2>1. PICK s \in Walk : p = Last(free_pages[s])
    BY <1>2 DEF Taken
  <2>2. s \in Ranges /\ p \in PagesOf(s)
    BY <2>1, TopOfList
  <2> QED
    BY <1>2, <2>1, <2>2, RangesApart
<1>3. ASSUME NEW r \in Ranges, NEW p \in Pages, r \in Walk, p = Last(free_pages[r])
      PROVE  p \in Taken /\ p \in PagesOf(r)
  BY <1>3, TopOfList DEF Taken
<1> QED
  BY <1>1, <1>2, <1>3

(* Taking the top page off every list keeps lists and headers in step: the *)
(* pages that are left keep their places.                                  *)
LEMMA TakePagesKeeps ==
  ASSUME RangesAssumption, PagesInv, TakePages
  PROVE  /\ PagesInv'
         /\ \A p \in Pages :
              used_pages'[p].flags # {} <=> used_pages[p].flags # {} \/ p \in Taken
         /\ \A r \in Ranges : Len(free_pages'[r]) >= Len(free_pages[r]) - 1
<1>1. ASSUME NEW r \in Ranges
      PROVE  /\ free_pages'[r] \in Seq(Nat)
             /\ Len(free_pages'[r]) = IF r \in Walk THEN Len(free_pages[r]) - 1 ELSE 0
             /\ Len(free_pages'[r]) >= Len(free_pages[r]) - 1
             /\ \A i \in 1 .. Len(free_pages'[r]) :
                  free_pages'[r][i] = free_pages[r][i] /\ i \in 1 .. Len(free_pages[r])
  <2>1. free_pages[r] \in Seq(Nat)
    BY DEF PagesInv, PagesTypes
  <2>2. CASE r \in Walk
    <3>1. free_pages'[r] = Front(free_pages[r])
      BY <2>2 DEF TakePages
    <3> QED
      <4>1. Len(free_pages[r]) \in Nat \ {0}
        BY <2>2, TopOfList
      <4>2. /\ free_pages'[r] \in Seq(Nat)
            /\ Len(free_pages'[r]) = Len(free_pages[r]) - 1
            /\ \A i \in 1 .. Len(free_pages[r]) - 1 : free_pages'[r][i] = free_pages[r][i]
        BY <2>2, <3>1, TopOfList
      <4> QED
        BY <2>2, <4>1, <4>2
  <2>3. CASE r \notin Walk
    <3>1. free_pages'[r] = <<>> /\ free_pages[r] = <<>>
      BY <2>3 DEF TakePages, Walk
    <3> QED
      BY <2>1, <2>3, <3>1
  <2> QED
    BY <2>2, <2>3
<1>2. ASSUME NEW p \in Pages
      PROVE  /\ p \in Taken => used_pages'[p] = Header(0, InUse)
             /\ p \notin Taken => used_pages'[p] = used_pages[p]
  BY DEF TakePages, InUse
<1>3. PagesTypes'
  <2>1. free_pages' \in [Ranges -> Seq(Nat)]
    BY <1>1 DEF TakePages
  <2>2. used_pages' \in [Pages -> Headers]
    BY <1>2 DEF TakePages, PagesInv, PagesTypes, Headers, Header, InUse
  <2> QED
    BY <2>1, <2>2 DEF PagesTypes
<1>4. ListRight'
  <2> SUFFICES ASSUME NEW r \in Ranges, NEW i \in 1 .. Len(free_pages'[r])
               PROVE  /\ free_pages'[r][i] \in PagesOf(r)
                      /\ used_pages'[free_pages'[r][i]].flags = {}
                      /\ used_pages'[free_pages'[r][i]].index = i - 1
    BY DEF ListRight
  <2> DEFINE p == free_pages[r][i]
  <2>1. /\ free_pages'[r][i] = p /\ i \in 1 .. Len(free_pages[r])
        /\ r \in Walk /\ i # Len(free_pages[r])
    BY <1>1, TopOfList
  <2>2. p \in PagesOf(r) /\ used_pages[p].flags = {} /\ used_pages[p].index = i - 1
    BY <2>1 DEF PagesInv, ListRight
  <2>3. p # Last(free_pages[r])
    BY <2>1, <2>2, TopOfList
  <2>4. p \in Pages /\ p \notin Taken
    BY <2>2, <2>3, TakenPages, RangesApart
  <2> QED
    BY <1>2, <2>1, <2>2, <2>4
<1>5. FreeIndexRight'
  <2> SUFFICES ASSUME NEW r \in Ranges, NEW p \in PagesOf(r), used_pages'[p].flags = {}
               PROVE  /\ used_pages'[p].index < Len(free_pages'[r])
                      /\ free_pages'[r][used_pages'[p].index + 1] = p
    BY DEF FreeIndexRight
  <2>1. p \in Pages /\ p \notin Taken /\ used_pages'[p] = used_pages[p]
    BY <1>2, RangesApart DEF Header, InUse
  <2> DEFINE i == used_pages[p].index
  <2>2. i \in Nat /\ i < Len(free_pages[r]) /\ free_pages[r][i + 1] = p
    BY <2>1 DEF PagesInv, PagesTypes, Headers, FreeIndexRight
  <2>3. r \in Walk
    BY <2>2 DEF Walk, PagesInv, PagesTypes
  <2>4. i + 1 # Len(free_pages[r])
    BY <2>1, <2>2, <2>3, TopOfList, TakenPages
  <2>5. i + 1 \in 1 .. Len(free_pages'[r])
    <3>1. Len(free_pages[r]) \in Nat \ {0} /\ Len(free_pages'[r]) = Len(free_pages[r]) - 1
      BY <1>1, <2>3, TopOfList
    <3> QED
      BY <2>2, <2>4, <3>1
  <2> QED
    BY SMTT(30), <1>1, <2>1, <2>2, <2>5
<1>6. ASSUME NEW p \in Pages
      PROVE  used_pages'[p].flags # {} <=> used_pages[p].flags # {} \/ p \in Taken
  BY <1>2 DEF Header, InUse
<1> QED
  BY <1>1, <1>3, <1>4, <1>5, <1>6 DEF PagesInv

(* While the last range has a free page, the caller gets its top page, and *)
(* that is the one page it loses.                                          *)
LEMMA AllocatedIsLast ==
  ASSUME RangesAssumption, PagesInv, Len(free_pages[LastRange]) > 0
  PROVE  /\ AllocatedPage \in LastPages
         /\ AllocatedPage # NullPage /\ AllocatedPage # NoEntry /\ AllocatedPage \in Pages
         /\ used_pages[AllocatedPage].flags = {}
         /\ \A p \in LastPages : p \in Taken <=> p = AllocatedPage
<1>1. LastRange \in Walk
  BY RangesApart DEF Walk, PagesInv, PagesTypes
<1>2. \A r \in Walk : r \in Int /\ r <= LastRange
  BY RangesApart DEF Walk
<1>3. (CHOOSE r \in Walk : \A s \in Walk : s <= r) = LastRange
  <2> DEFINE c == CHOOSE r \in Walk : \A s \in Walk : s <= r
  <2>1. c \in Walk /\ \A s \in Walk : s <= c
    BY <1>1, <1>2
  <2>2. LastRange \in Int /\ c \in Int /\ c <= LastRange /\ LastRange <= c
    BY <1>1, <1>2, <2>1
  <2> HIDE DEF c
  <2> QED
    BY <2>2 DEF c
<1>4. AllocatedPage = Last(free_pages[LastRange])
  BY <1>1, <1>3 DEF AllocatedPage
<1>5. /\ AllocatedPage \in LastPages /\ AllocatedPage \in Pages
      /\ used_pages[AllocatedPage].flags = {}
  BY <1>1, <1>4, TopOfList DEF LastPages
<1>6. \A p \in LastPages : p \in Taken <=> p = AllocatedPage
  BY <1>1, <1>4, TakenPages, RangesApart DEF LastPages
<1> QED
  BY <1>5, <1>6, RangesApart DEF LastPages, NoEntry

(* The walk of k_mem_FreePhysicalPages over the headers stops at once: no  *)
(* page is in use without being a head.                                    *)
LEMMA RunIsOnePage ==
  ASSUME RangesAssumption, UsedBeyond = {}, PagesInv, NEW r \in Ranges, NEW page \in PagesOf(r)
  PROVE  RunFrom(r, page) = {page} /\ Cardinality(RunFrom(r, page)) = 1
<1>1. /\ Base(r) \in Nat /\ PageCount(r) \in Nat /\ page \in Nat
      /\ page <= Base(r) + PageCount(r)
  BY DEF RangesAssumption, PagesOf
<1>2. ASSUME NEW q \in Nat
      PROVE  ~Continues(r, q)
  <2>1. ASSUME q \in PagesOf(r)
        PROVE  used_pages[q].flags # {"used"}
    <3>1. used_pages[q].flags \in {{}, InUse}
      BY <2>1, RangesApart DEF PagesInv, PagesTypes, Headers
    <3>2. "used" \in {"used"} /\ "head" \notin {"used"} /\ "head" \in InUse
      BY DEF InUse
    <3> QED
      BY <3>1, <3>2
  <2> QED
    BY <2>1 DEF Continues
<1>3. RunFrom(r, page) = {page}
  <2>1. page \in RunFrom(r, page)
    BY <1>1 DEF RunFrom
  <2>2. ASSUME NEW p \in RunFrom(r, page), p # page
        PROVE  FALSE
    <3>1. page + 1 \in page + 1 .. p /\ page + 1 \in Nat
      BY <1>1, <2>2 DEF RunFrom
    <3> QED
      BY <1>2, <3>1 DEF RunFrom
  <2> QED
    BY <2>1, <2>2
<1> QED
  BY <1>3, FS_Singleton

(* Giving a page back puts it on top of the list of its range, and its     *)
(* header says so.                                                         *)
LEMMA FreeKeeps ==
  ASSUME RangesAssumption, UsedBeyond = {}, PagesInv, NEW page \in LastPages,
         used_pages[page].flags # {}, FreePhysicalPages(page)
  PROVE  /\ PagesInv'
         /\ pages_held' = pages_held \ {page}
         /\ \A p \in Pages :
              used_pages'[p].flags # {} <=> used_pages[p].flags # {} /\ p # page
<1>1. LastRange \in Ranges /\ page \in PagesOf(LastRange) /\ page \in Pages
  BY RangesApart DEF LastPages
<1>2. used_pages[page].flags = InUse
  BY <1>1 DEF PagesInv, PagesTypes, Headers
<1> DEFINE s == free_pages[LastRange]
<1>3. s \in Seq(Nat) /\ Len(s) \in Nat /\ page \in Nat
  BY <1>1, RangesApart DEF PagesInv, PagesTypes
<1>4. /\ RunFrom(LastRange, page) = {page}
      /\ Cardinality(RunFrom(LastRange, page)) = 1
  BY <1>1, RunIsOnePage
<1>5. /\ free_pages' = [free_pages EXCEPT ![LastRange] = s \o [i \in 1 .. 1 |-> page + i - 1]]
      /\ used_pages' = [p \in Pages |-> IF p \in {page}
           THEN Header(FreedIndex(LastRange, page, p), {}) ELSE used_pages[p]]
      /\ pages_held' = pages_held \ {page}
  <2>1. PICK r \in Ranges :
          /\ page \in PagesOf(r)
          /\ LET run == RunFrom(r, page) IN
             /\ free_pages' = [free_pages EXCEPT ![r] =
                  @ \o [i \in 1 .. Cardinality(run) |-> page + i - 1]]
             /\ used_pages' = [p \in Pages |->
                  IF p \in run THEN Header(FreedIndex(r, page, p), {}) ELSE used_pages[p]]
             /\ pages_held' = pages_held \ {page}
    BY <1>1, <1>2 DEF FreePhysicalPages, InUse
  <2>2. r = LastRange
    BY <1>1, <2>1, RangesApart
  <2> QED
    BY <1>1, <1>4, <2>1, <2>2 DEF PagesInv, PagesTypes
<1>6. /\ free_pages'[LastRange] \in Seq(Nat)
      /\ Len(free_pages'[LastRange]) = Len(s) + 1
      /\ free_pages'[LastRange][Len(s) + 1] = page
      /\ \A i \in 1 .. Len(s) : free_pages'[LastRange][i] = s[i]
  <2> DEFINE one == [i \in 1 .. 1 |-> page + i - 1]
  <2>1. one \in Seq(Nat) /\ Len(one) = 1 /\ one[1] = page
    BY <1>3
  <2>2. free_pages'[LastRange] = s \o one
    BY <1>1, <1>5 DEF PagesInv, PagesTypes
  <2> HIDE DEF one, s
  <2>3. /\ s \o one \in Seq(Nat) /\ Len(s \o one) = Len(s) + Len(one)
        /\ \A i \in 1 .. Len(s) + Len(one) :
             (s \o one)[i] = IF i <= Len(s) THEN s[i] ELSE one[i - Len(s)]
    BY <1>3, <2>1, ConcatProperties
  <2> QED
    BY <1>3, <2>1, <2>2, <2>3
<1>7. \A r \in Ranges : r # LastRange => free_pages'[r] = free_pages[r]
  BY <1>5 DEF PagesInv, PagesTypes
<1>8. /\ used_pages'[page] = Header(Len(s), {})
      /\ \A p \in Pages : p # page => used_pages'[p] = used_pages[p]
  BY <1>1, <1>3, <1>5 DEF FreedIndex
<1>9. PagesTypes'
  <2>1. free_pages' \in [Ranges -> Seq(Nat)]
    BY <1>1, <1>5, <1>6 DEF PagesInv, PagesTypes
  <2>2. Header(Len(s), {}) \in Headers
    BY <1>3 DEF Header, Headers
  <2>3. used_pages' \in [Pages -> Headers]
    BY <1>1, <1>5, <1>8, <2>2 DEF PagesInv, PagesTypes
  <2> QED
    BY <2>1, <2>3 DEF PagesTypes
<1>10. ListRight'
  <2> SUFFICES ASSUME NEW r \in Ranges, NEW i \in 1 .. Len(free_pages'[r])
               PROVE  /\ free_pages'[r][i] \in PagesOf(r)
                      /\ used_pages'[free_pages'[r][i]].flags = {}
                      /\ used_pages'[free_pages'[r][i]].index = i - 1
    BY DEF ListRight
  <2>1. CASE r = LastRange /\ i = Len(s) + 1
    BY <1>1, <1>3, <1>6, <1>8, <2>1 DEF Header
  <2>2. CASE ~(r = LastRange /\ i = Len(s) + 1)
    <3>1. free_pages'[r][i] = free_pages[r][i] /\ i \in 1 .. Len(free_pages[r])
      <4>1. CASE r = LastRange
        <5>1. i \in 1 .. Len(s)
          BY <1>3, <1>6, <2>2, <4>1
        <5> QED
          BY <1>6, <4>1, <5>1
      <4>2. CASE r # LastRange
        BY <1>7, <4>2
      <4> QED
        BY <4>1, <4>2
    <3>2. /\ free_pages[r][i] \in PagesOf(r) /\ used_pages[free_pages[r][i]].flags = {}
          /\ used_pages[free_pages[r][i]].index = i - 1
      BY <3>1 DEF PagesInv, ListRight
    <3>3. free_pages[r][i] # page /\ free_pages[r][i] \in Pages
      BY <3>2, RangesApart
    <3> QED
      BY <1>8, <3>1, <3>2, <3>3
  <2> QED
    BY <2>1, <2>2
<1>11. FreeIndexRight'
  <2> SUFFICES ASSUME NEW r \in Ranges, NEW p \in PagesOf(r), used_pages'[p].flags = {}
               PROVE  /\ used_pages'[p].index < Len(free_pages'[r])
                      /\ free_pages'[r][used_pages'[p].index + 1] = p
    BY DEF FreeIndexRight
  <2>1. CASE p = page
    <3>1. r = LastRange
      BY <1>1, <2>1, RangesApart
    <3> QED
      BY <1>3, <1>6, <1>8, <2>1, <3>1 DEF Header
  <2>2. CASE p # page
    <3>1. p \in Pages /\ used_pages'[p] = used_pages[p]
      BY <1>8, <2>2, RangesApart
    <3>2. /\ used_pages[p].index \in Nat /\ used_pages[p].index < Len(free_pages[r])
          /\ free_pages[r][used_pages[p].index + 1] = p
      BY <3>1 DEF PagesInv, PagesTypes, Headers, FreeIndexRight
    <3>3. /\ Len(free_pages[r]) \in Nat
          /\ used_pages[p].index + 1 \in 1 .. Len(free_pages[r])
      BY <3>2 DEF PagesInv, PagesTypes
    <3> QED
      <4>1. CASE r = LastRange
        BY SMTT(30), <1>6, <3>1, <3>2, <3>3, <4>1
      <4>2. CASE r # LastRange
        BY <1>7, <3>1, <3>2, <4>2
      <4> QED
        BY <4>1, <4>2
  <2> QED
    BY <2>1, <2>2
<1>12. \A p \in Pages : used_pages'[p].flags # {} <=> used_pages[p].flags # {} /\ p # page
  BY <1>8 DEF Header
<1> QED
  BY <1>5, <1>9, <1>10, <1>11, <1>12 DEF PagesInv

-----------------------------------------------------------------------------
(* An address has a directory entry and a place in its table, and no other *)
(* address has the same.                                                   *)
LEMMA AddressParts ==
  ASSUME MapAssumption, NEW a \in Usable
  PROVE  /\ a \in Nat /\ ~Forbidden(a)
         /\ Dir(a) \in 0 .. Dirs - 1 /\ Slot(a) \in 0 .. Slots - 1
         /\ a = Dir(a) * Slots + Slot(a)
<1>1. Dirs \in Nat \ {0} /\ Slots \in Nat \ {0}
  BY DEF MapAssumption
<1>2. Dirs * Slots \in Nat
  BY <1>1, Z3
<1>3. a \in Nat /\ a # 0 /\ a < Dirs * Slots
  BY <1>2 DEF Usable
<1>4. Dir(a) \in Nat /\ Slot(a) \in 0 .. Slots - 1 /\ a = Dir(a) * Slots + Slot(a)
  BY <1>1, <1>3, Z3 DEF Dir, Slot
<1>5. Dir(a) < Dirs
  <2> SUFFICES ASSUME Dir(a) >= Dirs
               PROVE  FALSE
    BY <1>1, <1>4
  <2>1. Dir(a) * Slots >= Dirs * Slots
    BY <1>1, <1>4, Z3
  <2> QED
    BY <1>1, <1>2, <1>3, <1>4, <2>1, Z3
<1>6. ~Forbidden(a)
  BY <1>2, <1>3 DEF Forbidden, Addresses
<1> QED
  BY <1>1, <1>3, <1>4, <1>5, <1>6

(* Where an address leads, in terms of the two entries that are looked up. *)
LEMMA LeadsTo ==
  ASSUME MapAssumption, MapTypes, NEW a \in Usable
  PROVE  /\ pdir[Dir(a)] = NoEntry => P(a) = NullPage
         /\ pdir[Dir(a)] # NoEntry =>
              /\ pdir[Dir(a)] \in Pages /\ table[pdir[Dir(a)]][Slot(a)] \in NoPage
              /\ table[pdir[Dir(a)]][Slot(a)] = NoEntry => P(a) = NullPage
              /\ table[pdir[Dir(a)]][Slot(a)] # NoEntry => P(a) = table[pdir[Dir(a)]][Slot(a)]
         /\ P(a) \in LastPages \cup {NullPage}
         /\ IsLinearAddressMapped(a) <=> P(a) # NullPage
<1>1. ~Forbidden(a) /\ Dir(a) \in 0 .. Dirs - 1 /\ Slot(a) \in 0 .. Slots - 1
  BY AddressParts
<1>2. pdir[Dir(a)] \in NoPage
  BY <1>1 DEF MapTypes
<1>3. ASSUME pdir[Dir(a)] # NoEntry
      PROVE  pdir[Dir(a)] \in Pages /\ table[pdir[Dir(a)]][Slot(a)] \in NoPage
  <2>1. pdir[Dir(a)] \in LastPages
    BY <1>2, <1>3 DEF NoPage
  <2>2. pdir[Dir(a)] \in Pages
    BY <2>1, RangesApart DEF LastPages, MapAssumption
  <2>3. table[pdir[Dir(a)]] \in [0 .. Slots - 1 -> NoPage]
    BY <2>2 DEF MapTypes
  <2> QED
    BY <1>1, <2>2, <2>3
<1>4. NullPage \notin LastPages
  BY RangesApart DEF LastPages, MapAssumption
<1>5. CASE pdir[Dir(a)] = NoEntry
  BY <1>1, <1>5 DEF P, LinearAddressPhysicalPage, IsLinearAddressMapped
<1>6. CASE pdir[Dir(a)] # NoEntry
  BY <1>1, <1>3, <1>4, <1>6 DEF P, LinearAddressPhysicalPage, IsLinearAddressMapped, NoPage
<1> QED
  BY <1>5, <1>6

-----------------------------------------------------------------------------
(* A step that leaves lists and headers alone.                             *)
LEMMA PagesStay ==
  ASSUME PagesInv, free_pages' = free_pages, used_pages' = used_pages
  PROVE  PagesInv'
BY DEF PagesInv, PagesTypes, ListRight, FreeIndexRight

(* What a call's record says of its addresses.                             *)
LEMMA CallAddresses ==
  ASSUME MapAssumption, NEW x \in CallRecords, Owning(x), x.op \notin {"none", "give"}
  PROVE  /\ x.start \in Usable /\ x.start \in Cover(x)
         /\ x.op \in Allocating => At(x) \in Usable /\ At(x) \in Cover(x)
         /\ x.op \in Allocating => x.start .. At(x) - 1 \subseteq Cover(x)
<1>1. x.start \in Nat /\ x.len \in Nat \ {0} /\ x.done \in Nat /\ Cover(x) \subseteq Usable
  BY DEF CallRecords, Owning, MapAssumption
<1>2. x.op \in Allocating => x.done < x.len
  BY DEF Owning
<1> QED
  BY <1>1, <1>2 DEF Cover, At

(* The step of one call leaves another one right, if it leaves that one's  *)
(* addresses, page and table alone.                                        *)
LEMMA OthersKeep ==
  ASSUME MapAssumption, NEW x \in CallRecords, CallRight(x),
         \A v \in live' : Cover(x) \cap Cover(v) = {},
         \A a \in Usable : a \in Cover(x) => Q(a)' = Q(a),
         x.op \in WithPage => x.page \in pages_held' /\ \A a \in Usable : Q(a)' # x.page,
         TableRight(x)'
  PROVE  CallRight(x)'
<1>1. Owning(x)'
  BY DEF CallRight, Owning
<1>2. Holding(x)'
  <2>1. ASSUME x.op \in Allocating, NEW a \in Usable, a \in x.start .. At(x) - 1
        PROVE  Q(a)' # NullPage
    <3>1. a \in Cover(x)
      BY <2>1, CallAddresses DEF CallRight, Allocating, Mapping, Making
    <3> QED
      BY <2>1, <3>1 DEF CallRight, Holding
  <2>2. ASSUME x.op = "unmap"
        PROVE  x.page = Q(x.start)' /\ x.page # NullPage
    <3>1. x.start \in Usable /\ x.start \in Cover(x)
      BY <2>2, CallAddresses DEF CallRight
    <3> QED
      BY <2>2, <3>1 DEF CallRight, Holding
  <2> QED
    BY <2>1, <2>2 DEF Holding
<1> QED
  BY <1>1, <1>2 DEF CallRight

(* The calls are right again when the one that took a step is, and the     *)
(* others are.                                                             *)
LEMMA CallsJoin ==
  ASSUME MapTypes, CallsApart, NEW c \in Callers, NEW x \in CallRecords,
         call' = [call EXCEPT ![c] = x], CallRight(x)',
         \A o \in Callers \ {c}, y \in CallRecords : y = call[o] => CallRight(y)',
         \A o \in Callers \ {c} : PairRight(x, call[o])
  PROVE  CallsRight' /\ CallsApart' /\ call' \in [Callers -> CallRecords]
<1>1. call \in [Callers -> CallRecords]
  BY DEF MapTypes
<1>2. call'[c] = x /\ \A o \in Callers \ {c} : call'[o] = call[o]
  BY <1>1
<1>3. CallsRight'
  BY <1>1, <1>2 DEF CallsRight
<1>4. ASSUME NEW y, NEW z, PairRight(y, z)
      PROVE  PairRight(z, y)
  BY <1>4 DEF PairRight
<1>5. CallsApart'
  <2> SUFFICES ASSUME NEW o \in Callers, NEW u \in Callers, o # u
               PROVE  PairRight(call'[o], call'[u])
    BY DEF CallsApart
  <2>1. CASE o = c
    BY <1>2, <2>1
  <2>2. CASE u = c
    <3>1. PairRight(x, call[o])
      BY <2>2
    <3>2. PairRight(call[o], x)
      BY <1>4, <3>1
    <3> QED
      BY <1>2, <2>2, <3>2
  <2>3. CASE o # c /\ u # c
    BY <1>2, <2>3 DEF CallsApart
  <2> QED
    BY <2>1, <2>2, <2>3
<1> QED
  BY <1>1, <1>3, <1>5

(* A step that leaves directory and tables alone and is none of clearing.  *)
LEMMA QuietStep ==
  ASSUME MapAssumption, IInv, NEW c \in Callers, NEW x \in CallRecords,
         call' = [call EXCEPT ![c] = x], pdir' = pdir, table' = table,
         x.op # "clear", call[c].op # "clear", live' \subseteq live,
         \A o \in Callers \ {c} : call[o].op \in WithPage => call[o].page \in pages_held'
  PROVE  /\ \A d : Unclear(d)' <=> Unclear(d)
         /\ \A a : Q(a)' = Q(a)
         /\ \A o \in Callers \ {c}, y \in CallRecords : y = call[o] => CallRight(y)'
<1>1. call'[c] = x /\ \A o \in Callers \ {c} : call'[o] = call[o]
  BY DEF IInv, MapTypes
<1>2. \A d : Unclear(d)' <=> Unclear(d)
  BY <1>1 DEF Unclear
<1>3. \A a : P(a)' = P(a)
  BY DEF P, LinearAddressPhysicalPage
<1>4. \A a : Q(a)' = Q(a)
  BY <1>2, <1>3 DEF Q
<1>5. ASSUME NEW o \in Callers \ {c}, NEW y \in CallRecords, y = call[o]
      PROVE  CallRight(y)'
  <2>1. CallRight(y)
    BY <1>5 DEF IInv, CallsRight
  <2>2. TableRight(y)'
    BY <1>2, <2>1 DEF CallRight, TableRight
  <2>3. y.op \in WithPage => y.page \in pages_held' /\ \A a \in Usable : Q(a)' # y.page
    BY <1>4, <1>5, <2>1 DEF CallRight, Holding
  <2>4. \A v \in live' : Cover(y) \cap Cover(v) = {}
    BY <2>1 DEF CallRight, Owning
  <2> QED
    BY <1>4, <2>1, <2>2, <2>3, <2>4, OthersKeep
<1> QED
  BY <1>2, <1>4, <1>5

(* What is mapped and what is live stays right when no address leads       *)
(* elsewhere, no page is given back, and nothing new is handed out.        *)
LEMMA MappedStays ==
  ASSUME MappedRight, LiveRight, \A a \in Usable : Q(a)' = Q(a),
         pages_held \subseteq pages_held',
         live' \subseteq live
  PROVE  MappedRight' /\ LiveRight'
<1>1. MappedRight'
  BY DEF MappedRight
<1>2. LiveRight'
  BY DEF LiveRight
<1> QED
  BY <1>1, <1>2

(* And what is in use, when no step of linking is taken.                   *)
LEMMA InUseStays ==
  ASSUME MapTypes, LastInUse, NEW c \in Callers, NEW x \in CallRecords,
         call' = [call EXCEPT ![c] = x], x.op # "link", call[c].op # "link",
         pdir' = pdir
  PROVE  /\ Tables' = Tables /\ NewTables' = NewTables
         /\ \A o, u \in Callers :
              call'[o].op = "link" /\ call'[u].op = "link" /\ call'[o].table = call'[u].table
                => o = u
<1>1. call'[c] = x /\ \A o \in Callers \ {c} : call'[o] = call[o]
  BY DEF MapTypes
<1>2. Tables' = Tables
  BY DEF Tables
<1>3. {o \in Callers : call'[o].op = "link"} = {o \in Callers : call[o].op = "link"}
  BY <1>1
<1>4. \A o \in Callers : call[o].op = "link" => call'[o].table = call[o].table
  BY <1>1
<1>5. NewTables' = NewTables
  BY <1>3, <1>4 DEF NewTables
<1>6. \A o, u \in Callers :
        call'[o].op = "link" /\ call'[u].op = "link" /\ call'[o].table = call'[u].table
          => o = u
  BY <1>1 DEF LastInUse
<1> QED
  BY <1>2, <1>5, <1>6

-----------------------------------------------------------------------------
(* A call of BigAlloc begins: its addresses are apart from those of others. *)
LEMMA BigAllocKeeps ==
  ASSUME MapAssumption, IInv, NEW c \in Callers, NEW start \in Addresses, NEW len \in Lengths,
         BigAlloc(c, start, len)
  PROVE  IInv'
<1> DEFINE z == [Idle EXCEPT !.op = "alloc", !.start = start, !.len = len]
<1>1. /\ call[c] = Idle /\ Apart(start, len) /\ call' = [call EXCEPT ![c] = z]
      /\ UNCHANGED <<free_pages, used_pages, pages_held, pdir, table, live>>
  BY DEF BigAlloc, pageVars
<1>2. start \in Nat /\ len \in Nat \ {0}
  BY DEF MapAssumption, Addresses
<1>z. Idle \in CallRecords /\ Idle.op = "none" /\ Idle.done = 0
  BY DEF Idle, CallRecords, Steps, NullPage
<1>x. /\ z \in CallRecords /\ z.op = "alloc" /\ z.start = start /\ z.len = len /\ z.done = 0
      /\ call[c].op = "none"
  BY <1>1, <1>2, <1>z DEF CallRecords, Steps, Allocating
<1> HIDE DEF z
<1>y. PICK x \in CallRecords : x = z
  BY <1>x
<1>3. /\ call' = [call EXCEPT ![c] = x]
      /\ x.op = "alloc" /\ x.start = start /\ x.len = len /\ x.done = 0
      /\ call[c].op = "none"
  BY <1>1, <1>x, <1>y
<1>4. start .. start + len - 1 \subseteq Usable
  BY <1>1, <1>2, AddressParts, Z3 DEF Apart, Usable, MapAssumption
<1>5. \A o \in Callers \ {c} : call[o].op \in WithPage => call[o].page \in pages_held'
  BY <1>1 DEF IInv, CallsRight, CallRight, Holding, MapTypes
<1>6. /\ \A a : Q(a)' = Q(a)
      /\ \A o \in Callers \ {c}, y \in CallRecords : y = call[o] => CallRight(y)'
  BY <1>1, <1>3, <1>5, QuietStep
<1>7. Cover(x) = start .. start + len - 1
  BY <1>3 DEF Cover
<1>8. CallRight(x)'
  <2>1. Owning(x)'
    BY <1>1, <1>3, <1>2, <1>4, <1>7 DEF Owning, Apart
  <2>2. Holding(x)'
    BY <1>2, <1>3 DEF Holding, At, WithPage, Mapping, Making
  <2>3. TableRight(x)'
    BY <1>3 DEF TableRight
  <2> QED
    BY <2>1, <2>2, <2>3 DEF CallRight
<1>9. \A o \in Callers \ {c} : PairRight(x, call[o])
  BY <1>1, <1>3, <1>7 DEF PairRight, Apart, WithPage, Mapping, Making
<1>10. CallsRight' /\ CallsApart' /\ call' \in [Callers -> CallRecords]
  BY <1>1, <1>3, <1>6, <1>8, <1>9, CallsJoin DEF IInv
<1>11. PagesInv' /\ MappedRight' /\ LiveRight'
  BY <1>1, <1>6, PagesStay, MappedStays DEF IInv
<1>12. MapTypes'
  BY <1>1, <1>10 DEF IInv, MapTypes
<1>13. LastInUse'
  <2>1. /\ Tables' = Tables /\ NewTables' = NewTables
        /\ \A o, u \in Callers :
             call'[o].op = "link" /\ call'[u].op = "link" /\ call'[o].table = call'[u].table
               => o = u
    BY <1>1, <1>3, InUseStays DEF IInv
  <2> QED
    BY <1>1, <2>1 DEF IInv, LastInUse
<1> QED
  BY <1>10, <1>11, <1>12, <1>13 DEF IInv

(* A page that k_mem_AllocPhysicalPage gives out is neither held, nor a    *)
(* table, nor mapped anywhere.                                             *)
LEMMA NewPage ==
  ASSUME MapAssumption, IInv, RoomLeft, TakePages
  PROVE  /\ AllocatedPage \in LastPages /\ AllocatedPage \in Nat
         /\ AllocatedPage # NullPage /\ AllocatedPage # NoEntry
         /\ AllocatedPage \notin pages_held \cup Tables \cup NewTables
         /\ \A a \in Usable : Q(a) # AllocatedPage
         /\ PagesInv'
         /\ \A p \in LastPages :
              used_pages'[p].flags # {} <=> used_pages[p].flags # {} \/ p = AllocatedPage
<1>1. free_pages[LastRange] \in Seq(Nat) /\ free_pages[LastRange] # <<>>
  BY RangesApart DEF RoomLeft, LastRange, IInv, PagesInv, PagesTypes, MapAssumption
<1>2. Len(free_pages[LastRange]) > 0
  BY <1>1
<1>3. /\ AllocatedPage \in LastPages /\ AllocatedPage # NullPage /\ AllocatedPage # NoEntry
      /\ used_pages[AllocatedPage].flags = {}
      /\ \A p \in LastPages : p \in Taken <=> p = AllocatedPage
  BY <1>2, AllocatedIsLast DEF IInv, MapAssumption
<1>4. AllocatedPage \notin pages_held \cup Tables \cup NewTables
  BY <1>3 DEF IInv, LastInUse
<1>5. \A a \in Usable : Q(a) # AllocatedPage
  BY <1>3, <1>4 DEF IInv, MappedRight
<1>6. /\ PagesInv'
      /\ \A p \in Pages : used_pages'[p].flags # {} <=> used_pages[p].flags # {} \/ p \in Taken
  BY TakePagesKeeps DEF IInv, MapAssumption
<1>7. LastPages \subseteq Pages /\ LastPages \subseteq Nat
  BY RangesApart DEF LastPages, MapAssumption
<1> QED
  BY <1>3, <1>4, <1>5, <1>6, <1>7

(* BigAlloc gets a page.                                                   *)
LEMMA BigAllocPageKeeps ==
  ASSUME MapAssumption, IInv, NEW c \in Callers, BigAllocPage(c)
  PROVE  IInv'
<1> DEFINE z == [call[c] EXCEPT !.op = "map", !.page = AllocatedPage]
<1>1. /\ call[c].op = "alloc" /\ RoomLeft /\ TakePages
      /\ pages_held' = pages_held \cup ({AllocatedPage} \ {NullPage})
      /\ call' = [call EXCEPT ![c] = z]
      /\ UNCHANGED <<pdir, table, live>>
  BY DEF BigAllocPage, AllocPhysicalPage
<1>2. /\ AllocatedPage \in LastPages /\ AllocatedPage \in Nat
      /\ AllocatedPage # NullPage /\ AllocatedPage # NoEntry
      /\ AllocatedPage \notin pages_held \cup Tables \cup NewTables
      /\ \A a \in Usable : Q(a) # AllocatedPage
      /\ PagesInv'
      /\ \A p \in LastPages :
           used_pages'[p].flags # {} <=> used_pages[p].flags # {} \/ p = AllocatedPage
  BY <1>1, NewPage
<1>3. pages_held' = pages_held \cup {AllocatedPage}
  BY <1>1, <1>2
<1>4. call[c] \in CallRecords /\ CallRight(call[c])
  BY DEF IInv, MapTypes, CallsRight
<1>x. /\ z \in CallRecords /\ z.op = "map" /\ z.page = AllocatedPage
      /\ z.start = call[c].start /\ z.len = call[c].len /\ z.done = call[c].done
  BY <1>2, <1>4 DEF CallRecords, Steps, Allocating, Mapping
<1> HIDE DEF z
<1>y. PICK x \in CallRecords : x = z
  BY <1>x
<1>5. /\ call' = [call EXCEPT ![c] = x] /\ x.op = "map" /\ x.page = AllocatedPage
      /\ x.start = call[c].start /\ x.len = call[c].len /\ x.done = call[c].done
  BY <1>1, <1>x, <1>y
<1>6. Cover(x) = Cover(call[c]) /\ At(x) = At(call[c])
  BY <1>5 DEF Cover, At
<1>7. ASSUME NEW o \in Callers, call[o].op \in WithPage
      PROVE  call[o].page \in pages_held /\ call[o].page \in pages_held'
  BY <1>3, <1>7 DEF IInv, CallsRight, CallRight, Holding, MapTypes
<1>8. /\ \A a : Q(a)' = Q(a)
      /\ \A o \in Callers \ {c}, y \in CallRecords : y = call[o] => CallRight(y)'
  BY <1>1, <1>5, <1>7, QuietStep
<1>9. CallRight(x)'
  <2>1. Owning(x)'
    BY <1>1, <1>4, <1>5, <1>6 DEF CallRight, Owning, Allocating, Mapping
  <2>2. Holding(x)'
    BY <1>1, <1>2, <1>3, <1>4, <1>5, <1>6, <1>8 DEF CallRight, Holding, Allocating
  <2>3. TableRight(x)'
    BY <1>5 DEF TableRight
  <2> QED
    BY <2>1, <2>2, <2>3 DEF CallRight
<1>10. \A o \in Callers \ {c} : PairRight(x, call[o])
  <2> TAKE o \in Callers \ {c}
  <2>1. PairRight(call[c], call[o])
    BY DEF IInv, CallsApart
  <2> QED
    BY <1>2, <1>5, <1>6, <1>7, <2>1 DEF PairRight, Making
<1>11. CallsRight' /\ CallsApart' /\ call' \in [Callers -> CallRecords]
  BY <1>1, <1>5, <1>8, <1>9, <1>10, CallsJoin DEF IInv
<1>12. MappedRight' /\ LiveRight'
  BY <1>1, <1>3, <1>8, MappedStays DEF IInv
<1>13. MapTypes'
  BY <1>1, <1>2, <1>3, <1>11 DEF IInv, MapTypes
<1>14. LastInUse'
  <2>1. /\ Tables' = Tables /\ NewTables' = NewTables
        /\ \A o, u \in Callers :
             call'[o].op = "link" /\ call'[u].op = "link" /\ call'[o].table = call'[u].table
               => o = u
    BY <1>1, <1>5, InUseStays DEF IInv
  <2> QED
    BY <1>1, <1>2, <1>3, <2>1 DEF IInv, LastInUse
<1> QED
  BY <1>2, <1>11, <1>12, <1>13, <1>14 DEF IInv

(* MapLinearAddress tests the directory entry: no other call is making the *)
(* table of that entry then, and none begins to while this one is.         *)
LEMMA TestTableKeeps ==
  ASSUME MapAssumption, TablesAlone, IInv, NEW c \in Callers, TestTable(c)
  PROVE  IInv'
<1> DEFINE a == At(call[c])
           z == [call[c] EXCEPT !.op =
                  IF ~Forbidden(a) /\ TableMissing(a) THEN "table" ELSE "enter"]
<1>1. /\ call[c].op = "map" /\ Undisturbed(c) /\ call' = [call EXCEPT ![c] = z]
      /\ UNCHANGED <<free_pages, used_pages, pages_held, pdir, table, live>>
  BY DEF TestTable, pageVars, Goto, Address, At
<1>2. call[c] \in CallRecords /\ CallRight(call[c])
  BY DEF IInv, MapTypes, CallsRight
<1>x. /\ z \in CallRecords /\ z.page = call[c].page
      /\ z.start = call[c].start /\ z.len = call[c].len /\ z.done = call[c].done
      /\ z.op = IF ~Forbidden(a) /\ TableMissing(a) THEN "table" ELSE "enter"
  BY <1>2 DEF CallRecords, Steps, Allocating, Mapping, Making
<1>4. a \in Usable /\ ~Forbidden(a)
  BY <1>1, <1>2, CallAddresses, AddressParts DEF CallRight, Allocating, Mapping
<1> HIDE DEF z
<1>y. PICK x \in CallRecords : x = z
  BY <1>x
<1>3. /\ call' = [call EXCEPT ![c] = x] /\ x.page = call[c].page
      /\ x.start = call[c].start /\ x.len = call[c].len /\ x.done = call[c].done
      /\ x.op = IF ~Forbidden(a) /\ TableMissing(a) THEN "table" ELSE "enter"
  BY <1>1, <1>x, <1>y
<1>5. /\ Cover(x) = Cover(call[c]) /\ At(x) = a
      /\ x.op \in {"table", "enter"}
      /\ x.op = "table" <=> pdir[Dir(a)] = NoEntry
  BY <1>3, <1>4 DEF Cover, At, TableMissing
<1> HIDE DEF a
<1>6. ASSUME NEW o \in Callers, call[o].op \in WithPage
      PROVE  call[o].page \in pages_held'
  BY <1>1, <1>6 DEF IInv, CallsRight, CallRight, Holding, MapTypes
<1>7. /\ \A d : Unclear(d)' <=> Unclear(d)
      /\ \A b : Q(b)' = Q(b)
      /\ \A o \in Callers \ {c}, y \in CallRecords : y = call[o] => CallRight(y)'
  BY <1>1, <1>3, <1>5, <1>6, QuietStep
<1>8. ASSUME NEW o \in Callers \ {c}, call[o].op \in Making
      PROVE  Dir(At(call[o])) # Dir(a)
  BY <1>1, <1>8 DEF Undisturbed, MakesTable, Making, Address, At, a
<1>9. CallRight(x)'
  <2>1. Owning(x)'
    BY <1>1, <1>2, <1>3, <1>5 DEF CallRight, Owning, Allocating, Mapping, Making
  <2>2. Holding(x)'
    BY <1>1, <1>2, <1>3, <1>5, <1>7 DEF CallRight, Holding, Allocating, Mapping, Making, WithPage, a
  <2>3. ~Unclear(Dir(a))
    BY <1>1, <1>8 DEF Unclear, Making
  <2>4. TableRight(x)'
    BY <1>1, <1>5, <1>7, <2>3 DEF TableRight
  <2> QED
    BY <2>1, <2>2, <2>4 DEF CallRight
<1>10. \A o \in Callers \ {c} : PairRight(x, call[o])
  <2> TAKE o \in Callers \ {c}
  <2>1. PairRight(call[c], call[o])
    BY DEF IInv, CallsApart
  <2>2. /\ Cover(x) \cap Cover(call[o]) = {}
        /\ call[o].op \in WithPage => x.page # call[o].page
    BY <1>1, <1>3, <1>5, <2>1 DEF PairRight, WithPage, Mapping
  <2> QED
    BY <1>5, <1>8, <2>2 DEF PairRight
<1>11. CallsRight' /\ CallsApart' /\ call' \in [Callers -> CallRecords]
  BY <1>1, <1>3, <1>7, <1>9, <1>10, CallsJoin DEF IInv
<1>12. PagesInv' /\ MappedRight' /\ LiveRight'
  BY <1>1, <1>7, PagesStay, MappedStays DEF IInv
<1>13. MapTypes'
  BY <1>1, <1>11 DEF IInv, MapTypes
<1>14. LastInUse'
  <2>1. /\ Tables' = Tables /\ NewTables' = NewTables
        /\ \A o, u \in Callers :
             call'[o].op = "link" /\ call'[u].op = "link" /\ call'[o].table = call'[u].table
               => o = u
    BY <1>1, <1>3, <1>5, InUseStays DEF IInv
  <2> QED
    BY <1>1, <2>1 DEF IInv, LastInUse
<1> QED
  BY <1>11, <1>12, <1>13, <1>14 DEF IInv

(* It takes a page for a table.                                            *)
LEMMA AllocTableKeeps ==
  ASSUME MapAssumption, IInv, NEW c \in Callers, AllocTable(c)
  PROVE  IInv'
<1> DEFINE z == [call[c] EXCEPT !.op = "link", !.table = AllocatedPage]
<1>1. /\ call[c].op = "table" /\ RoomLeft /\ TakePages /\ call' = [call EXCEPT ![c] = z]
      /\ UNCHANGED <<pages_held, pdir, table, live>>
  BY DEF AllocTable
<1>2. /\ AllocatedPage \in LastPages /\ AllocatedPage \in Nat
      /\ AllocatedPage \notin pages_held \cup Tables \cup NewTables
      /\ PagesInv'
      /\ \A p \in LastPages :
           used_pages'[p].flags # {} <=> used_pages[p].flags # {} \/ p = AllocatedPage
  BY <1>1, NewPage
<1>3. call[c] \in CallRecords /\ CallRight(call[c])
  BY DEF IInv, MapTypes, CallsRight
<1>x. /\ z \in CallRecords /\ z.op = "link" /\ z.page = call[c].page /\ z.table = AllocatedPage
      /\ z.start = call[c].start /\ z.len = call[c].len /\ z.done = call[c].done
  BY <1>2, <1>3 DEF CallRecords, Steps, Allocating, Mapping, Making
<1> HIDE DEF z
<1>y. PICK x \in CallRecords : x = z
  BY <1>x
<1>4. /\ call' = [call EXCEPT ![c] = x] /\ x.op = "link"
      /\ x.page = call[c].page /\ x.table = AllocatedPage
      /\ x.start = call[c].start /\ x.len = call[c].len /\ x.done = call[c].done
  BY <1>1, <1>x, <1>y
<1>5. Cover(x) = Cover(call[c]) /\ At(x) = At(call[c])
  BY <1>4 DEF Cover, At
<1>6. ASSUME NEW o \in Callers, call[o].op \in WithPage
      PROVE  call[o].page \in pages_held'
  BY <1>1, <1>6 DEF IInv, CallsRight, CallRight, Holding, MapTypes
<1>7. /\ \A d : Unclear(d)' <=> Unclear(d)
      /\ \A b : Q(b)' = Q(b)
      /\ \A o \in Callers \ {c}, y \in CallRecords : y = call[o] => CallRight(y)'
  BY <1>1, <1>4, <1>6, QuietStep
<1>8. CallRight(x)'
  <2>1. Owning(x)'
    BY <1>1, <1>3, <1>4, <1>5 DEF CallRight, Owning, Allocating, Mapping, Making
  <2>2. Holding(x)'
    BY <1>1, <1>3, <1>4, <1>5, <1>7 DEF CallRight, Holding, Allocating, Mapping, Making, WithPage
  <2>3. TableRight(x)'
    BY <1>1, <1>2, <1>3, <1>4, <1>5 DEF CallRight, TableRight
  <2> QED
    BY <2>1, <2>2, <2>3 DEF CallRight
<1>9. \A o \in Callers \ {c} : PairRight(x, call[o])
  <2> TAKE o \in Callers \ {c}
  <2>1. PairRight(call[c], call[o])
    BY DEF IInv, CallsApart
  <2> QED
    BY <1>1, <1>4, <1>5, <2>1 DEF PairRight, WithPage, Mapping, Making
<1>10. CallsRight' /\ CallsApart' /\ call' \in [Callers -> CallRecords]
  BY <1>1, <1>4, <1>7, <1>8, <1>9, CallsJoin DEF IInv
<1>11. MappedRight' /\ LiveRight'
  BY <1>1, <1>7, MappedStays DEF IInv
<1>12. MapTypes'
  BY <1>1, <1>10 DEF IInv, MapTypes
<1>13. LastInUse'
  <2>1. call'[c] = x /\ \A o \in Callers \ {c} : call'[o] = call[o]
    BY <1>4 DEF IInv, MapTypes
  <2>2. Tables' = Tables
    BY <1>1 DEF Tables
  <2>3. NewTables' = NewTables \cup {AllocatedPage}
    <3>1. \A o \in Callers : call'[o].op = "link" <=> call[o].op = "link" \/ o = c
      BY <1>4, <2>1
    <3>2. \A o \in Callers : o # c => call'[o].table = call[o].table
      BY <2>1
    <3> QED
      BY <1>1, <1>4, <2>1, <3>1, <3>2 DEF NewTables
  <2>4. \A o, u \in Callers :
          call'[o].op = "link" /\ call'[u].op = "link" /\ call'[o].table = call'[u].table
            => o = u
    <3>1. \A o \in Callers : call[o].op = "link" => call[o].table # AllocatedPage
      BY <1>2 DEF NewTables
    <3> QED
      BY <1>4, <2>1, <3>1 DEF IInv, LastInUse
  <2> QED
    BY <1>1, <1>2, <2>2, <2>3, <2>4 DEF IInv, LastInUse
<1> QED
  BY <1>2, <1>10, <1>11, <1>12, <1>13 DEF IInv


(* It stores the directory entry.  Nothing leads anywhere new while the    *)
(* table is to be cleared.                                                 *)
LEMMA LinkTableKeeps ==
  ASSUME MapAssumption, IInv, NEW c \in Callers, LinkTable(c)
  PROVE  IInv'
<1> DEFINE z == [call[c] EXCEPT !.op = "clear"]
<1>1. /\ call[c].op = "link" /\ call' = [call EXCEPT ![c] = z]
      /\ pdir' = [pdir EXCEPT ![Dir(At(call[c]))] = call[c].table]
      /\ UNCHANGED <<free_pages, used_pages, pages_held, live>>
  BY DEF LinkTable, pageVars, Goto, Address, At
<1>2. call[c] \in CallRecords /\ CallRight(call[c])
  BY DEF IInv, MapTypes, CallsRight
<1>x. /\ z \in CallRecords /\ z.op = "clear" /\ z.page = call[c].page
      /\ z.start = call[c].start /\ z.len = call[c].len /\ z.done = call[c].done
  BY <1>2 DEF CallRecords, Steps, Allocating, Mapping, Making
<1> HIDE DEF z
<1>y. PICK x \in CallRecords : x = z
  BY <1>x
<1>3. /\ call' = [call EXCEPT ![c] = x] /\ x.op = "clear" /\ x.page = call[c].page
      /\ x.start = call[c].start /\ x.len = call[c].len /\ x.done = call[c].done
  BY <1>1, <1>x, <1>y
<1>4. Cover(x) = Cover(call[c]) /\ At(x) = At(call[c])
  BY <1>3 DEF Cover, At
<1>5. /\ At(x) \in Usable /\ Dir(At(x)) \in 0 .. Dirs - 1
      /\ pdir[Dir(At(x))] = NoEntry
      /\ call[c].table \in LastPages /\ call[c].page \in pages_held
  BY <1>1, <1>2, <1>4, CallAddresses, AddressParts
     DEF CallRight, Holding, TableRight, Allocating, Mapping, Making, WithPage
<1>6. PICK d \in 0 .. Dirs - 1 : d = Dir(At(x))
  BY <1>5
<1>7. PICK t \in LastPages : t = call[c].table
  BY <1>5
<1>8. /\ t \in NewTables /\ t \notin Tables /\ t \notin pages_held /\ t # NoEntry /\ t \in Pages
      /\ pdir[d] = NoEntry
  <2>1. t \in NewTables
    BY <1>1, <1>7 DEF NewTables
  <2> QED
    BY <1>5, <1>6, <2>1, RangesApart DEF IInv, LastInUse, LastPages, NoEntry, MapAssumption
<1>9. /\ pdir'[d] = t
      /\ \A e \in 0 .. Dirs - 1 : e # d => pdir'[e] = pdir[e]
      /\ \A e \in 0 .. Dirs - 1 : pdir[e] # t
      /\ pdir' \in [0 .. Dirs - 1 -> NoPage]
  <2>1. pdir \in [0 .. Dirs - 1 -> NoPage] /\ pdir' = [pdir EXCEPT ![d] = t] /\ t \in NoPage
    BY <1>1, <1>4, <1>6, <1>7 DEF IInv, MapTypes, NoPage
  <2>2. ASSUME NEW e \in 0 .. Dirs - 1
        PROVE  pdir[e] # t
    BY <1>8 DEF Tables
  <2> QED
    BY <2>1, <2>2
<1>10. /\ table' \in [Pages \cup {NullPage} -> [0 .. Slots - 1 -> NoPage]]
       /\ \A e \in 0 .. Dirs - 1 :
            pdir[e] # NoEntry => table'[pdir[e]] = table[pdir[e]]
  <2>1. PICK left \in {NoEntry, call[c].page} :
          table' = [table EXCEPT ![t] = [s \in 0 .. Slots - 1 |-> left]]
    BY <1>7 DEF LinkTable
  <2>2. left \in NoPage
    BY <1>5 DEF NoPage, IInv, MapTypes
  <2>3. [s \in 0 .. Slots - 1 |-> left] \in [0 .. Slots - 1 -> NoPage]
    BY <2>2
  <2>4. table \in [Pages \cup {NullPage} -> [0 .. Slots - 1 -> NoPage]]
    BY DEF IInv, MapTypes
  <2>5. ASSUME NEW e \in 0 .. Dirs - 1, pdir[e] # NoEntry
        PROVE  pdir[e] \in Pages
    BY <2>5, RangesApart DEF IInv, MapTypes, NoPage, LastPages, MapAssumption
  <2> QED
    BY <1>9, <2>1, <2>3, <2>4, <2>5
<1>11. call'[c] = x /\ \A o \in Callers \ {c} : call'[o] = call[o]
  BY <1>3 DEF IInv, MapTypes
<1>12. \A e : Unclear(e)' <=> Unclear(e) \/ e = d
  BY <1>1, <1>3, <1>6, <1>11 DEF Unclear
<1>13. ASSUME NEW b \in Usable
       PROVE  Q(b)' = Q(b)
  <2>1. ~Forbidden(b) /\ Dir(b) \in 0 .. Dirs - 1
    BY AddressParts
  <2>2. CASE Dir(b) = d
    <3>1. P(b) = NullPage
      BY <1>8, <2>2, LeadsTo DEF IInv
    <3>2. Unclear(Dir(b))'
      BY <1>12, <2>2
    <3> QED
      BY <3>1, <3>2 DEF Q
  <2>3. CASE Dir(b) # d
    <3>1. Unclear(Dir(b))' <=> Unclear(Dir(b))
      BY <1>12, <2>3
    <3>2. P(b)' = P(b)
      BY <1>9, <1>10, <2>1, <2>3 DEF P, LinearAddressPhysicalPage
    <3> QED
      BY <3>1, <3>2 DEF Q
  <2> QED
    BY <2>2, <2>3
<1>14. CallRight(x)'
  <2>1. Owning(x)'
    BY <1>1, <1>2, <1>3, <1>4 DEF CallRight, Owning, Allocating, Mapping, Making
  <2>2. Holding(x)'
    BY <1>1, <1>2, <1>3, <1>4, <1>13 DEF CallRight, Holding, Allocating, Mapping, Making, WithPage
  <2>3. TableRight(x)'
    BY <1>3, <1>6, <1>8, <1>9 DEF TableRight
  <2> QED
    BY <2>1, <2>2, <2>3 DEF CallRight
<1>15. \A o \in Callers \ {c} : PairRight(x, call[o])
  <2> TAKE o \in Callers \ {c}
  <2>1. PairRight(call[c], call[o])
    BY DEF IInv, CallsApart
  <2> QED
    BY <1>1, <1>3, <1>4, <2>1 DEF PairRight, WithPage, Mapping, Making
<1>16. ASSUME NEW o \in Callers \ {c}, NEW y \in CallRecords, y = call[o]
       PROVE  CallRight(y)'
  <2>1. CallRight(y)
    BY <1>16 DEF IInv, CallsRight
  <2>2. y.op \in {"table", "link"} => Dir(At(y)) # d
    BY <1>3, <1>6, <1>15, <1>16 DEF PairRight, Making
  <2>3. y.op \in Allocating => Dir(At(y)) \in 0 .. Dirs - 1
    BY <2>1, CallAddresses, AddressParts DEF CallRight, Allocating, Mapping, Making
  <2>4. TableRight(y)'
    <3>1. y.op \in {"table", "link"} => pdir'[Dir(At(y))] = NoEntry
      BY <1>9, <2>1, <2>2, <2>3 DEF CallRight, TableRight, Allocating, Mapping, Making
    <3>2. y.op \in {"clear", "enter"} => pdir'[Dir(At(y))] # NoEntry
      BY <1>8, <1>9, <2>1, <2>3 DEF CallRight, TableRight, Allocating, Mapping, Making
    <3>3. y.op = "enter" => ~Unclear(Dir(At(y)))'
      BY <1>8, <1>12, <2>1 DEF CallRight, TableRight
    <3> QED
      BY <2>1, <3>1, <3>2, <3>3 DEF CallRight, TableRight
  <2>5. y.op \in WithPage => y.page \in pages_held' /\ \A a \in Usable : Q(a)' # y.page
    BY <1>1, <1>13, <2>1 DEF CallRight, Holding
  <2>6. \A v \in live' : Cover(y) \cap Cover(v) = {}
    BY <1>1, <2>1 DEF CallRight, Owning
  <2> QED
    BY <1>13, <2>1, <2>4, <2>5, <2>6, OthersKeep
<1>17. CallsRight' /\ CallsApart' /\ call' \in [Callers -> CallRecords]
  BY <1>3, <1>14, <1>15, <1>16, CallsJoin DEF IInv
<1>18. MappedRight' /\ LiveRight'
  BY <1>1, <1>13, MappedStays DEF IInv
<1>19. MapTypes' /\ PagesInv'
  BY <1>1, <1>9, <1>10, <1>17, PagesStay DEF IInv, MapTypes
<1>20. LastInUse'
  <2>1. \A o \in Callers : call'[o].op = "link" <=> call[o].op = "link" /\ o # c
    BY <1>3, <1>11
  <2>2. \A o \in Callers : call[o].op = "link" /\ o # c => call[o].table # t
    BY <1>1, <1>7 DEF IInv, LastInUse
  <2>3. NewTables' = NewTables \ {t}
    BY <1>7, <1>11, <2>1, <2>2 DEF NewTables
  <2>4. Tables' = Tables \cup {t}
    BY <1>8, <1>9 DEF Tables
  <2>5. \A o, u \in Callers :
          call'[o].op = "link" /\ call'[u].op = "link" /\ call'[o].table = call'[u].table
            => o = u
    BY <1>11, <2>1 DEF IInv, LastInUse
  <2>6. \A e, f \in 0 .. Dirs - 1 : pdir'[e] = pdir'[f] /\ pdir'[e] # NoEntry => e = f
    BY <1>9 DEF IInv, LastInUse
  <2> QED
    BY <1>1, <1>8, <2>3, <2>4, <2>5, <2>6 DEF IInv, LastInUse
<1> QED
  BY <1>17, <1>18, <1>19, <1>20 DEF IInv

(* It clears the table, and the addresses of the entry lead nowhere still. *)
LEMMA ClearTableKeeps ==
  ASSUME MapAssumption, IInv, NEW c \in Callers, ClearTable(c)
  PROVE  IInv'
<1> DEFINE z == [call[c] EXCEPT !.op = "enter"]
<1>1. /\ call[c].op = "clear" /\ call' = [call EXCEPT ![c] = z]
      /\ table' = [table EXCEPT ![pdir[Dir(At(call[c]))]] = EmptyTable]
      /\ UNCHANGED <<free_pages, used_pages, pages_held, pdir, live>>
  BY DEF ClearTable, ClearedTable, pageVars, Goto, Address, At
<1>2. call[c] \in CallRecords /\ CallRight(call[c])
  BY DEF IInv, MapTypes, CallsRight
<1>x. /\ z \in CallRecords /\ z.op = "enter" /\ z.page = call[c].page
      /\ z.start = call[c].start /\ z.len = call[c].len /\ z.done = call[c].done
  BY <1>2 DEF CallRecords, Steps, Allocating, Mapping
<1> HIDE DEF z
<1>y. PICK x \in CallRecords : x = z
  BY <1>x
<1>3. /\ call' = [call EXCEPT ![c] = x] /\ x.op = "enter" /\ x.page = call[c].page
      /\ x.start = call[c].start /\ x.len = call[c].len /\ x.done = call[c].done
  BY <1>1, <1>x, <1>y
<1>4. Cover(x) = Cover(call[c]) /\ At(x) = At(call[c])
  BY <1>3 DEF Cover, At
<1>5. /\ At(x) \in Usable /\ Dir(At(x)) \in 0 .. Dirs - 1 /\ pdir[Dir(At(x))] # NoEntry
  BY <1>1, <1>2, <1>4, CallAddresses, AddressParts
     DEF CallRight, TableRight, Allocating, Mapping, Making
<1>6. PICK d \in 0 .. Dirs - 1 : d = Dir(At(x))
  BY <1>5
<1>7. /\ table' \in [Pages \cup {NullPage} -> [0 .. Slots - 1 -> NoPage]]
      /\ table'[pdir[d]] = EmptyTable
      /\ \A e \in 0 .. Dirs - 1 :
           e # d /\ pdir[e] # NoEntry => table'[pdir[e]] = table[pdir[e]]
  <2>1. /\ table \in [Pages \cup {NullPage} -> [0 .. Slots - 1 -> NoPage]]
        /\ table' = [table EXCEPT ![pdir[d]] = EmptyTable]
    BY <1>1, <1>4, <1>6 DEF IInv, MapTypes
  <2>2. EmptyTable \in [0 .. Slots - 1 -> NoPage]
    BY DEF EmptyTable, NoPage
  <2>3. ASSUME NEW e \in 0 .. Dirs - 1, pdir[e] # NoEntry
        PROVE  pdir[e] \in Pages
    BY <2>3, RangesApart DEF IInv, MapTypes, NoPage, LastPages, MapAssumption
  <2>4. \A e \in 0 .. Dirs - 1 : e # d => pdir[e] # pdir[d]
    BY <1>5, <1>6 DEF IInv, LastInUse
  <2> QED
    BY <1>5, <1>6, <2>1, <2>2, <2>3, <2>4
<1>8. call'[c] = x /\ \A o \in Callers \ {c} : call'[o] = call[o]
  BY <1>3 DEF IInv, MapTypes
<1>9. ASSUME NEW o \in Callers \ {c}, call[o].op \in Making
      PROVE  Dir(At(call[o])) # d
  BY <1>1, <1>4, <1>6, <1>9 DEF IInv, CallsApart, PairRight, Making
<1>10. \A e : Unclear(e)' <=> Unclear(e) /\ e # d
  BY <1>1, <1>3, <1>4, <1>6, <1>8, <1>9 DEF Unclear, Making
<1>11. Unclear(d)
  BY <1>1, <1>4, <1>6 DEF Unclear
<1>12. ASSUME NEW b \in Usable
       PROVE  Q(b)' = Q(b)
  <2>1. ~Forbidden(b) /\ Dir(b) \in 0 .. Dirs - 1 /\ Slot(b) \in 0 .. Slots - 1
    BY AddressParts
  <2>2. CASE Dir(b) = d
    <3>1. P(b)' = NullPage
      BY <1>1, <1>5, <1>6, <1>7, <2>1, <2>2 DEF P, LinearAddressPhysicalPage, EmptyTable
    <3> QED
      BY <1>11, <2>2, <3>1 DEF Q
  <2>3. CASE Dir(b) # d
    <3>1. Unclear(Dir(b))' <=> Unclear(Dir(b))
      BY <1>10, <2>3
    <3>2. pdir[Dir(b)] # NoEntry => table'[pdir[Dir(b)]] = table[pdir[Dir(b)]]
      BY <1>7, <2>1, <2>3
    <3>3. P(b)' = P(b)
      BY <1>1, <3>2 DEF P, LinearAddressPhysicalPage
    <3> QED
      BY <3>1, <3>3 DEF Q
  <2> QED
    BY <2>2, <2>3
<1>13. CallRight(x)'
  <2>1. Owning(x)'
    BY <1>1, <1>2, <1>3, <1>4 DEF CallRight, Owning, Allocating, Mapping, Making
  <2>2. Holding(x)'
    BY <1>1, <1>2, <1>3, <1>4, <1>12 DEF CallRight, Holding, Allocating, Mapping, Making, WithPage
  <2>3. TableRight(x)'
    BY <1>1, <1>3, <1>5, <1>6, <1>10 DEF TableRight
  <2> QED
    BY <2>1, <2>2, <2>3 DEF CallRight
<1>14. \A o \in Callers \ {c} : PairRight(x, call[o])
  <2> TAKE o \in Callers \ {c}
  <2>1. PairRight(call[c], call[o])
    BY DEF IInv, CallsApart
  <2> QED
    BY <1>1, <1>3, <1>4, <2>1 DEF PairRight, WithPage, Mapping, Making
<1>15. ASSUME NEW o \in Callers \ {c}, NEW y \in CallRecords, y = call[o]
       PROVE  CallRight(y)'
  <2>1. CallRight(y)
    BY <1>15 DEF IInv, CallsRight
  <2>2. TableRight(y)'
    BY <1>1, <1>10, <2>1 DEF CallRight, TableRight
  <2>3. y.op \in WithPage => y.page \in pages_held' /\ \A a \in Usable : Q(a)' # y.page
    BY <1>1, <1>12, <2>1 DEF CallRight, Holding
  <2>4. \A v \in live' : Cover(y) \cap Cover(v) = {}
    BY <1>1, <2>1 DEF CallRight, Owning
  <2> QED
    BY <1>12, <2>1, <2>2, <2>3, <2>4, OthersKeep
<1>16. CallsRight' /\ CallsApart' /\ call' \in [Callers -> CallRecords]
  BY <1>3, <1>13, <1>14, <1>15, CallsJoin DEF IInv
<1>17. MappedRight' /\ LiveRight'
  BY <1>1, <1>12, MappedStays DEF IInv
<1>18. MapTypes' /\ PagesInv'
  BY <1>1, <1>7, <1>16, PagesStay DEF IInv, MapTypes
<1>19. LastInUse'
  <2>1. /\ Tables' = Tables /\ NewTables' = NewTables
        /\ \A o, u \in Callers :
             call'[o].op = "link" /\ call'[u].op = "link" /\ call'[o].table = call'[u].table
               => o = u
    BY <1>1, <1>3, InUseStays DEF IInv
  <2> QED
    BY <1>1, <2>1 DEF IInv, LastInUse
<1> QED
  BY <1>16, <1>17, <1>18, <1>19 DEF IInv

(* Entering a page changes what its address leads to and nothing else, and *)
(* that only if it led nowhere.                                            *)
LEMMA Enters ==
  ASSUME MapAssumption, MapTypes, LastInUse, NEW a \in Usable, NEW page \in LastPages,
         pdir[Dir(a)] # NoEntry, ~Unclear(Dir(a)), \A e : Unclear(e)' <=> Unclear(e),
         pdir' = pdir,
         table' = IF IsLinearAddressMapped(a) THEN table
                  ELSE [table EXCEPT ![pdir[Dir(a)]][Slot(a)] = page]
  PROVE  /\ table' \in [Pages \cup {NullPage} -> [0 .. Slots - 1 -> NoPage]]
         /\ \A b \in Usable : Q(b)' = IF b = a /\ Q(a) = NullPage THEN page ELSE Q(b)
<1>1. Q(a) = P(a)
  BY DEF Q
<1>2. CASE IsLinearAddressMapped(a)
  <2>1. table' = table
    BY <1>2
  <2>2. Q(a) # NullPage
    BY <1>1, <1>2, LeadsTo
  <2>3. \A b \in Usable : P(b)' = P(b)
    BY <2>1 DEF P, LinearAddressPhysicalPage
  <2>4. \A b \in Usable : Q(b)' = Q(b)
    BY <2>3 DEF Q
  <2> QED
    BY <2>1, <2>2, <2>4 DEF MapTypes
<1>3. CASE ~IsLinearAddressMapped(a)
  <2> DEFINE t == pdir[Dir(a)]
  <2>1. /\ P(a) = NullPage /\ t # NoEntry /\ t \in Pages
        /\ Dir(a) \in 0 .. Dirs - 1 /\ Slot(a) \in 0 .. Slots - 1
    BY <1>3, LeadsTo, AddressParts
  <2>2. table' = [table EXCEPT ![t][Slot(a)] = page]
    BY <1>3
  <2>3. table[t] \in [0 .. Slots - 1 -> NoPage] /\ page \in NoPage
    BY <2>1 DEF MapTypes, NoPage
  <2>4. table' \in [Pages \cup {NullPage} -> [0 .. Slots - 1 -> NoPage]]
    <3>1. [table[t] EXCEPT ![Slot(a)] = page] \in [0 .. Slots - 1 -> NoPage]
      BY <2>3
    <3> QED
      BY <2>2, <3>1 DEF MapTypes
  <2>5. ASSUME NEW b \in Usable
        PROVE  Q(b)' = IF b = a /\ Q(a) = NullPage THEN page ELSE Q(b)
    <3>1. /\ ~Forbidden(b) /\ Dir(b) \in 0 .. Dirs - 1 /\ Slot(b) \in 0 .. Slots - 1
      BY AddressParts
    <3>2. CASE b = a
      <4>1. table'[t][Slot(a)] = page /\ page # NoEntry
        BY <2>1, <2>2, <2>3, RangesApart DEF MapTypes, LastPages, NoEntry, MapAssumption
      <4>2. P(b)' = page
        BY <2>1, <3>1, <3>2, <4>1 DEF P, LinearAddressPhysicalPage
      <4>3. Q(b)' = P(b)'
        BY <3>2 DEF Q
      <4> QED
        BY <1>1, <2>1, <3>2, <4>2, <4>3
    <3>3. CASE b # a
      <4>1. Dir(b) # Dir(a) \/ Slot(b) # Slot(a)
        BY <3>3, AddressParts
      <4>2. ASSUME pdir[Dir(b)] # NoEntry
            PROVE  table'[pdir[Dir(b)]][Slot(b)] = table[pdir[Dir(b)]][Slot(b)]
        <5>1. pdir[Dir(b)] = t => Dir(b) = Dir(a)
          BY <2>1, <3>1 DEF LastInUse
        <5>2. pdir[Dir(b)] \in Pages
          BY <4>2, LeadsTo
        <5> QED
          BY <2>2, <2>3, <3>1, <4>1, <5>1, <5>2 DEF MapTypes
      <4>3. P(b)' = P(b)
        BY <3>1, <3>3, <4>2 DEF P, LinearAddressPhysicalPage
      <4> QED
        BY <3>3, <4>3 DEF Q
    <3> QED
      BY <3>2, <3>3
  <2> QED
    BY <2>4, <2>5
<1> QED
  BY <1>2, <1>3

(* The page is entered, and stays the call's or becomes the caller's.      *)
LEMMA EnterPageKeeps ==
  ASSUME MapAssumption, IInv, NEW c \in Callers, EnterPage(c)
  PROVE  IInv'
<1> DEFINE done == call[c].done + 1 = call[c].len
           new == [start |-> call[c].start, len |-> call[c].len]
           z == IF done THEN Idle ELSE [call[c] EXCEPT !.op = "alloc", !.done = @ + 1]
<1>1. /\ call[c].op = "enter" /\ call' = [call EXCEPT ![c] = z]
      /\ live' = IF done THEN live \cup {new} ELSE live
      /\ UNCHANGED <<free_pages, used_pages, pages_held, pdir>>
  BY DEF EnterPage, pageVars
<1>2. call[c] \in CallRecords /\ CallRight(call[c])
  BY DEF IInv, MapTypes, CallsRight
<1>3. PICK x \in CallRecords : x = call[c]
  BY <1>2
<1>4. /\ x.op = "enter" /\ Owning(x) /\ Holding(x) /\ TableRight(x)
      /\ x.start \in Nat /\ x.len \in Nat \ {0} /\ x.done \in Nat /\ x.done < x.len
      /\ x.len \in Lengths
  BY <1>1, <1>2, <1>3 DEF CallRight, CallRecords, Owning, MapAssumption, Allocating, Mapping
<1>5. PICK a \in Usable : a = At(x)
  BY <1>4, CallAddresses DEF Allocating, Mapping
<1>6. PICK page \in LastPages : page = x.page
  BY <1>4 DEF Holding, WithPage, Mapping, IInv, MapTypes
<1>7. /\ a \in Cover(x) /\ Cover(x) \subseteq Usable
      /\ page \in pages_held /\ page # NullPage /\ \A b \in Usable : Q(b) # page
      /\ pdir[Dir(a)] # NoEntry /\ ~Unclear(Dir(a))
      /\ x.start .. a = x.start .. x.start + x.done
  BY <1>4, <1>5, <1>6, CallAddresses, RangesApart
     DEF Owning, Holding, TableRight, Allocating, Mapping, WithPage, LastPages, MapAssumption, At
<1>8. /\ z \in CallRecords
      /\ done => z = Idle
      /\ ~done => /\ z.op = "alloc" /\ z.start = x.start /\ z.len = x.len
                  /\ z.done = x.done + 1
  <2>1. Idle \in CallRecords
    BY DEF Idle, CallRecords, Steps, NullPage
  <2>2. CASE done
    BY <2>1, <2>2
  <2>3. CASE ~done
    <3>1. z = [x EXCEPT !.op = "alloc", !.done = x.done + 1]
      BY <1>3, <2>3
    <3>2. x.done + 1 \in Nat /\ "alloc" \in Steps
      BY <1>4 DEF Steps, Allocating
    <3> HIDE DEF z
    <3> QED
      BY <1>3, <2>3, <3>1, <3>2 DEF CallRecords
  <2> QED
    BY <2>2, <2>3
<1>9. done <=> x.done + 1 = x.len
  BY <1>3
<1>10. new = [start |-> x.start, len |-> x.len]
  BY <1>3
<1> HIDE DEF z, done, new
<1>11. PICK y \in CallRecords : y = z
  BY <1>8
<1>12. call' = [call EXCEPT ![c] = y] /\ y.op \in {"none", "alloc"}
  BY <1>1, <1>8, <1>11 DEF Idle
<1>13. call'[c] = y /\ \A o \in Callers \ {c} : call'[o] = call[o]
  BY <1>12 DEF IInv, MapTypes
<1>14. \A e : Unclear(e)' <=> Unclear(e)
  BY <1>1, <1>12, <1>13 DEF Unclear
<1>15. /\ table' \in [Pages \cup {NullPage} -> [0 .. Slots - 1 -> NoPage]]
       /\ \A b \in Usable : Q(b)' = IF b = a /\ Q(a) = NullPage THEN page ELSE Q(b)
  <2>1. table' = IF IsLinearAddressMapped(a) THEN table
                 ELSE [table EXCEPT ![pdir[Dir(a)]][Slot(a)] = page]
    BY <1>3, <1>5, <1>6, AddressParts DEF EnterPage, Address, At
  <2> QED
    BY <1>1, <1>7, <1>14, <2>1, Enters DEF IInv
<1>16. \A b \in Usable : Q(b) # NullPage \/ b = a => Q(b)' # NullPage
  BY <1>7, <1>15
<1>17. \A b \in Usable : b \in x.start .. a => Q(b)' # NullPage
  <2> SUFFICES ASSUME NEW b \in Usable, b \in x.start .. a, b # a
               PROVE  Q(b) # NullPage
    BY <1>16
  <2>1. b \in x.start .. At(x) - 1
    BY <1>4, <1>5 DEF Usable
  <2> QED
    BY <1>4, <2>1 DEF Holding, Allocating, Mapping
<1>18. MappedRight'
  <2>1. \A b \in Usable : Q(b)' \in pages_held' \cup {NullPage}
    BY <1>1, <1>7, <1>15 DEF IInv, MappedRight
  <2>2. ASSUME NEW b \in Usable, NEW d \in Usable, Q(b)' = Q(d)', Q(b)' # NullPage
        PROVE  b = d
    <3>1. \A u, v \in Usable : Q(u) = Q(v) /\ Q(u) # NullPage => u = v
      BY DEF IInv, MappedRight
    <3>2. CASE b = a /\ Q(a) = NullPage
      BY <1>7, <1>15, <2>2, <3>2
    <3>3. CASE d = a /\ Q(a) = NullPage
      BY <1>7, <1>15, <2>2, <3>3
    <3>4. CASE Q(a) # NullPage \/ (b # a /\ d # a)
      BY <1>15, <2>2, <3>1, <3>4
    <3> QED
      BY <3>2, <3>3, <3>4
  <2> QED
    BY <2>1, <2>2 DEF MappedRight
<1>19. \A v \in live : /\ v.start \in Nat /\ v.len \in Lengths /\ Cover(v) \subseteq Usable
                       /\ \A b \in Cover(v) : Q(b)' # NullPage
  BY <1>16 DEF IInv, LiveRight
<1>20. Cover(new) = Cover(x) /\ new.start \in Nat /\ new.len \in Lengths
  BY <1>4, <1>10 DEF Cover
<1>21. LiveRight'
  <2>1. CASE ~done
    BY <1>1, <1>19, <2>1 DEF IInv, LiveRight, Cover
  <2>2. CASE done
    <3>1. Cover(x) = x.start .. a
      BY <1>4, <1>5, <1>9, <2>2 DEF Cover, At
    <3>2. \A b \in Cover(x) : b \in Usable /\ Q(b)' # NullPage
      BY <1>7, <1>17, <3>1
    <3>3. \A v \in live : Cover(new) \cap Cover(v) = {}
      BY <1>4, <1>20 DEF Owning
    <3>4. live' = live \cup {new}
      BY <1>1, <2>2
    <3>5. \A v \in live' : /\ v.start \in Nat /\ v.len \in Lengths /\ Cover(v) \subseteq Usable
                           /\ \A b \in Cover(v) : Q(b)' # NullPage
      BY <1>7, <1>19, <1>20, <3>2, <3>4
    <3>6. \A v, w \in live' : v # w => Cover(v) \cap Cover(w) = {}
      BY <3>3, <3>4 DEF IInv, LiveRight
    <3> QED
      BY <3>5, <3>6 DEF LiveRight, Cover
  <2> QED
    BY <2>1, <2>2
<1>22. CallRight(y)'
  <2>1. CASE done
    <3>1. y.op = "none" /\ y.len = 0 /\ y.start = 0
      BY <1>8, <1>11, <2>1 DEF Idle
    <3>2. Cover(y) = {}
      BY <3>1 DEF Cover
    <3>3. Owning(y)'
      BY <3>1, <3>2 DEF Owning, Allocating, Mapping, Making
    <3>4. Holding(y)' /\ TableRight(y)'
      BY <3>1 DEF Holding, TableRight, Allocating, Mapping, Making, WithPage
    <3> QED
      BY <3>3, <3>4 DEF CallRight
  <2>2. CASE ~done
    <3>1. y.op = "alloc" /\ y.start = x.start /\ y.len = x.len /\ y.done = x.done + 1
          /\ live' = live
      BY <1>1, <1>8, <1>11, <2>2
    <3>2. Cover(y) = Cover(x)
      BY <3>1 DEF Cover
    <3>3. y.done < y.len
      BY <1>4, <1>9, <2>2, <3>1
    <3>4. Owning(y)'
      BY <1>4, <3>1, <3>2, <3>3 DEF Owning, Allocating, Mapping
    <3>5. At(y) - 1 = a
      BY <1>4, <1>5, <3>1 DEF At
    <3>6. Holding(y)'
      BY <1>17, <3>1, <3>5 DEF Holding, Mapping, Making, WithPage
    <3>7. TableRight(y)'
      BY <3>1 DEF TableRight
    <3> QED
      BY <3>4, <3>6, <3>7 DEF CallRight
  <2> QED
    BY <2>1, <2>2
<1>23. ASSUME NEW o \in Callers \ {c}
       PROVE  PairRight(x, call[o])
  BY <1>3 DEF IInv, CallsApart
<1>24. Cover(y) \subseteq Cover(x)
  <2>1. CASE done
    BY <1>8, <1>11, <2>1 DEF Idle, Cover
  <2>2. CASE ~done
    BY <1>8, <1>11, <2>2 DEF Cover
  <2> QED
    BY <2>1, <2>2
<1>25. \A o \in Callers \ {c} : PairRight(y, call[o])
  BY <1>12, <1>23, <1>24 DEF PairRight, WithPage, Mapping, Making
<1>26. ASSUME NEW o \in Callers \ {c}, NEW w \in CallRecords, w = call[o]
       PROVE  CallRight(w)'
  <2>1. CallRight(w) /\ PairRight(x, w)
    BY <1>23, <1>26 DEF IInv, CallsRight
  <2>2. TableRight(w)'
    BY <1>1, <1>14, <2>1 DEF CallRight, TableRight
  <2>3. w.op \in WithPage => w.page \in pages_held' /\ \A b \in Usable : Q(b)' # w.page
    <3>1. w.op \in WithPage => w.page # page
      BY <1>4, <1>6, <2>1 DEF PairRight, WithPage, Mapping
    <3> QED
      BY <1>1, <1>15, <2>1, <3>1 DEF CallRight, Holding
  <2>4. \A v \in live' : Cover(w) \cap Cover(v) = {}
    <3>1. live' \subseteq live \cup {new}
      BY <1>1
    <3> QED
      BY <1>20, <2>1, <3>1 DEF CallRight, Owning, PairRight
  <2>5. \A b \in Usable : b \in Cover(w) => Q(b)' = Q(b)
    BY <1>7, <1>15, <2>1 DEF PairRight
  <2> QED
    BY <2>1, <2>2, <2>3, <2>4, <2>5, OthersKeep
<1>27. CallsRight' /\ CallsApart' /\ call' \in [Callers -> CallRecords]
  BY <1>12, <1>22, <1>25, <1>26, CallsJoin DEF IInv
<1>28. MapTypes' /\ PagesInv'
  BY <1>1, <1>15, <1>27, PagesStay DEF IInv, MapTypes
<1>29. LastInUse'
  <2>1. /\ Tables' = Tables /\ NewTables' = NewTables
        /\ \A o, u \in Callers :
             call'[o].op = "link" /\ call'[u].op = "link" /\ call'[o].table = call'[u].table
               => o = u
    BY <1>1, <1>12, InUseStays DEF IInv
  <2> QED
    BY <1>1, <2>1 DEF IInv, LastInUse
<1> QED
  BY <1>18, <1>21, <1>27, <1>28, <1>29 DEF IInv

(* Unmapping an address leaves the others where they lead.                 *)
LEMMA Unmaps ==
  ASSUME MapAssumption, MapTypes, LastInUse, NEW a \in Usable,
         UnmapLinearAddress(a), pdir' = pdir, \A e : Unclear(e)' <=> Unclear(e)
  PROVE  /\ table' \in [Pages \cup {NullPage} -> [0 .. Slots - 1 -> NoPage]]
         /\ \A b \in Usable : Q(b)' = IF b = a THEN NullPage ELSE Q(b)
<1>1. /\ table' \in [Pages \cup {NullPage} -> [0 .. Slots - 1 -> NoPage]]
      /\ \A b \in Usable : P(b)' = IF b = a THEN NullPage ELSE P(b)
  <2>1. CASE ~IsLinearAddressMapped(a)
    <3>1. table' = table
      BY <2>1 DEF UnmapLinearAddress
    <3>2. P(a) = NullPage
      BY <2>1, LeadsTo
    <3>3. \A b \in Usable : P(b)' = P(b)
      BY <3>1 DEF P, LinearAddressPhysicalPage
    <3> QED
      BY <3>1, <3>2, <3>3 DEF MapTypes
  <2>2. CASE IsLinearAddressMapped(a)
    <3> DEFINE t == pdir[Dir(a)]
    <3>1. /\ ~Forbidden(a) /\ Dir(a) \in 0 .. Dirs - 1 /\ Slot(a) \in 0 .. Slots - 1
          /\ t # NoEntry /\ t \in Pages
      BY <2>2, LeadsTo, AddressParts DEF IsLinearAddressMapped
    <3>2. table' = [table EXCEPT ![t][Slot(a)] = NoEntry]
      BY <2>2 DEF UnmapLinearAddress
    <3>3. table[t] \in [0 .. Slots - 1 -> NoPage]
      BY <3>1 DEF MapTypes
    <3>4. table' \in [Pages \cup {NullPage} -> [0 .. Slots - 1 -> NoPage]]
      <4>1. [table[t] EXCEPT ![Slot(a)] = NoEntry] \in [0 .. Slots - 1 -> NoPage]
        BY <3>3 DEF NoPage
      <4> QED
        BY <3>2, <4>1 DEF MapTypes
    <3>5. ASSUME NEW b \in Usable
          PROVE  P(b)' = IF b = a THEN NullPage ELSE P(b)
      <4>1. /\ ~Forbidden(b) /\ Dir(b) \in 0 .. Dirs - 1 /\ Slot(b) \in 0 .. Slots - 1
        BY AddressParts
      <4>2. CASE b = a
        <5>1. table'[t][Slot(a)] = NoEntry
          BY <3>1, <3>2, <3>3 DEF MapTypes
        <5> QED
          BY <3>1, <4>2, <5>1 DEF P, LinearAddressPhysicalPage
      <4>3. CASE b # a
        <5>1. Dir(b) # Dir(a) \/ Slot(b) # Slot(a)
          BY <4>3, AddressParts
        <5>2. ASSUME pdir[Dir(b)] # NoEntry
              PROVE  table'[pdir[Dir(b)]][Slot(b)] = table[pdir[Dir(b)]][Slot(b)]
          <6>1. pdir[Dir(b)] = t => Dir(b) = Dir(a)
            BY <3>1, <4>1 DEF LastInUse
          <6>2. pdir[Dir(b)] \in Pages
            BY <5>2, LeadsTo
          <6> QED
            BY <3>2, <3>3, <4>1, <5>1, <6>1, <6>2 DEF MapTypes
        <5> QED
          BY <4>1, <4>3, <5>2 DEF P, LinearAddressPhysicalPage
      <4> QED
        BY <4>2, <4>3
    <3> QED
      BY <3>4, <3>5
  <2> QED
    BY <2>1, <2>2
<1> QED
  BY <1>1 DEF Q

(* BigFree looks up the first page of the allocation.                      *)
LEMMA BigFreeKeeps ==
  ASSUME MapAssumption, IInv, NEW c \in Callers, NEW v \in live, BigFree(c, v)
  PROVE  IInv'
<1> DEFINE z == [Idle EXCEPT !.op = "unmap", !.start = v.start, !.len = v.len,
                             !.page = FreedPage(v)]
<1>1. /\ call[c] = Idle /\ call' = [call EXCEPT ![c] = z] /\ live' = live \ {v}
      /\ UNCHANGED <<free_pages, used_pages, pages_held, pdir, table>>
  BY DEF BigFree, pageVars
<1>2. /\ v.start \in Cover(v) /\ v.start \in Usable /\ Cover(v) \subseteq Usable
      /\ Q(v.start) # NullPage /\ v.start \in Nat /\ v.len \in Lengths /\ v.len \in Nat
  <2>1. v.start \in Nat /\ v.len \in Nat \ {0} /\ Cover(v) \subseteq Usable /\ v.len \in Lengths
    BY DEF IInv, LiveRight, MapAssumption
  <2>2. v.start \in Cover(v)
    BY <2>1 DEF Cover
  <2> QED
    BY <2>1, <2>2 DEF IInv, LiveRight
<1>3. FreedPage(v) = Q(v.start) /\ FreedPage(v) \in LastPages /\ FreedPage(v) \in Nat
  <2>1. FreedPage(v) = Q(v.start)
    BY <1>2 DEF FreedPage, P, Q
  <2>2. Q(v.start) \in LastPages
    BY <1>2 DEF IInv, MappedRight, MapTypes
  <2> QED
    BY <2>1, <2>2, RangesApart DEF LastPages, MapAssumption
<1>x. /\ z \in CallRecords /\ z.op = "unmap" /\ z.start = v.start /\ z.len = v.len
      /\ z.page = FreedPage(v) /\ call[c].op = "none"
  <2>1. Idle \in CallRecords /\ Idle.op = "none"
    BY DEF Idle, CallRecords, Steps, NullPage
  <2> QED
    BY <1>1, <1>2, <1>3, <2>1 DEF CallRecords, Steps
<1> HIDE DEF z
<1>y. PICK x \in CallRecords : x = z
  BY <1>x
<1>4. /\ call' = [call EXCEPT ![c] = x] /\ x.op = "unmap" /\ x.start = v.start /\ x.len = v.len
      /\ x.page = Q(v.start) /\ call[c].op = "none" /\ Cover(x) = Cover(v)
  BY <1>1, <1>3, <1>x, <1>y DEF Cover
<1>5. ASSUME NEW o \in Callers
      PROVE  /\ Cover(call[o]) \cap Cover(v) = {}
             /\ call[o].op \in WithPage => call[o].page \in pages_held'
  BY <1>1 DEF IInv, CallsRight, CallRight, Owning, Holding
<1>6. /\ \A a : Q(a)' = Q(a)
      /\ \A o \in Callers \ {c}, y \in CallRecords : y = call[o] => CallRight(y)'
  BY <1>1, <1>4, <1>5, QuietStep
<1>7. CallRight(x)'
  <2>1. \A w \in live' : Cover(x) \cap Cover(w) = {}
    BY <1>1, <1>4 DEF IInv, LiveRight
  <2>2. Owning(x)'
    BY <1>2, <1>4, <2>1 DEF Owning, Allocating, Mapping, Making
  <2>3. Holding(x)'
    BY <1>2, <1>4, <1>6 DEF Holding, Allocating, Mapping, Making, WithPage
  <2>4. TableRight(x)'
    BY <1>4 DEF TableRight
  <2> QED
    BY <2>2, <2>3, <2>4 DEF CallRight
<1>8. \A o \in Callers \ {c} : PairRight(x, call[o])
  BY <1>4, <1>5 DEF PairRight, WithPage, Mapping, Making
<1>9. CallsRight' /\ CallsApart' /\ call' \in [Callers -> CallRecords]
  BY <1>4, <1>6, <1>7, <1>8, CallsJoin DEF IInv
<1>10. PagesInv' /\ MappedRight' /\ LiveRight'
  BY <1>1, <1>6, PagesStay, MappedStays DEF IInv
<1>11. MapTypes'
  BY <1>1, <1>9 DEF IInv, MapTypes
<1>12. LastInUse'
  <2>1. /\ Tables' = Tables /\ NewTables' = NewTables
        /\ \A o, u \in Callers :
             call'[o].op = "link" /\ call'[u].op = "link" /\ call'[o].table = call'[u].table
               => o = u
    BY <1>1, <1>4, InUseStays DEF IInv
  <2> QED
    BY <1>1, <2>1 DEF IInv, LastInUse
<1> QED
  BY <1>9, <1>10, <1>11, <1>12 DEF IInv

(* It unmaps that page; the others of the allocation stay mapped, in use,  *)
(* and nobody's.                                                           *)
LEMMA BigFreeUnmapKeeps ==
  ASSUME MapAssumption, IInv, NEW c \in Callers, BigFreeUnmap(c)
  PROVE  IInv'
<1> DEFINE z == [call[c] EXCEPT !.op = "release"]
<1>1. /\ call[c].op = "unmap" /\ call' = [call EXCEPT ![c] = z]
      /\ UnmapLinearAddress(call[c].start)
      /\ UNCHANGED <<free_pages, used_pages, pages_held, pdir, live>>
  BY DEF BigFreeUnmap, pageVars, Goto
<1>2. call[c] \in CallRecords /\ CallRight(call[c])
  BY DEF IInv, MapTypes, CallsRight
<1>x. /\ z \in CallRecords /\ z.op = "release" /\ z.page = call[c].page
      /\ z.start = call[c].start /\ z.len = call[c].len /\ z.done = call[c].done
  BY <1>2 DEF CallRecords, Steps
<1> HIDE DEF z
<1>y. PICK x \in CallRecords : x = z
  BY <1>x
<1>3. /\ call' = [call EXCEPT ![c] = x] /\ x.op = "release" /\ x.page = call[c].page
      /\ x.start = call[c].start /\ x.len = call[c].len /\ x.done = call[c].done
  BY <1>1, <1>x, <1>y
<1>4. Cover(x) = Cover(call[c])
  BY <1>3 DEF Cover
<1>5. /\ x.start \in Usable /\ x.start \in Cover(x)
      /\ x.page = Q(x.start) /\ x.page # NullPage
  BY <1>1, <1>2, <1>3, <1>4, CallAddresses DEF CallRight, Holding
<1>6. call'[c] = x /\ \A o \in Callers \ {c} : call'[o] = call[o]
  BY <1>3 DEF IInv, MapTypes
<1>7. \A e : Unclear(e)' <=> Unclear(e)
  BY <1>1, <1>3, <1>6 DEF Unclear
<1>8. PICK s \in Usable : s = x.start
  BY <1>5
<1>9. /\ table' \in [Pages \cup {NullPage} -> [0 .. Slots - 1 -> NoPage]]
      /\ \A b \in Usable : Q(b)' = IF b = s THEN NullPage ELSE Q(b)
  BY <1>1, <1>3, <1>7, <1>8, Unmaps DEF IInv
<1>10. MappedRight'
  BY <1>1, <1>9 DEF IInv, MappedRight
<1>11. LiveRight'
  <2>1. \A v \in live : s \notin Cover(v)
    BY <1>2, <1>4, <1>5, <1>8 DEF CallRight, Owning
  <2> QED
    BY <1>1, <1>9, <2>1 DEF IInv, LiveRight
<1>12. x.page \in pages_held /\ \A b \in Usable : Q(b)' # x.page
  BY <1>5, <1>8, <1>9 DEF IInv, MappedRight
<1>13. CallRight(x)'
  <2>1. Owning(x)'
    BY <1>1, <1>2, <1>3, <1>4 DEF CallRight, Owning, Allocating, Mapping, Making
  <2>2. Holding(x)'
    BY <1>1, <1>3, <1>12 DEF Holding, Allocating, Mapping, Making
  <2>3. TableRight(x)'
    BY <1>3 DEF TableRight
  <2> QED
    BY <2>1, <2>2, <2>3 DEF CallRight
<1>14. ASSUME NEW o \in Callers \ {c}
       PROVE  PairRight(x, call[o])
  <2>1. PairRight(call[c], call[o]) /\ CallRight(call[o])
    BY DEF IInv, CallsApart, CallsRight
  <2>2. call[o].op \in WithPage => x.page # call[o].page
    BY <1>5, <2>1 DEF CallRight, Holding
  <2> QED
    BY <1>3, <1>4, <2>1, <2>2 DEF PairRight, Making
<1>15. ASSUME NEW o \in Callers \ {c}, NEW y \in CallRecords, y = call[o]
       PROVE  CallRight(y)'
  <2>1. CallRight(y) /\ PairRight(x, y)
    BY <1>14, <1>15 DEF IInv, CallsRight
  <2>2. TableRight(y)'
    BY <1>1, <1>7, <2>1 DEF CallRight, TableRight
  <2>3. ASSUME y.op \in WithPage
        PROVE  y.page \in pages_held' /\ \A a \in Usable : Q(a)' # y.page
    <3>1. y.page \in pages_held /\ \A a \in Usable : Q(a) # y.page
      BY <2>1, <2>3 DEF CallRight, Holding
    <3>2. y.page # NullPage
      BY <3>1, RangesApart DEF IInv, MapTypes, LastPages, MapAssumption
    <3> QED
      BY <1>1, <1>9, <3>1, <3>2
  <2>4. \A v \in live' : Cover(y) \cap Cover(v) = {}
    BY <1>1, <2>1 DEF CallRight, Owning
  <2>5. \A a \in Usable : a \in Cover(y) => Q(a)' = Q(a)
    BY <1>5, <1>8, <1>9, <2>1 DEF PairRight
  <2> QED
    BY <2>1, <2>2, <2>3, <2>4, <2>5, OthersKeep
<1>16. CallsRight' /\ CallsApart' /\ call' \in [Callers -> CallRecords]
  BY <1>3, <1>13, <1>14, <1>15, CallsJoin DEF IInv
<1>17. MapTypes' /\ PagesInv'
  BY <1>1, <1>9, <1>16, PagesStay DEF IInv, MapTypes
<1>18. LastInUse'
  <2>1. /\ Tables' = Tables /\ NewTables' = NewTables
        /\ \A o, u \in Callers :
             call'[o].op = "link" /\ call'[u].op = "link" /\ call'[o].table = call'[u].table
               => o = u
    BY <1>1, <1>3, InUseStays DEF IInv
  <2> QED
    BY <1>1, <2>1 DEF IInv, LastInUse
<1> QED
  BY <1>10, <1>11, <1>16, <1>17, <1>18 DEF IInv

(* The range of addresses goes back to the allocator.                      *)
LEMMA BigFreeRangeKeeps ==
  ASSUME MapAssumption, IInv, NEW c \in Callers, BigFreeRange(c)
  PROVE  IInv'
<1> DEFINE z == [call[c] EXCEPT !.op = "give", !.len = 0]
<1>1. /\ call[c].op = "release" /\ call' = [call EXCEPT ![c] = z]
      /\ UNCHANGED <<free_pages, used_pages, pages_held, pdir, table, live>>
  BY DEF BigFreeRange, pageVars
<1>2. call[c] \in CallRecords /\ CallRight(call[c])
  BY DEF IInv, MapTypes, CallsRight
<1>x. z \in CallRecords /\ z.op = "give" /\ z.page = call[c].page /\ z.len = 0
  BY <1>2 DEF CallRecords, Steps
<1> HIDE DEF z
<1>y. PICK x \in CallRecords : x = z
  BY <1>x
<1>3. call' = [call EXCEPT ![c] = x] /\ x.op = "give" /\ x.page = call[c].page /\ x.len = 0
  BY <1>1, <1>x, <1>y
<1>4. Cover(x) = {}
  BY <1>3 DEF Cover, CallRecords
<1>5. ASSUME NEW o \in Callers, call[o].op \in WithPage
      PROVE  call[o].page \in pages_held'
  BY <1>1, <1>5 DEF IInv, CallsRight, CallRight, Holding
<1>6. /\ \A a : Q(a)' = Q(a)
      /\ \A o \in Callers \ {c}, y \in CallRecords : y = call[o] => CallRight(y)'
  BY <1>1, <1>3, <1>5, QuietStep
<1>7. CallRight(x)'
  <2>1. Owning(x)'
    BY <1>3, <1>4 DEF Owning, Allocating, Mapping, Making
  <2>2. Holding(x)'
    BY <1>1, <1>2, <1>3, <1>6 DEF CallRight, Holding, Allocating, Mapping, Making, WithPage
  <2>3. TableRight(x)'
    BY <1>3 DEF TableRight
  <2> QED
    BY <2>1, <2>2, <2>3 DEF CallRight
<1>8. \A o \in Callers \ {c} : PairRight(x, call[o])
  <2> TAKE o \in Callers \ {c}
  <2>1. PairRight(call[c], call[o])
    BY DEF IInv, CallsApart
  <2> QED
    BY <1>1, <1>3, <1>4, <2>1 DEF PairRight, WithPage, Making
<1>9. CallsRight' /\ CallsApart' /\ call' \in [Callers -> CallRecords]
  BY <1>3, <1>6, <1>7, <1>8, CallsJoin DEF IInv
<1>10. PagesInv' /\ MappedRight' /\ LiveRight'
  BY <1>1, <1>6, PagesStay, MappedStays DEF IInv
<1>11. MapTypes'
  BY <1>1, <1>9 DEF IInv, MapTypes
<1>12. LastInUse'
  <2>1. /\ Tables' = Tables /\ NewTables' = NewTables
        /\ \A o, u \in Callers :
             call'[o].op = "link" /\ call'[u].op = "link" /\ call'[o].table = call'[u].table
               => o = u
    BY <1>1, <1>3, InUseStays DEF IInv
  <2> QED
    BY <1>1, <2>1 DEF IInv, LastInUse
<1> QED
  BY <1>9, <1>10, <1>11, <1>12 DEF IInv

(* And the page to the lists.                                              *)
LEMMA BigFreePageKeeps ==
  ASSUME MapAssumption, IInv, NEW c \in Callers, BigFreePage(c)
  PROVE  IInv'
<1>1. /\ call[c].op = "give" /\ call' = [call EXCEPT ![c] = Idle]
      /\ FreePhysicalPages(call[c].page) /\ UNCHANGED <<pdir, table, live>>
  BY DEF BigFreePage
<1>2. /\ call[c].page \in pages_held /\ call[c].page \in LastPages
      /\ \A a \in Usable : Q(a) # call[c].page
  BY <1>1 DEF IInv, CallsRight, CallRight, Holding, WithPage, MapTypes
<1>3. PICK page \in LastPages : page = call[c].page
  BY <1>2
<1>4. used_pages[page].flags # {} /\ page \notin Tables /\ page \notin NewTables
  BY <1>2, <1>3 DEF IInv, LastInUse
<1>5. /\ PagesInv' /\ pages_held' = pages_held \ {page}
      /\ \A p \in Pages :
           used_pages'[p].flags # {} <=> used_pages[p].flags # {} /\ p # page
  BY <1>1, <1>3, <1>4, FreeKeeps DEF IInv, MapAssumption
<1>6. Idle \in CallRecords /\ Idle.op = "none" /\ Idle.len = 0 /\ Idle.start = 0
  BY DEF Idle, CallRecords, Steps, NullPage
<1>7. Cover(Idle) = {}
  BY <1>6 DEF Cover
<1>8. ASSUME NEW o \in Callers \ {c}, call[o].op \in WithPage
      PROVE  call[o].page \in pages_held'
  <2>1. PairRight(call[c], call[o]) /\ CallRight(call[o])
    BY DEF IInv, CallsApart, CallsRight
  <2>2. call[o].page # page
    BY <1>1, <1>3, <1>8, <2>1 DEF PairRight, WithPage
  <2> QED
    BY <1>5, <1>8, <2>1, <2>2 DEF CallRight, Holding
<1>9. /\ \A a : Q(a)' = Q(a)
      /\ \A o \in Callers \ {c}, y \in CallRecords : y = call[o] => CallRight(y)'
  BY <1>1, <1>6, <1>8, QuietStep
<1>10. CallRight(Idle)'
  <2>1. Owning(Idle)'
    BY <1>6, <1>7 DEF Owning, Allocating, Mapping, Making
  <2>2. Holding(Idle)' /\ TableRight(Idle)'
    BY <1>6 DEF Holding, TableRight, Allocating, Mapping, Making, WithPage
  <2> QED
    BY <2>1, <2>2 DEF CallRight
<1>11. \A o \in Callers \ {c} : PairRight(Idle, call[o])
  BY <1>6, <1>7 DEF PairRight, WithPage, Mapping, Making
<1>12. CallsRight' /\ CallsApart' /\ call' \in [Callers -> CallRecords]
  BY <1>1, <1>6, <1>9, <1>10, <1>11, CallsJoin DEF IInv
<1>13. MappedRight'
  BY <1>2, <1>3, <1>5, <1>9 DEF IInv, MappedRight
<1>14. LiveRight'
  BY <1>1, <1>9 DEF IInv, LiveRight
<1>15. MapTypes'
  BY <1>1, <1>5, <1>12 DEF IInv, MapTypes
<1>16. LastInUse'
  <2>1. /\ Tables' = Tables /\ NewTables' = NewTables
        /\ \A o, u \in Callers :
             call'[o].op = "link" /\ call'[u].op = "link" /\ call'[o].table = call'[u].table
               => o = u
    BY <1>1, <1>6, InUseStays DEF IInv
  <2>2. \A p \in LastPages :
          used_pages'[p].flags # {} <=> used_pages[p].flags # {} /\ p # page
    BY <1>5, RangesApart DEF LastPages, MapAssumption
  <2> QED
    BY <1>1, <1>4, <1>5, <2>1, <2>2 DEF IInv, LastInUse
<1> QED
  BY <1>5, <1>12, <1>13, <1>14, <1>15, <1>16 DEF IInv


-----------------------------------------------------------------------------
(* Boot leaves every page free, and at its place (k_mem_Init).             *)
LEMMA Initially ==
  ASSUME MapAssumption, MapInit
  PROVE  IInv
<1> USE DEF MapInit, PagesInit
<1>1. RangesAssumption
  BY DEF MapAssumption
<1>2. ASSUME NEW r \in Ranges, NEW p \in PagesOf(r)
      PROVE  used_pages[p] = Header(p - Base(r), {}) /\ p - Base(r) \in Nat
  <2>1. (CHOOSE s \in Ranges : p \in PagesOf(s)) = r /\ p \in Pages
    BY <1>1, RangesApart
  <2>2. p - Base(r) \in Nat
    BY <1>1 DEF RangesAssumption, PagesOf
  <2> QED
    BY <2>1, <2>2
<1>3. ASSUME NEW r \in Ranges
      PROVE  /\ Base(r) \in Nat /\ PageCount(r) \in Nat /\ PageCount(r) > 0
             /\ free_pages[r] \in Seq(Nat) /\ Len(free_pages[r]) = PageCount(r)
             /\ \A i \in 1 .. PageCount(r) : free_pages[r][i] = Base(r) + i - 1
  <2>1. Base(r) \in Nat \ {0} /\ PageCount(r) \in Nat \ {0}
    BY <1>1 DEF RangesAssumption
  <2>2. free_pages[r] = [i \in 1 .. PageCount(r) |-> Base(r) + i - 1]
    OBVIOUS
  <2>3. \A i \in 1 .. PageCount(r) : Base(r) + i - 1 \in Nat
    BY <2>1
  <2>4. PageCount(r) \in Nat /\ PageCount(r) > 0
    BY <2>1
  <2>5. [i \in 1 .. PageCount(r) |-> Base(r) + i - 1] \in Seq(Nat)
    BY <2>3, <2>4
  <2>6. Len([i \in 1 .. PageCount(r) |-> Base(r) + i - 1]) = PageCount(r)
    BY <2>4
  <2> QED
    BY <2>1, <2>2, <2>4, <2>5, <2>6
<1>4. PagesTypes
  <2>1. \A p \in Pages : used_pages[p] \in Headers
    BY <1>2 DEF Pages, Header, Headers
  <2>2. free_pages \in [Ranges -> Seq(Nat)]
    BY <1>3
  <2> QED
    BY <2>1, <2>2 DEF PagesTypes
<1>5. ListRight
  <2> SUFFICES ASSUME NEW r \in Ranges, NEW i \in 1 .. Len(free_pages[r])
               PROVE  /\ free_pages[r][i] \in PagesOf(r)
                      /\ used_pages[free_pages[r][i]] = Header(i - 1, {})
    <3>1. \A i : Header(i, {}).index = i /\ Header(i, {}).flags = {}
      BY DEF Header
    <3> HIDE DEF MapInit, PagesInit
    <3> QED
      BY <3>1 DEF ListRight
  <2>1. i \in 1 .. PageCount(r) /\ free_pages[r][i] = Base(r) + i - 1 /\ Base(r) \in Nat
        /\ PageCount(r) \in Nat
    BY <1>3
  <2>2. Base(r) + i - 1 \in PagesOf(r) /\ (Base(r) + i - 1) - Base(r) = i - 1
    BY <2>1 DEF PagesOf
  <2> QED
    BY <1>2, <2>1, <2>2
<1>6. FreeIndexRight
  <2> SUFFICES ASSUME NEW r \in Ranges, NEW p \in PagesOf(r)
               PROVE  /\ used_pages[p].index < Len(free_pages[r])
                      /\ free_pages[r][used_pages[p].index + 1] = p
    BY DEF FreeIndexRight
  <2>1. used_pages[p].index = p - Base(r)
    <3> HIDE DEF MapInit, PagesInit
    <3>1. used_pages[p] = Header(p - Base(r), {})
      BY <1>2
    <3> QED
      BY <3>1 DEF Header
  <2>2. /\ p - Base(r) < PageCount(r) /\ p - Base(r) + 1 \in 1 .. PageCount(r)
        /\ Base(r) + (p - Base(r) + 1) - 1 = p
    BY <1>3 DEF PagesOf
  <2> QED
    BY <1>3, <2>1, <2>2
<1>7. Dirs \in Nat /\ Slots \in Nat /\ \A a : P(a) = NullPage
  <2>1. Dirs \in Nat \ {0} /\ Slots \in Nat \ {0}
    BY DEF MapAssumption
  <2>2. ASSUME NEW a, ~Forbidden(a)
        PROVE  pdir[Dir(a)] = NoEntry
    <3>1. a \in Usable
      BY <2>1, <2>2, Z3 DEF Forbidden, Addresses, Usable
    <3> QED
      BY <3>1, AddressParts
  <2> QED
    BY <2>1, <2>2 DEF P, LinearAddressPhysicalPage
<1>i. /\ Idle \in CallRecords /\ Idle.op = "none" /\ Idle.len = 0 /\ Cover(Idle) = {}
      /\ \A c \in Callers : call[c] = Idle
  BY DEF Idle, CallRecords, Steps, NullPage, Cover
<1>8. MapTypes
  <2>1. /\ pages_held \subseteq LastPages /\ pdir \in [0 .. Dirs - 1 -> NoPage]
        /\ table \in [Pages \cup {NullPage} -> [0 .. Slots - 1 -> NoPage]]
    BY DEF NoPage, EmptyTable
  <2>2. call \in [Callers -> CallRecords]
    BY <1>i
  <2> QED
    BY <2>1, <2>2 DEF MapTypes
<1>9. LastInUse
  <2>1. Tables = {} /\ NewTables = {}
    BY <1>i DEF Tables, NewTables
  <2>2. \A p \in LastPages : used_pages[p].flags = {}
    BY <1>1, <1>2, RangesApart DEF LastPages, Header
  <2> QED
    BY <1>i, <2>1, <2>2 DEF LastInUse
<1>10. \A a : Q(a) = NullPage
  BY <1>7 DEF Q
<1>11. MappedRight /\ LiveRight
  BY <1>10 DEF MappedRight, LiveRight
<1>12. CallRight(Idle)
  <2>1. Owning(Idle)
    BY <1>i DEF Owning, Allocating, Mapping, Making
  <2>2. Holding(Idle) /\ TableRight(Idle)
    BY <1>i DEF Holding, TableRight, Allocating, Mapping, Making, WithPage
  <2> QED
    BY <2>1, <2>2 DEF CallRight
<1>13. PairRight(Idle, Idle)
  BY <1>i DEF PairRight, WithPage, Mapping, Making
<1>14. CallsRight /\ CallsApart
  BY <1>i, <1>12, <1>13 DEF CallsRight, CallsApart
<1> QED
  BY <1>4, <1>5, <1>6, <1>8, <1>9, <1>11, <1>14 DEF IInv, PagesInv

(* The inductive invariant holds in every state of the page map.           *)
LEMMA Invariant ==
  ASSUME MapAssumption, TablesAlone
  PROVE  MapSpec => []IInv
<1>1. MapInit => IInv
  BY Initially
<1>2. IInv /\ [MapNext]_mapVars => IInv'
  <2> SUFFICES ASSUME IInv, [MapNext]_mapVars
               PROVE  IInv'
    OBVIOUS
  <2>1. CASE MapNext
    <3>1. PICK c \in Callers : MapStep(c)
      BY <2>1 DEF MapNext
    <3>2. CASE \E start \in Addresses, len \in Lengths : BigAlloc(c, start, len)
      BY <3>2, BigAllocKeeps
    <3>3. CASE BigAllocPage(c) \/ AllocTable(c)
      BY <3>3, BigAllocPageKeeps, AllocTableKeeps
    <3>4. CASE TestTable(c) \/ LinkTable(c) \/ ClearTable(c)
      BY <3>4, TestTableKeeps, LinkTableKeeps, ClearTableKeeps
    <3>5. CASE EnterPage(c)
      BY <3>5, EnterPageKeeps
    <3>6. CASE \E v \in live : BigFree(c, v)
      BY <3>6, BigFreeKeeps
    <3>7. CASE BigFreeUnmap(c) \/ BigFreeRange(c) \/ BigFreePage(c)
      BY <3>7, BigFreeUnmapKeeps, BigFreeRangeKeeps, BigFreePageKeeps
    <3> QED
      BY <3>1, <3>2, <3>3, <3>4, <3>5, <3>6, <3>7 DEF MapStep
  <2>2. CASE UNCHANGED mapVars
    <3>0. /\ free_pages' = free_pages /\ used_pages' = used_pages /\ pages_held' = pages_held
          /\ pdir' = pdir /\ table' = table /\ live' = live /\ call' = call
      BY <2>2 DEF mapVars
    <3>1. PagesInv'
      BY <3>0, PagesStay DEF IInv
    <3>t. Tables' = Tables /\ NewTables' = NewTables
      BY <3>0 DEF Tables, NewTables
    <3>2. MapTypes' /\ LastInUse'
      <4>1. MapTypes'
        BY <3>0 DEF IInv, MapTypes
      <4>2. LastInUse'
        BY <3>0, <3>t DEF IInv, LastInUse
      <4> QED
        BY <4>1, <4>2
    <3>3. /\ \A a : P(a)' = P(a)
          /\ \A d : Unclear(d)' <=> Unclear(d)
      BY <3>0 DEF P, LinearAddressPhysicalPage, Unclear
    <3>4. \A a : Q(a)' = Q(a)
      BY <3>3 DEF Q
    <3>5. MappedRight' /\ LiveRight'
      BY <3>0, <3>4, MappedStays DEF IInv
    <3>6. ASSUME NEW c \in Callers
          PROVE  CallRight(call[c])'
      <4>1. PICK x \in CallRecords : x = call[c]
        BY DEF IInv, MapTypes
      <4>2. CallRight(x)
        BY <4>1 DEF IInv, CallsRight
      <4>3. TableRight(x)'
        BY <3>0, <3>3, <4>2 DEF CallRight, TableRight
      <4>4. CallRight(x)'
        BY <3>0, <3>4, <4>2, <4>3, OthersKeep DEF CallRight, Holding, Owning
      <4> QED
        BY <3>0, <4>1, <4>4
    <3>7. CallsRight' /\ CallsApart'
      BY <3>0, <3>6 DEF IInv, CallsRight, CallsApart
    <3> QED
      BY <3>1, <3>2, <3>5, <3>7 DEF IInv
  <2> QED
    BY <2>1, <2>2
<1> QED
  BY <1>1, <1>2, PTL DEF MapSpec

(* A free list has exactly the pages of its range that are not in use.     *)
LEMMA ListsExact ==
  ASSUME PagesInv, NEW r \in Ranges
  PROVE  Len(free_pages[r]) = Cardinality({p \in PagesOf(r) : used_pages[p].flags = {}})
<1> DEFINE n == Len(free_pages[r])
           F == {p \in PagesOf(r) : used_pages[p].flags = {}}
           f == [i \in 1 .. n |-> free_pages[r][i]]
<1>1. n \in Nat
  BY DEF PagesInv, PagesTypes
<1>2. \A i \in 1 .. n : f[i] \in F /\ used_pages[f[i]].index = i - 1
  BY DEF PagesInv, ListRight
<1>3. \A p \in F : \E i \in 1 .. n : f[i] = p
  <2> TAKE p \in F
  <2>1. p \in Pages
    BY DEF Pages
  <2>2. /\ used_pages[p].index \in Nat /\ used_pages[p].index < n
        /\ free_pages[r][used_pages[p].index + 1] = p
    BY <2>1 DEF PagesInv, PagesTypes, Headers, FreeIndexRight
  <2>3. used_pages[p].index + 1 \in 1 .. n
    BY <1>1, <2>2
  <2> QED
    BY <2>2, <2>3
<1> HIDE DEF n, F
<1>4. f \in [1 .. n -> F]
  BY <1>2
<1>5. \A i, j \in 1 .. n : f[i] = f[j] => i = j
  BY <1>1, <1>2
<1>6. ExistsBijection(1 .. n, F)
  BY <1>3, <1>4, <1>5, Fun_IsBij, Fun_ExistsBij
<1> QED
  BY <1>1, <1>6, FS_CountingElements DEF n, F

(* There are finitely many pages, so no free list is longer than all of    *)
(* them.                                                                   *)
LEMMA PagesFinite ==
  ASSUME RangesAssumption
  PROVE  IsFiniteSet(Pages)
<1> DEFINE top == Base(LastRange) + PageCount(LastRange)
<1>1. top \in Nat
  BY RangesApart DEF RangesAssumption
<1>2. ASSUME NEW r \in Ranges, NEW p \in PagesOf(r)
      PROVE  p \in 0 .. top
  <2>1. LastRange \in Ranges /\ r \in Int /\ r <= LastRange /\ LastRange \in Int
    BY RangesApart
  <2>2. /\ Base(r) \in Nat /\ PageCount(r) \in Nat
        /\ Base(LastRange) \in Nat /\ PageCount(LastRange) \in Nat
    BY <2>1 DEF RangesAssumption
  <2>3. r # LastRange => Base(r) + PageCount(r) <= Base(LastRange)
    BY <2>1 DEF RangesAssumption
  <2>4. Base(r) + PageCount(r) <= top
    BY <2>2, <2>3
  <2> QED
    BY <2>2, <2>4, <1>1 DEF PagesOf
<1>3. Pages \subseteq 0 .. top
  BY <1>2 DEF Pages
<1> HIDE DEF top
<1>4. IsFiniteSet(0 .. top)
  BY <1>1, FS_Interval, 0 \in Int, top \in Int
<1> QED
  BY <1>3, <1>4, FS_Subset

(* The header of a page in use has index 0.                                *)
UsedAreZero == \A p \in Pages : used_pages[p].flags # {} => used_pages[p].index = 0

LEMMA UsedStayZero == UsedAreZero /\ [MapNext]_mapVars => UsedAreZero'
<1> SUFFICES ASSUME UsedAreZero, [MapNext]_mapVars PROVE UsedAreZero'
  OBVIOUS
<1>1. TakePages => UsedAreZero'
  BY DEF TakePages, UsedAreZero, Header
<1>2. UNCHANGED used_pages => UsedAreZero'
  BY DEF UsedAreZero
<1>3. \A page : FreePhysicalPages(page) => UsedAreZero'
  BY <1>2 DEF FreePhysicalPages, UsedAreZero, Header, pageVars
<1>4. \A c : BigAllocPage(c) \/ AllocTable(c) => UsedAreZero'
  BY <1>1 DEF BigAllocPage, AllocTable, AllocPhysicalPage
<1>5. \A c : TestTable(c) \/ LinkTable(c) \/ ClearTable(c) \/ EnterPage(c) => UsedAreZero'
  BY <1>2 DEF TestTable, LinkTable, ClearTable, EnterPage, pageVars
<1>6. \A c, start, len : BigAlloc(c, start, len) => UsedAreZero'
  BY <1>2 DEF BigAlloc, pageVars
<1>7. \A c, v : BigFree(c, v) => UsedAreZero'
  BY <1>2 DEF BigFree, pageVars
<1>8. \A c : BigFreeUnmap(c) \/ BigFreeRange(c) \/ BigFreePage(c) => UsedAreZero'
  BY <1>2, <1>3 DEF BigFreeUnmap, BigFreeRange, BigFreePage, pageVars
<1>9. UNCHANGED mapVars => UsedAreZero'
  BY <1>2 DEF mapVars
<1> QED
  BY <1>4, <1>5, <1>6, <1>7, <1>8, <1>9 DEF MapNext, MapStep

(* The index of a header fits the array of the free pages, and the entries *)
(* of directory and tables are pages (k_mem_AllocPhysicalPage,             *)
(* k_mem_MapLinearAddress), while nobody maps in a directory entry whose   *)
(* table is being made.                                                    *)
THEOREM MapTypesRight ==
  ASSUME MapAssumption, TablesAlone
  PROVE  MapSpec => []MapTypeOK
<1>1. ASSUME IInv, UsedAreZero
      PROVE  MapTypeOK
  <2>1. /\ PagesInv /\ MapTypes /\ LiveRight /\ RangesAssumption
    BY <1>1 DEF IInv, MapAssumption
  <2>2. LastPages \subseteq Pages
    BY <2>1, RangesApart DEF LastPages
  <2>3. free_pages \in [Ranges -> Seq(Pages)]
    <3>1. ASSUME NEW r \in Ranges
          PROVE  free_pages[r] \in Seq(Pages)
      <4>1. free_pages[r] \in Seq(Nat)
        BY <2>1 DEF PagesInv, PagesTypes
      <4>2. \A i \in 1 .. Len(free_pages[r]) : free_pages[r][i] \in Pages
        BY <2>1, RangesApart DEF PagesInv, ListRight
      <4> QED
        BY <4>1, <4>2
    <3> QED
      BY <2>1, <3>1 DEF PagesInv, PagesTypes
  <2>4. ASSUME NEW p \in Pages
        PROVE  /\ used_pages[p].index \in 0 .. Cardinality(Pages) - 1
               /\ used_pages[p].flags \in {{}, {"used", "head"}}
    <3>1. used_pages[p] \in Headers
      BY <2>1 DEF PagesInv, PagesTypes
    <3>2. IsFiniteSet(Pages) /\ Cardinality(Pages) \in Nat
      BY <2>1, PagesFinite, FS_CardinalityType
    <3>3. Cardinality(Pages) # 0
      BY <3>2, FS_EmptySet
    <3>4. ASSUME used_pages[p].flags = {}
          PROVE  used_pages[p].index < Cardinality(Pages)
      <4>1. PICK r \in Ranges : p \in PagesOf(r)
        BY DEF Pages
      <4>2. used_pages[p].index < Len(free_pages[r])
        BY <2>1, <3>4, <4>1 DEF PagesInv, FreeIndexRight
      <4> DEFINE F == {q \in PagesOf(r) : used_pages[q].flags = {}}
      <4>3. Len(free_pages[r]) = Cardinality(F)
        BY <2>1, ListsExact
      <4>4. F \subseteq Pages
        BY DEF Pages
      <4>5. Cardinality(F) <= Cardinality(Pages) /\ Cardinality(F) \in Nat
        BY <3>2, <4>4, FS_Subset, FS_CardinalityType
      <4> HIDE DEF F
      <4> QED
        BY <3>1, <3>2, <4>2, <4>3, <4>5 DEF Headers
    <3>5. used_pages[p].flags # {} => used_pages[p].index = 0
      BY <1>1 DEF UsedAreZero
    <3> QED
      BY <3>1, <3>2, <3>3, <3>4, <3>5 DEF Headers, InUse
  <2>5. pages_held \subseteq Pages
    BY <2>1, <2>2 DEF MapTypes
  <2>6. /\ pdir \in [0 .. Dirs - 1 -> Pages \cup {NoEntry, NullPage}]
        /\ table \in [Pages \cup {NullPage} ->
                       [0 .. Slots - 1 -> Pages \cup {NoEntry, NullPage}]]
    BY <2>1, <2>2 DEF MapTypes, NoPage
  <2>7. ASSUME NEW v \in live
        PROVE  v.start \in Addresses /\ v.len \in Lengths
    <3>1. v.start \in Nat /\ v.len \in Lengths /\ Cover(v) \subseteq Usable
      BY <2>1 DEF LiveRight
    <3>2. v.len \in Nat \ {0} /\ Dirs \in Nat /\ Slots \in Nat
      BY <3>1 DEF MapAssumption
    <3>3. v.start \in Cover(v)
      BY <3>1, <3>2 DEF Cover
    <3>4. v.start \in 1 .. Dirs * Slots - 1
      BY <3>1, <3>3 DEF Usable
    <3> QED
      BY <3>1, <3>4 DEF Addresses
  <2>8. ASSUME NEW c \in Callers
        PROVE  call[c].op \in {"none", "alloc", "map", "table", "link", "clear", "enter",
                               "unmap", "release", "give"}
    <3>1. call[c] \in CallRecords
      BY <2>1 DEF MapTypes
    <3> QED
      BY <3>1 DEF CallRecords, Steps, Allocating, Mapping, Making
  <2> QED
    BY <2>3, <2>4, <2>5, <2>6, <2>7, <2>8 DEF MapTypeOK, PagesTypeOK
<1>2. MapInit => UsedAreZero
  BY DEF MapInit, PagesInit, UsedAreZero, Header
<1>3. MapSpec => []UsedAreZero
  BY <1>2, UsedStayZero, PTL DEF MapSpec
<1> QED
  BY <1>1, <1>3, Invariant, PTL

(* The free lists, the headers and what callers hold agree from boot on    *)
(* (k_mem_AllocPhysicalPage, k_mem_FreePhysicalPages), though calls of     *)
(* several threads are interleaved.                                        *)
THEOREM ListsRight ==
  ASSUME MapAssumption, TablesAlone
  PROVE  MapSpec => []PageListsRight
<1>1. ASSUME IInv
      PROVE  PageListsRight
  <2> USE <1>1
  <2>1. FreeIndexRight
    BY DEF IInv, PagesInv
  <2>2. HeldNotFree
    <3>1. ASSUME NEW r \in Ranges, NEW p \in ToSet(free_pages[r]), p \in pages_held
          PROVE  FALSE
      <4>1. PICK i \in 1 .. Len(free_pages[r]) : p = free_pages[r][i]
        BY DEF ToSet, IInv, PagesInv, PagesTypes
      <4>2. used_pages[p].flags = {}
        BY <4>1 DEF IInv, PagesInv, ListRight
      <4> QED
        BY <3>1, <4>2 DEF IInv, MapTypes, LastInUse
    <3> QED
      BY <3>1, ListsExact DEF HeldNotFree, IInv
  <2>3. LastRangeKept
    BY RangesApart DEF IInv, LastInUse, MapTypes, LastRangeKept, LastPages, LastRange,
                       NoEntry, MapAssumption
  <2> QED
    BY <2>1, <2>2, <2>3 DEF PageListsRight
<1> QED
  BY <1>1, Invariant, PTL

(* The memory that BigAlloc returned is its caller's alone, though BigFree *)
(* leaves the pages of earlier allocations mapped (rt/alloc.c), and though *)
(* other threads map and free between any two of its steps.  TablesAlone   *)
(* is what rt/alloc.c's locks, commented out, would have to give: without  *)
(* it a table may be made twice, and the first one's pages are lost.       *)
THEOREM AllocationsRight ==
  ASSUME MapAssumption, TablesAlone
  PROVE  MapSpec => []AllocationsBacked
<1>1. ASSUME IInv
      PROVE  AllocationsBacked
  <2> USE <1>1
  <2>1. \A a \in LiveAddresses : a \in Usable /\ P(a) \in pages_held /\ P(a) = Q(a)
    <3>1. \A a \in LiveAddresses : a \in Usable /\ Q(a) # NullPage
      BY DEF LiveAddresses, IInv, LiveRight
    <3>2. \A a : Q(a) # NullPage => P(a) = Q(a)
      BY DEF Q
    <3> QED
      BY <3>1, <3>2 DEF IInv, MappedRight
  <2>2. ASSUME NEW a \in LiveAddresses, NEW b \in LiveAddresses, P(a) = P(b)
        PROVE  a = b
    <3>1. P(a) # NullPage
      BY <2>1, RangesApart DEF IInv, MapTypes, LastPages, MapAssumption
    <3> QED
      BY <2>1, <2>2, <3>1 DEF IInv, MappedRight
  <2>3. ASSUME NEW a \in LiveAddresses, NEW d \in 0 .. Dirs - 1, P(a) = pdir[d]
        PROVE  FALSE
    <3>1. P(a) \in pages_held /\ P(a) # NoEntry
      BY <2>1, RangesApart DEF IInv, MapTypes, LastPages, NoEntry, MapAssumption
    <3> QED
      BY <2>3, <3>1 DEF IInv, LastInUse, Tables
  <2> QED
    BY <2>1, <2>2, <2>3 DEF AllocationsBacked, LiveIsBacked, BackingIsPrivate, P
<1> QED
  BY <1>1, Invariant, PTL
=============================================================================
