------------------------------ MODULE PhysPages ------------------------------
(***************************************************************************)
(* The physical page allocator of src/kernel/mem/mngr.c.  Each range of    *)
(* RAM has a stack of its free pages and a header for every page, which    *)
(* holds the page's place in that stack while it is free.  Both operations *)
(* run under k_mem_physical_ranges_spinlock from their first to their last *)
(* access, so each is one step.                                            *)
(***************************************************************************)
EXTENDS Integers, Sequences, FiniteSets, SequencesExt

CONSTANTS
  RangeCount,   \* k_mem_physical_ranges.range_count
  Base(_),      \* number of the first page of range r
  PageCount(_), \* number of pages of range r
  UsedBeyond    \* ranges whose header behind the last reads as USED, not HEAD

Ranges == 0 .. RangeCount - 1
PagesOf(r) == Base(r) .. Base(r) + PageCount(r) - 1
Pages == UNION {PagesOf(r) : r \in Ranges}
NullPage == 0

\* What k_mem_Init leaves: the ranges hold pages, lie apart and go upwards.
RangesAssumption ==
  /\ RangeCount \in Nat \ {0}
  /\ UsedBeyond \subseteq Ranges
  /\ \A r \in Ranges : Base(r) \in Nat \ {0} /\ PageCount(r) \in Nat \ {0}
  /\ \A r, s \in Ranges : r < s => Base(r) + PageCount(r) <= Base(s)

VARIABLES
  free_pages,  \* the stack of free pages of each range
  used_pages,  \* the header of each page: index, flags
  pages_held   \* pages given to a caller and not given back

pageVars == <<free_pages, used_pages, pages_held>>

Header(index, flags) == [index |-> index, flags |-> flags]

PagesInit ==
  /\ free_pages = [r \in Ranges |-> [i \in 1 .. PageCount(r) |-> Base(r) + i - 1]]
  /\ used_pages = [p \in Pages |->
       Header(p - Base(CHOOSE r \in Ranges : p \in PagesOf(r)), {})]
  /\ pages_held = {}

-----------------------------------------------------------------------------
\* The walk does not stop at the first page: every range that has one loses its
\* top page, and the caller gets that of the last such range.
Walk == {r \in Ranges : free_pages[r] # <<>>}
Taken == {Last(free_pages[r]) : r \in Walk}
AllocatedPage_First ==
  IF Walk = {} THEN NullPage
               ELSE Last(free_pages[CHOOSE r \in Walk : \A s \in Walk : r <= s])
AllocatedPage ==
  IF Walk = {} THEN NullPage
               ELSE Last(free_pages[CHOOSE r \in Walk : \A s \in Walk : s <= r])

TakePages ==
  /\ free_pages' = [r \in Ranges |->
       IF r \in Walk THEN Front(free_pages[r]) ELSE free_pages[r]]
  /\ used_pages' = [p \in Pages |->
       IF p \in Taken THEN Header(0, {"used", "head"}) ELSE used_pages[p]]

AllocPhysicalPage ==
  /\ TakePages
  /\ pages_held' = pages_held \cup ({AllocatedPage} \ {NullPage})

\* The pages of one allocation: its head and the pages behind it that are in use
\* and are no head.  Behind the last page the test reads another array's word.
Continues_Head(r, p) == IF p \in PagesOf(r) THEN "used" \in used_pages[p].flags
                                            ELSE r \in UsedBeyond
Continues(r, p) == IF p \in PagesOf(r) THEN used_pages[p].flags = {"used"}
                                       ELSE r \in UsedBeyond
RunFrom(r, page) == {p \in page .. Base(r) + PageCount(r) :
                      \A q \in page + 1 .. p : Continues(r, q)}

FreedIndex_Next(r, page, p) == Len(free_pages[r]) + p - page + 1
FreedIndex_Base(r, page, p) == Len(free_pages[r]) + p - Base(r)
FreedIndex(r, page, p) == Len(free_pages[r]) + p - page

FreePhysicalPages(page) ==
  \/ \E r \in Ranges :
       /\ page \in PagesOf(r)
       /\ used_pages[page].flags = {"used", "head"}
       /\ LET run == RunFrom(r, page) IN
          /\ free_pages' = [free_pages EXCEPT ![r] =
               @ \o [i \in 1 .. Cardinality(run) |-> page + i - 1]]
          /\ used_pages' = [p \in Pages |->
               IF p \in run THEN Header(FreedIndex(r, page, p), {}) ELSE used_pages[p]]
          /\ pages_held' = pages_held \ {page}
  \/ /\ \A r \in Ranges : page \in PagesOf(r) => used_pages[page].flags # {"used", "head"}
     /\ UNCHANGED pageVars

-----------------------------------------------------------------------------
PagesTypeOK ==
  /\ free_pages \in [Ranges -> Seq(Pages)]
  /\ \A p \in Pages : /\ used_pages[p].index \in 0 .. Cardinality(Pages) - 1
                      /\ used_pages[p].flags \in {{}, {"used", "head"}}
  /\ pages_held \subseteq Pages

\* mem/defs.h:41: a header not in use keeps the place of its page in the free
\* list; no page is in the list twice, nor in the list of another range.
FreeIndexRight ==
  \A r \in Ranges : \A p \in PagesOf(r) :
    used_pages[p].flags = {} =>
      /\ used_pages[p].index < Len(free_pages[r])
      /\ free_pages[r][used_pages[p].index + 1] = p

\* FreePhysicalPages goes on to the pages behind the one it is given: it must stop
\* at the next allocation, so no page a caller holds is ever in the free list.
HeldNotFree ==
  \A r \in Ranges :
    /\ ToSet(free_pages[r]) \cap pages_held = {}
    /\ Len(free_pages[r]) = Cardinality({p \in PagesOf(r) : used_pages[p].flags = {}})
=============================================================================
