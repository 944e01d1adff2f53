----------------------------- MODULE CachePages -----------------------------
(***************************************************************************)
(* The pages that the entries of a PUP volume's block cache are cut from   *)
(* (src/kernel/fs/pup.c).  entry_page_lock is held over all of an          *)
(* allocation and over all of a release, so each is one step.              *)
(***************************************************************************)
EXTENDS Naturals, Sequences, FiniteSets, SequencesExt

CONSTANTS Pages,    \* the pages there is memory for
          PerPage   \* K_FS_PUP_CENTRY_PAGE_ENTRIES_COUNT

ASSUME PagesAssumption == PerPage \in Nat \ {0}

VARIABLES entry_pages,    \* the list of pages in use
          cur_page,       \* cur_entry_page
          freeable,       \* freeable_entry_pages, the last one given up first
          free_entries,   \* free_entries[p]: the stack of free entries of page p
          index,          \* index[p], which a release compares with cur_page's
          in_use          \* entries given out

pagesVars == <<entry_pages, cur_page, freeable, free_entries, index, in_use>>

Entry(p, k) == [page |-> p, k |-> k]
AllEntries(p) == [k \in 1 .. PerPage |-> Entry(p, k)]
Position(p) == CHOOSE i \in DOMAIN entry_pages : entry_pages[i] = p

\* The volume is mounted with one page, whole.
PagesInit == \E p \in Pages :
  /\ entry_pages = <<p>> /\ cur_page = p /\ freeable = <<>>
  /\ free_entries = [q \in Pages |-> IF q = p THEN AllEntries(p) ELSE <<>>]
  /\ index = [q \in Pages |-> 0] /\ in_use = {}

-----------------------------------------------------------------------------
\* AllocCacheEntry looks from cur_page on, never before it.
WithRoom == {i \in Position(cur_page) .. Len(entry_pages) : free_entries[entry_pages[i]] # <<>>}

Give(p, entries) ==
  /\ free_entries' = [free_entries EXCEPT ![p] = Tail(entries)]
  /\ in_use' = in_use \cup {Head(entries)}
  /\ cur_page' = p

AllocFromPage ==
  /\ WithRoom # {}
  /\ LET p == entry_pages[CHOOSE i \in WithRoom : \A j \in WithRoom : i <= j]
     IN Give(p, free_entries[p])
  /\ UNCHANGED <<entry_pages, freeable, index>>

\* InitCacheEntryPage puts the page at the end of the list, all its entries free.
InitCacheEntryPage(p) ==
  /\ entry_pages' = Append(entry_pages, p)
  /\ index' = [index EXCEPT ![p] = Len(entry_pages)]
  /\ Give(p, AllEntries(p))

AllocFromNewPage ==
  /\ WithRoom = {}
  /\ IF freeable # <<>>
       THEN InitCacheEntryPage(Head(freeable)) /\ freeable' = Tail(freeable)
       ELSE /\ \E p \in Pages \ ToSet(entry_pages) : InitCacheEntryPage(p)
            /\ UNCHANGED freeable

-----------------------------------------------------------------------------
\* The pages behind a page that goes move one place up.
Renumbered(p) ==
  [q \in Pages |-> IF q \in ToSet(entry_pages) /\ Position(q) > Position(p)
                   THEN index[p] + Position(q) - Position(p) - 1 ELSE index[q]]

DropPage(p) ==
  LET rest == RemoveAt(entry_pages, Position(p))
  IN /\ index' = Renumbered(p)
     /\ entry_pages' = rest
     /\ freeable' = <<p>> \o freeable
     /\ cur_page' = IF p = cur_page THEN rest[1] ELSE cur_page

\* Otherwise the next allocation looks from the lower page on.
LowerPage_Never(p) == cur_page
LowerPage(p) == IF index[p] < index[cur_page] THEN p ELSE cur_page

Unused_Always(e) == TRUE
Unused(e) == {x \in in_use : x.page = e.page} = {e}

FreeCacheEntry(e) ==
  LET p == e.page
  IN /\ in_use' = in_use \ {e}
     /\ free_entries' = [free_entries EXCEPT ![p] = <<e>> \o @]
     /\ IF Unused(e) /\ Len(entry_pages) > 1
          THEN DropPage(p)
          ELSE cur_page' = LowerPage(p) /\ UNCHANGED <<entry_pages, freeable, index>>

PagesNext == AllocFromPage \/ AllocFromNewPage \/ (\E e \in in_use : FreeCacheEntry(e))

PagesSpec == PagesInit /\ [][PagesNext]_pagesVars

-----------------------------------------------------------------------------
\* Every entry of a page of the list is either free, once, or in use, and no entry
\* in use lies in a page that was given up: InitCacheEntryPage would hand it out again.
EntriesOnce ==
  /\ \A p \in ToSet(entry_pages) :
       /\ ToSet(free_entries[p]) \cap in_use = {}
       /\ Len(free_entries[p]) + Cardinality({e \in in_use : e.page = p}) = PerPage
       /\ IsInjective(free_entries[p])
  /\ \A e \in in_use : e.page \in ToSet(entry_pages)

\* No page before the one that allocation starts from has a free entry: it would not be
\* found, and memory would be taken for another page.
NoEntryMissed ==
  \A i \in 1 .. Position(cur_page) - 1 : free_entries[entry_pages[i]] = <<>>

\* The allocator of cache entries never hands out an entry that is in use and
\* never overlooks one that is free.
EntriesKept == EntriesOnce /\ NoEntryMissed
=============================================================================
