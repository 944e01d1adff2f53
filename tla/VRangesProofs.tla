---------------------------- MODULE VRangesProofs ----------------------------
(***************************************************************************)
(* Proofs about VRanges for any free ranges at boot, any sizes and an      *)
(* array of any length, where either no request takes a whole free range   *)
(* or nothing is given back.  Without that hypothesis the used part of the *)
(* array does not hold the ranges in use, and the promise is broken.       *)
(***************************************************************************)
EXTENDS VRanges, TLAPS

UsesAssumption == Uses \subseteq {"partial", "keep"}

Entries == [start : Nat, size : Nat]

FreeIdx == 0 .. free_count - 1
UsedIdx == free_count .. range_count - 1

In(p, r) == r.start <= p /\ p < End(r)

FreePage(p) == \E i \in FreeIdx : In(p, ranges[i])
HeldPage(p) == \E s \in DOMAIN held : s <= p /\ p < s + held[s]

(* What a step does to the pages from a on, n of them. *)
Among(p, a, n) == a <= p /\ p < a + n

HeldGains(a, n) == \A p \in Nat : HeldPage(p)' <=> HeldPage(p) \/ Among(p, a, n)
HeldLoses(a, n) == \A p \in Nat : HeldPage(p)' <=> HeldPage(p) /\ ~Among(p, a, n)
FreeGains(a, n) == \A p \in Nat : FreePage(p)' <=> FreePage(p) \/ Among(p, a, n)
FreeLoses(a, n) == \A p \in Nat : FreePage(p)' <=> FreePage(p) /\ ~Among(p, a, n)

BootEnd == End(FreeAtBoot[BootCount - 1])

-----------------------------------------------------------------------------
(* The parts of the inductive invariant.  The first four hold for both     *)
(* uses, the last two where ranges are given back.                         *)
HeldTypes ==
  /\ held = [s \in DOMAIN held |-> held[s]]
  /\ DOMAIN held \subseteq Nat
  /\ \A s \in DOMAIN held : held[s] \in Nat \ {0}

Types ==
  /\ ranges \in [0 .. Cap -> Entries]
  /\ free_count \in Nat /\ range_count \in Nat
  /\ free_count <= range_count /\ range_count <= Cap
  /\ use \in Uses
  /\ HeldTypes

FreeApart ==
  /\ \A i, j \in FreeIdx : i < j => End(ranges[i]) < ranges[j].start
  /\ \A i \in FreeIdx : ranges[i].size > 0

(* The pages of the arena are those of the free ranges and those in use.   *)
PagesSplit ==
  /\ \A p \in Nat : FreePage(p) <=> p \in Arena /\ ~HeldPage(p)
  /\ \A p \in Nat : HeldPage(p) => p \in Arena

HeldApart == \A s, t \in DOMAIN held : s < t => s + held[s] <= t

(* The used part is sorted and has just the ranges in use.                 *)
UsedListed ==
  use = "partial" =>
    /\ \A i, j \in UsedIdx : i < j => ranges[i].start < ranges[j].start
    /\ \A i \in UsedIdx :
         ranges[i].start \in DOMAIN held /\ ranges[i].size = held[ranges[i].start]
    /\ \A s \in DOMAIN held : \E i \in UsedIdx : ranges[i].start = s

(* The last free range keeps its end: whatever is given back has a free    *)
(* range behind it.                                                        *)
LastStays ==
  use = "partial" => free_count >= 1 /\ End(ranges[free_count - 1]) = BootEnd

IInv == Types /\ FreeApart /\ PagesSplit /\ HeldApart /\ UsedListed /\ LastStays

-----------------------------------------------------------------------------
LEMMA Division ==
  ASSUME NEW a \in Nat, NEW b \in Nat, b > 0
  PROVE  /\ a \div b \in Nat
         /\ a < b => a % b = a
         /\ a >= b => a \div b >= 1
<1>1. a \div b \in Nat
  BY Z3
<1>2. a < b => a % b = a
  BY Z3
<1>3. a >= b => a \div b >= 1
  BY Z3
<1> QED
  BY <1>1, <1>2, <1>3

(* The pages asked for are at least one. *)
LEMMA RequestPositive ==
  ASSUME NEW size \in Sizes
  PROVE  RequestSize(size) \in Nat \ {0}
<1>1. size \in Nat /\ size > 0 /\ PageBytes \in Nat /\ PageBytes > 0
  BY VRangesAssumption
<1>2. /\ size \div PageBytes \in Nat
      /\ size < PageBytes => size % PageBytes = size
      /\ size >= PageBytes => size \div PageBytes >= 1
  BY <1>1, Division
<1> QED
  BY <1>1, <1>2 DEF RequestSize

(* The pages of the arena are natural numbers. *)
LEMMA ArenaPages ==
  /\ Arena \subseteq Nat
  /\ \A p \in Nat :
       p \in Arena <=> \E i \in 0 .. BootCount - 1 : In(p, FreeAtBoot[i])
<1>1. \A i \in 0 .. BootCount - 1 :
        /\ FreeAtBoot[i].start \in Nat /\ FreeAtBoot[i].size \in Nat
        /\ PageSet(FreeAtBoot[i]) \subseteq Nat
        /\ \A p \in Nat : p \in PageSet(FreeAtBoot[i]) <=> In(p, FreeAtBoot[i])
  BY VRangesAssumption DEF PageSet, End, In
<1>2. Arena \subseteq Nat
  BY <1>1 DEF Arena
<1>3. ASSUME NEW p \in Nat
      PROVE  p \in Arena <=> \E i \in 0 .. BootCount - 1 : In(p, FreeAtBoot[i])
  BY <1>1 DEF Arena
<1> QED
  BY <1>2, <1>3

-----------------------------------------------------------------------------
LEMMA InitRight ==
  ASSUME UsesAssumption, Init
  PROVE  IInv
<1>1. /\ \A i \in 0 .. BootCount - 1 :
            /\ ranges[i] = FreeAtBoot[i]
            /\ FreeAtBoot[i] \in [start : Nat, size : Nat] /\ FreeAtBoot[i].size > 0
      /\ FreeIdx = 0 .. BootCount - 1 /\ UsedIdx = {}
      /\ DOMAIN held = {}
  BY VRangesAssumption DEF Init, FreeIdx, UsedIdx
<1>2. ranges \in [0 .. Cap -> [start : Nat, size : Nat]]
  <2>1. \A i \in 0 .. Cap :
          (IF i < BootCount THEN FreeAtBoot[i] ELSE VRange(0, 0)) \in [start : Nat, size : Nat]
    BY <1>1, VRangesAssumption DEF VRange
  <2> QED
    BY <2>1 DEF Init
<1>3. Types
  <2>1. held = [s \in DOMAIN held |-> held[s]]
    BY DEF Init
  <2> QED
    BY <1>1, <1>2, <2>1, VRangesAssumption DEF Types, HeldTypes, Entries, Init
<1>4. FreeApart
  <2>1. \A i, j \in 0 .. BootCount - 1 : i < j => End(FreeAtBoot[i]) < FreeAtBoot[j].start
    BY VRangesAssumption DEF End
  <2> QED
    BY <1>1, <2>1 DEF FreeApart
<1>5. PagesSplit
  <2>1. \A p \in Nat : ~HeldPage(p)
    BY <1>1 DEF HeldPage
  <2>2. \A p \in Nat : FreePage(p) <=> p \in Arena
    BY <1>1, ArenaPages DEF FreePage
  <2> QED
    BY <2>1, <2>2 DEF PagesSplit
<1>6. HeldApart /\ UsedListed
  BY <1>1 DEF HeldApart, UsedListed
<1>7. LastStays
  BY <1>1, VRangesAssumption DEF LastStays, BootEnd, Init
<1> QED
  BY <1>3, <1>4, <1>5, <1>6, <1>7 DEF IInv

-----------------------------------------------------------------------------
(* A free range is no range in use, and reaches into none. *)
LEMMA FreeNotHeld ==
  ASSUME Types, PagesSplit, FreeApart, NEW i \in FreeIdx
  PROVE  /\ i \in 0 .. Cap /\ i < free_count
         /\ ranges[i].start \in Nat /\ ranges[i].size \in Nat \ {0}
         /\ End(ranges[i]) = ranges[i].start + ranges[i].size
         /\ \A s \in DOMAIN held :
              /\ s # ranges[i].start
              /\ s < ranges[i].start => s + held[s] <= ranges[i].start
              /\ s > ranges[i].start => End(ranges[i]) <= s
<1>1. /\ i \in 0 .. Cap /\ i < free_count
      /\ ranges[i].start \in Nat /\ ranges[i].size \in Nat \ {0}
  BY VRangesAssumption DEF Types, HeldTypes, Entries, FreeIdx, FreeApart
<1>2. End(ranges[i]) = ranges[i].start + ranges[i].size
  BY DEF End
<1>3. \A p \in Nat : In(p, ranges[i]) => ~HeldPage(p)
  BY DEF PagesSplit, FreePage
<1>4. ASSUME NEW s \in DOMAIN held
      PROVE  /\ s # ranges[i].start
             /\ s < ranges[i].start => s + held[s] <= ranges[i].start
             /\ s > ranges[i].start => End(ranges[i]) <= s
  <2>1. s \in Nat /\ held[s] \in Nat \ {0}
    BY DEF Types, HeldTypes, Entries
  <2>2. \A p \in Nat : s <= p /\ p < s + held[s] => HeldPage(p)
    BY DEF HeldPage
  <2>3. ~HeldPage(ranges[i].start)
    <3>1. In(ranges[i].start, ranges[i])
      BY <1>1, <1>2 DEF In
    <3> QED
      BY <1>1, <1>3, <3>1
  <2>4. s <= s /\ s < s + held[s]
    BY <2>1
  <2>5. HeldPage(s)
    BY <2>1, <2>2, <2>4
  <2>6. ~In(s, ranges[i])
    BY <1>3, <2>1, <2>5
  <2>7. s # ranges[i].start /\ (s > ranges[i].start => End(ranges[i]) <= s)
    BY <1>1, <1>2, <2>1, <2>6 DEF In
  <2>8. s < ranges[i].start => s + held[s] <= ranges[i].start
    <3> DEFINE q == ranges[i].start
               n == held[s]
    <3>1. q \in Nat /\ n \in Nat /\ ~HeldPage(q)
      BY <1>1, <2>1, <2>3
    <3>2. s <= q /\ q < s + n => HeldPage(q)
      BY <1>1, <2>2
    <3> HIDE DEF q, n
    <3>3. s < q => s + n <= q
      BY <2>1, <3>1, <3>2
    <3> QED
      BY <3>3 DEF q, n
  <2> QED
    BY <2>7, <2>8
<1> QED
  BY <1>1, <1>2, <1>4

(* The used index divides the used part at the page. *)
LEMMA UsedDivided ==
  ASSUME Types, UsedListed, use = "partial", NEW s \in Nat, NEW u \in 0 .. Cap,
         UsedVirtualRangeIndex(u, s)
  PROVE  /\ \A i \in UsedIdx : i < u => ranges[i].start < s
         /\ \A i \in UsedIdx : i >= u => ranges[i].start >= s
         /\ \A i \in UsedIdx : i > u => ranges[i].start > s
<1>1. ASSUME NEW i \in UsedIdx
      PROVE  /\ i \in 0 .. Cap /\ i >= free_count /\ i < range_count
             /\ ranges[i].start \in Nat /\ ranges[i].size \in Nat \ {0}
  <2>1. i \in 0 .. Cap /\ i >= free_count /\ i < range_count
    BY VRangesAssumption DEF Types, HeldTypes, Entries, UsedIdx
  <2>2. ranges[i].start \in DOMAIN held /\ ranges[i].size = held[ranges[i].start]
    BY DEF UsedListed
  <2> QED
    BY <2>1, <2>2 DEF Types, HeldTypes, Entries
<1>2. \A i, j \in UsedIdx : i < j => ranges[i].start < ranges[j].start
  BY DEF UsedListed
<1>3. /\ u \in Nat /\ u >= free_count /\ u <= range_count
      /\ \A i \in UsedIdx : i < u => ranges[i].start < s
      /\ u \in UsedIdx => ranges[u].start >= s
  BY DEF UsedVirtualRangeIndex, Types, HeldTypes, Entries, UsedIdx
<1>4. ASSUME NEW i \in UsedIdx, i > u
      PROVE  ranges[i].start > s
  <2>1. u \in UsedIdx
    BY <1>1, <1>3, <1>4 DEF UsedIdx, Types, HeldTypes, Entries
  <2> QED
    <3>1. ranges[u].start >= s /\ ranges[u].start < ranges[i].start
      BY <1>1, <1>2, <1>3, <1>4, <2>1
    <3> QED
      BY <1>1, <2>1, <3>1
<1>5. ASSUME NEW i \in UsedIdx, i >= u
      PROVE  ranges[i].start >= s
  <2>1. CASE i = u
    BY <1>3, <2>1
  <2>2. CASE i > u
    BY <1>1, <1>4, <2>2
  <2> QED
    BY <1>1, <1>3, <1>5, <2>1, <2>2
<1> QED
  BY <1>3, <1>4, <1>5

-----------------------------------------------------------------------------
(* A caller gets the first pages of a free range. *)
LEMMA HoldMore ==
  ASSUME Types, PagesSplit, FreeApart, HeldApart,
         NEW f \in FreeIdx, NEW a \in Nat, a = ranges[f].start,
         NEW n \in Nat \ {0}, n <= ranges[f].size,
         held' = Holding(a, n)
  PROVE  /\ a \notin DOMAIN held
         /\ DOMAIN held' = DOMAIN held \cup {a}
         /\ held'[a] = n /\ \A s \in DOMAIN held : held'[s] = held[s]
         /\ HeldTypes' /\ HeldApart'
         /\ HeldGains(a, n)
<1>1. /\ a \notin DOMAIN held
      /\ \A s \in DOMAIN held :
           /\ s < a => s + held[s] <= a
           /\ s > a => a + ranges[f].size <= s
  BY FreeNotHeld
<1>2. ranges[f].size \in Nat
  BY FreeNotHeld
<1>3. /\ DOMAIN held' = DOMAIN held \cup {a}
      /\ held'[a] = n /\ \A s \in DOMAIN held : held'[s] = held[s]
  BY <1>1 DEF Holding
<1>4. held' = [s \in DOMAIN held' |-> held'[s]]
  BY DEF Holding
<1>5. HeldTypes'
  BY <1>3, <1>4 DEF HeldTypes, Types, Entries
<1>6. \A s \in DOMAIN held : s > a => a + n <= s
  <2> DEFINE m == ranges[f].size
  <2>1. m \in Nat /\ n <= m /\ \A s \in DOMAIN held : s > a => a + m <= s
    BY <1>1, <1>2
  <2> HIDE DEF m
  <2> QED
    BY <2>1 DEF Types, HeldTypes, Entries
<1>7. HeldApart'
  <2> SUFFICES ASSUME NEW s \in DOMAIN held', NEW t \in DOMAIN held', s < t
               PROVE  s + held'[s] <= t
    BY DEF HeldApart
  <2>1. CASE s = a
    BY <1>3, <1>6, <2>1
  <2>2. CASE s # a /\ t = a
    BY <1>1, <1>3, <2>2
  <2>3. CASE s # a /\ t # a
    BY <1>3, <2>3 DEF HeldApart
  <2> QED
    BY <2>1, <2>2, <2>3
<1>8. HeldGains(a, n)
  BY <1>3 DEF HeldPage, HeldGains, Among
<1> QED
  BY <1>1, <1>3, <1>5, <1>7, <1>8

(* A caller gives back the range that begins at page s, if there is one. *)
LEMMA HoldLess ==
  ASSUME Types, HeldApart, NEW s \in Nat,
         held' = [r \in DOMAIN held \ {s} |-> held[r]]
  PROVE  /\ DOMAIN held' = DOMAIN held \ {s}
         /\ \A r \in DOMAIN held' : held'[r] = held[r]
         /\ HeldTypes' /\ HeldApart'
         /\ s \notin DOMAIN held => held' = held
         /\ s \in DOMAIN held => HeldLoses(s, held[s])
<1>1. /\ DOMAIN held' = DOMAIN held \ {s}
      /\ \A r \in DOMAIN held' : held'[r] = held[r]
  OBVIOUS
<1>2. HeldTypes'
  BY <1>1 DEF HeldTypes, Types, Entries
<1>3. HeldApart'
  BY <1>1 DEF HeldApart
<1>4. s \notin DOMAIN held => held' = held
  BY DEF Types, HeldTypes, Entries
<1>5. ASSUME s \in DOMAIN held, NEW p \in Nat
      PROVE  HeldPage(p)' <=> HeldPage(p) /\ ~Among(p, s, held[s])
  <2>1. ASSUME NEW r \in DOMAIN held, r # s, r <= p, p < r + held[r]
        PROVE  ~Among(p, s, held[s])
    <3>1. /\ r \in Nat /\ s \in Nat /\ held[r] \in Nat /\ held[s] \in Nat
          /\ r < s => r + held[r] <= s
          /\ s < r => s + held[s] <= r
      BY <1>5 DEF Types, HeldTypes, Entries, HeldApart
    <3> QED
      BY <2>1, <3>1 DEF Among
  <2>2. HeldPage(p)' <=> \E r \in DOMAIN held \ {s} : r <= p /\ p < r + held[r]
    BY <1>1 DEF HeldPage
  <2> QED
    BY <1>5, <2>1, <2>2 DEF HeldPage, Among
<1> QED
  BY <1>1, <1>2, <1>3, <1>4, <1>5 DEF HeldLoses

-----------------------------------------------------------------------------
(* What the loops and the assignments of a step leave in the array. *)
LEMMA Written ==
  ASSUME NEW S, NEW T, NEW A \in [S -> T], NEW x \in S, NEW y \in S, x # y,
         NEW v \in T, NEW w \in T, NEW B, B = [A EXCEPT ![x] = v, ![y] = w]
  PROVE  /\ B \in [S -> T] /\ B[x] = v /\ B[y] = w
         /\ \A i \in S : i # x /\ i # y => B[i] = A[i]
OBVIOUS

LEMMA MovedUp ==
  ASSUME NEW A \in [0 .. Cap -> Entries], NEW from \in Nat, NEW to \in Nat, to <= Cap
  PROVE  /\ MoveUp(A, from, to) \in [0 .. Cap -> Entries]
         /\ \A i \in 0 .. Cap :
              MoveUp(A, from, to)[i] = IF from < i /\ i <= to THEN A[i - 1] ELSE A[i]
<1>1. \A i \in 0 .. Cap :
        /\ i \in from + 1 .. to <=> from < i /\ i <= to
        /\ from < i => i - 1 \in 0 .. Cap
  BY VRangesAssumption
<1> QED
  BY <1>1 DEF MoveUp

LEMMA MovedDown ==
  ASSUME NEW A \in [0 .. Cap -> Entries], NEW from \in Nat, NEW to \in Int, NEW k \in Nat,
         to + k <= Cap + 1
  PROVE  /\ MoveDown(A, from, to, k) \in [0 .. Cap -> Entries]
         /\ \A i \in 0 .. Cap : from <= i /\ i < to =>
              MoveDown(A, from, to, k)[i] = A[i + k]
         /\ \A i \in 0 .. Cap : ~(from <= i /\ i < to) =>
              MoveDown(A, from, to, k)[i] = A[i]
<1>1. \A i \in 0 .. Cap :
        /\ i \in from .. to - 1 <=> from <= i /\ i < to
        /\ i < to => i + k \in 0 .. Cap
  BY VRangesAssumption
<1> QED
  BY <1>1 DEF MoveDown

(* Given back or taken, the pages stay split between the free ranges and   *)
(* those in use.                                                           *)
LEMMA PagesMove ==
  ASSUME PagesSplit, NEW a \in Nat, NEW n \in Nat,
         \/ /\ \A p \in Nat : Among(p, a, n) => FreePage(p)
            /\ FreeLoses(a, n) /\ HeldGains(a, n)
         \/ /\ \A p \in Nat : Among(p, a, n) => HeldPage(p)
            /\ FreeGains(a, n) /\ HeldLoses(a, n)
  PROVE  PagesSplit'
BY DEF PagesSplit, Arena, FreeLoses, HeldGains, FreeGains, HeldLoses

LEMMA AllocSplitKeeps ==
  ASSUME UsesAssumption, IInv, NEW n \in Nat \ {0}, AllocSplit(n)
  PROVE  IInv'
<1>1. PICK f \in 0 .. Cap, u \in 0 .. Cap :
        /\ FirstFit(f, n) /\ UsedVirtualRangeIndex(u, ranges[f].start)
        /\ ranges[f].size > n
        /\ range_count < Cap
        /\ ranges' = [MoveUp(ranges, u, range_count) EXCEPT
                        ![u] = VRange(ranges[f].start, n),
                        ![f] = VRange(ranges[f].start + n, ranges[f].size - n)]
        /\ range_count' = range_count + 1
        /\ held' = Holding(ranges[f].start, n)
        /\ UNCHANGED <<free_count, use>>
  BY DEF AllocSplit
<1>2. PICK a \in Nat, m \in Nat : a = ranges[f].start /\ m = ranges[f].size
  BY DEF IInv, Types, HeldTypes, Entries
<1>3. /\ Cap \in Nat /\ f \in Nat /\ u \in Nat /\ f < free_count /\ m > n
      /\ free_count <= u /\ u <= range_count /\ range_count < Cap
      /\ free_count \in Nat /\ range_count \in Nat /\ f \in FreeIdx
      /\ free_count' = free_count /\ range_count' = range_count + 1 /\ use' = use
      /\ ranges \in [0 .. Cap -> Entries]
      /\ range_count \in 0 .. Cap
  <2>1. /\ free_count \in Nat /\ range_count \in Nat /\ range_count \in 0 .. Cap
        /\ ranges \in [0 .. Cap -> Entries] /\ Cap \in Nat
    BY VRangesAssumption DEF IInv, Types
  <2>2. FirstFit(f, n) /\ m > n
    BY <1>1, <1>2
  <2>3. free_count <= u /\ u <= range_count
    BY <1>1, <2>1 DEF UsedVirtualRangeIndex
  <2> QED
    BY <1>1, <2>1, <2>2, <2>3 DEF FirstFit, FreeIdx
<1>4. /\ MoveUp(ranges, u, range_count) \in [0 .. Cap -> Entries]
      /\ \A i \in 0 .. Cap :
           MoveUp(ranges, u, range_count)[i] =
             IF u < i /\ i <= range_count THEN ranges[i - 1] ELSE ranges[i]
  <2>1. u \in Nat /\ range_count \in Nat /\ range_count <= Cap /\ ranges \in [0 .. Cap -> Entries]
    BY <1>3
  <2> QED
    BY <2>1, MovedUp
<1>5. VRange(a, n) \in Entries /\ VRange(a + n, m - n) \in Entries
  BY <1>3 DEF Entries, VRange
<1>6. /\ ranges' \in [0 .. Cap -> Entries]
      /\ ranges'[f] = VRange(a + n, m - n)
      /\ ranges'[u] = VRange(a, n)
      /\ \A i \in 0 .. Cap : i < u /\ i # f => ranges'[i] = ranges[i]
      /\ \A i \in 0 .. Cap : u < i /\ i <= range_count => ranges'[i] = ranges[i - 1]
  <2>1. ranges' = [MoveUp(ranges, u, range_count) EXCEPT
                     ![u] = VRange(a, n), ![f] = VRange(a + n, m - n)]
    BY <1>1, <1>2
  <2>2. f # u
    BY <1>3
  <2> QED
    <3>1. /\ ranges' \in [0 .. Cap -> Entries]
          /\ ranges'[f] = VRange(a + n, m - n) /\ ranges'[u] = VRange(a, n)
          /\ \A i \in 0 .. Cap : i # u /\ i # f =>
               ranges'[i] = MoveUp(ranges, u, range_count)[i]
      BY <1>4, <1>5, <2>1, <2>2, Written
    <3> QED
      BY <1>3, <1>4, <3>1
<1>7. /\ a \notin DOMAIN held
      /\ DOMAIN held' = DOMAIN held \cup {a}
      /\ held'[a] = n /\ \A s \in DOMAIN held : held'[s] = held[s]
      /\ HeldTypes' /\ HeldApart'
      /\ HeldGains(a, n)
  <2>1. held' = Holding(a, n) /\ a = ranges[f].start /\ n <= ranges[f].size /\ f \in FreeIdx
    BY <1>1, <1>2, <1>3
  <2> QED
    <3>1. Types /\ PagesSplit /\ FreeApart /\ HeldApart
      BY DEF IInv
    <3> QED
      BY <2>1, <3>1, HoldMore
<1>8. Types'
  <2>1. use' \in Uses
    BY <1>3 DEF IInv, Types
  <2> QED
    BY <1>3, <1>6, <1>7, <2>1 DEF Types
<1>9. /\ FreeIdx' = FreeIdx
      /\ \A i \in FreeIdx : i \in 0 .. Cap /\ i < u /\ (i # f => ranges'[i] = ranges[i])
      /\ ranges'[f].start = a + n /\ ranges'[f].size = m - n /\ End(ranges'[f]) = a + m
      /\ End(ranges[f]) = a + m
  <2>1. FreeIdx' = FreeIdx /\ \A i \in FreeIdx : i \in 0 .. Cap /\ i < u
    BY <1>3 DEF FreeIdx
  <2>2. ranges'[f].start = a + n /\ ranges'[f].size = m - n
    BY <1>6 DEF VRange
  <2>3. End(ranges'[f]) = a + m /\ End(ranges[f]) = a + m
    <3>1. End(ranges'[f]) = (a + n) + (m - n) /\ End(ranges[f]) = a + m
      BY <1>2, <2>2 DEF End
    <3> QED
      BY <1>3, <3>1
  <2> QED
    BY <1>6, <2>1, <2>2, <2>3
<1>10. FreeApart'
  <2>1. \A i \in FreeIdx : ranges'[i].size > 0
    <3>1. m - n > 0
      BY <1>3
    <3> QED
      BY <1>9, <3>1 DEF FreeApart, IInv
  <2>2. ASSUME NEW i \in FreeIdx, NEW j \in FreeIdx, i < j
        PROVE  End(ranges'[i]) < ranges'[j].start
    <3>1. End(ranges[i]) < ranges[j].start
      BY <2>2 DEF FreeApart, IInv
    <3>2. CASE i = f
      BY <1>2, <1>9, <2>2, <3>1, <3>2
    <3>3. CASE j = f
      <4>1. i # f /\ ranges[i] \in Entries
        BY <1>3, <1>9, <2>2, <3>3
      <4>2. End(ranges[i]) < a /\ End(ranges[i]) \in Nat
        BY <1>2, <3>1, <3>3, <4>1 DEF End, Entries
      <4>3. End(ranges[i]) < a + n
        BY <1>3, <4>2
      <4> QED
        BY <1>9, <3>3, <4>1, <4>3
    <3>4. CASE i # f /\ j # f
      BY <1>9, <3>1, <3>4
    <3> QED
      BY <3>2, <3>3, <3>4
  <2> QED
    BY <1>9, <2>1, <2>2 DEF FreeApart
<1>11. ASSUME NEW p \in Nat
       PROVE  /\ Among(p, a, n) => FreePage(p)
              /\ FreePage(p)' <=> FreePage(p) /\ ~Among(p, a, n)
  <2>1. In(p, ranges[f]) <=> a <= p /\ p < a + m
    BY <1>2, <1>9 DEF In
  <2>2. In(p, ranges'[f]) <=> a + n <= p /\ p < a + m
    BY <1>9 DEF In
  <2>3. \A i \in FreeIdx : In(p, ranges[i]) /\ In(p, ranges[f]) => i = f
    <3> SUFFICES ASSUME NEW i \in FreeIdx, In(p, ranges[i]), In(p, ranges[f]), i # f
                 PROVE  FALSE
      OBVIOUS
    <3>1. /\ ranges[i].start \in Nat /\ End(ranges[i]) \in Nat
          /\ End(ranges[i]) < a \/ a + m < ranges[i].start
      <4>1. ranges[i] \in Entries
        BY <1>3, <1>9
      <4> QED
        <5>1. ranges[i].start \in Nat /\ End(ranges[i]) \in Nat
          BY <4>1 DEF Entries, End
        <5>2. i < f \/ f < i
          BY <1>3 DEF FreeIdx
        <5>3. End(ranges[i]) < ranges[f].start \/ End(ranges[f]) < ranges[i].start
          BY <1>3, <5>2 DEF FreeApart, IInv
        <5> QED
          BY <1>2, <1>9, <5>1, <5>3
    <3>2. ranges[i].start <= p /\ p < End(ranges[i]) /\ a <= p /\ p < a + m
      BY <2>1 DEF In
    <3> QED
      BY <3>1, <3>2
  <2>4. \A i \in FreeIdx : i # f => (In(p, ranges'[i]) <=> In(p, ranges[i]))
    BY <1>9
  <2>5. FreePage(p)' <=> \E i \in FreeIdx : In(p, ranges'[i])
    BY <1>9 DEF FreePage, In, End
  <2>6. a <= p /\ p < a + n => a <= p /\ p < a + m /\ ~(a + n <= p)
    BY <1>3
  <2>7. a + n <= p => a <= p /\ ~(p < a + n)
    BY <1>3
  <2>8. a <= p /\ p < a + m /\ ~(p < a + n) => a + n <= p
    BY <1>3
  <2> QED
    BY <1>3, <2>1, <2>2, <2>3, <2>4, <2>5, <2>6, <2>7, <2>8 DEF FreePage, Among
<1>12. PagesSplit'
  BY <1>7, <1>11, PagesMove DEF IInv, FreeLoses
<1>13. LastStays'
  <2> SUFFICES ASSUME use = "partial"
               PROVE  free_count >= 1 /\ End(ranges'[free_count - 1]) = BootEnd
    BY <1>3 DEF LastStays, BootEnd, End
  <2>1. free_count >= 1 /\ End(ranges[free_count - 1]) = BootEnd /\ free_count - 1 \in FreeIdx
    BY <1>3 DEF LastStays, IInv, FreeIdx
  <2> QED
    BY <1>9, <2>1
<1>14. UsedListed'
  <2> SUFFICES ASSUME use = "partial"
               PROVE  UsedListed'
    BY <1>3 DEF UsedListed
  <2>1. /\ \A i \in UsedIdx : i < u => ranges[i].start < a
        /\ \A i \in UsedIdx : i >= u => ranges[i].start >= a
    BY <1>1, <1>2, UsedDivided DEF IInv
  <2>2. /\ \A i, j \in UsedIdx : i < j => ranges[i].start < ranges[j].start
        /\ \A i \in UsedIdx :
             ranges[i].start \in DOMAIN held /\ ranges[i].size = held[ranges[i].start]
        /\ \A s \in DOMAIN held : \E i \in UsedIdx : ranges[i].start = s
    BY DEF UsedListed, IInv
  <2>3. ASSUME NEW j \in UsedIdx'
        PROVE  /\ j \in Int
               /\ j = u => ranges'[j].start = a /\ ranges'[j].size = n
               /\ j < u => j \in UsedIdx /\ ranges'[j] = ranges[j]
               /\ j > u => j - 1 \in UsedIdx /\ ranges'[j] = ranges[j - 1] /\ j - 1 >= u
    <3>1. j \in 0 .. Cap /\ free_count <= j /\ j <= range_count
      BY <1>3 DEF UsedIdx
    <3>2. j < u => j \in UsedIdx /\ j # f
      BY <1>3, <3>1 DEF UsedIdx
    <3>3. j > u => j - 1 \in UsedIdx /\ j - 1 >= u
      BY <1>3, <3>1 DEF UsedIdx
    <3> QED
      BY <1>6, <3>1, <3>2, <3>3 DEF VRange
  <2>4. \A j \in UsedIdx' :
          ranges'[j].start \in DOMAIN held' /\ ranges'[j].size = held'[ranges'[j].start]
    <3> TAKE j \in UsedIdx'
    <3>1. j = u \/ j < u \/ j > u
      BY <1>3, <2>3
    <3> QED
      BY <1>7, <2>2, <2>3, <3>1
  <2>5. ASSUME NEW s \in DOMAIN held'
        PROVE  \E j \in UsedIdx' : ranges'[j].start = s
    <3>1. CASE s = a
      <4>1. u \in UsedIdx'
        BY <1>3 DEF UsedIdx
      <4> QED
        BY <2>3, <3>1, <4>1
    <3>2. CASE s # a
      <4>1. PICK i \in UsedIdx : ranges[i].start = s
        BY <1>7, <2>2, <3>2
      <4>2. i \in UsedIdx' /\ i + 1 \in UsedIdx' /\ i \in Int /\ i + 1 - 1 = i
        BY <1>3 DEF UsedIdx
      <4>3. CASE i < u
        BY <2>3, <4>1, <4>2, <4>3
      <4>4. CASE i >= u
        <5>1. i + 1 > u
          BY <1>3, <4>2, <4>4
        <5> QED
          BY <2>3, <4>1, <4>2, <5>1
      <4> QED
        BY <1>3, <4>2, <4>3, <4>4
    <3> QED
      BY <3>1, <3>2
  <2>6. ASSUME NEW i \in UsedIdx', NEW j \in UsedIdx', i < j
        PROVE  ranges'[i].start < ranges'[j].start
    <3>1. /\ i \in Int /\ j \in Int
          /\ \A k \in UsedIdx : ranges[k].start # a /\ ranges[k].start \in Nat
      <4>1. \A k \in UsedIdx : ranges[k].start \in DOMAIN held
        BY <2>2
      <4> QED
        BY <1>7, <2>3, <4>1 DEF IInv, Types, HeldTypes
    <3>2. CASE j < u
      BY <1>3, <2>2, <2>3, <2>6, <3>1, <3>2
    <3>3. CASE j = u
      BY <1>3, <2>1, <2>3, <2>6, <3>1, <3>3
    <3>4. CASE j > u
      <4>1. j - 1 \in UsedIdx /\ ranges'[j] = ranges[j - 1] /\ ranges[j - 1].start > a
        BY <2>1, <2>3, <3>1, <3>4
      <4>2. CASE i < u
        <5>1. i < j - 1
          BY <1>3, <3>1, <3>4, <4>2
        <5> QED
          BY <2>2, <2>3, <4>1, <4>2, <5>1
      <4>3. CASE i = u
        BY <2>3, <4>1, <4>3
      <4>4. CASE i > u
        <5>1. i - 1 < j - 1
          BY <2>6, <3>1
        <5> QED
          BY <2>2, <2>3, <4>1, <4>4, <5>1
      <4> QED
        BY <1>3, <3>1, <4>2, <4>3, <4>4
    <3> QED
      BY <1>3, <3>1, <3>2, <3>3, <3>4
  <2> QED
    BY <1>3, <2>4, <2>5, <2>6 DEF UsedListed
<1> QED
  BY <1>7, <1>8, <1>10, <1>12, <1>13, <1>14 DEF IInv

(* Two free ranges have no page in common. *)
LEMMA FreeDisjoint ==
  ASSUME Types, FreeApart, NEW i \in FreeIdx, NEW j \in FreeIdx,
         NEW p \in Nat, In(p, ranges[i]), In(p, ranges[j])
  PROVE  i = j
<1> SUFFICES ASSUME i # j PROVE FALSE
  OBVIOUS
<1>1. i \in 0 .. Cap /\ j \in 0 .. Cap /\ (i < j \/ j < i)
  BY VRangesAssumption DEF FreeIdx, Types
<1>2. ranges[i] \in Entries /\ ranges[j] \in Entries
  BY <1>1 DEF Types
<1>3. /\ ranges[i].start \in Nat /\ End(ranges[i]) \in Nat
      /\ ranges[j].start \in Nat /\ End(ranges[j]) \in Nat
  BY <1>2 DEF Entries, End
<1>4. End(ranges[i]) < ranges[j].start \/ End(ranges[j]) < ranges[i].start
  BY <1>1 DEF FreeApart
<1>5. /\ ranges[i].start <= p /\ p < End(ranges[i])
      /\ ranges[j].start <= p /\ p < End(ranges[j])
  BY DEF In
<1> QED
  BY <1>3, <1>4, <1>5

(* Where a request takes a whole free range, nothing is given back. *)
LEMMA AllocExactKeeps ==
  ASSUME UsesAssumption, IInv, NEW n \in Nat \ {0}, AllocExact(n)
  PROVE  IInv'
<1>1. PICK f \in 0 .. Cap, u \in 0 .. Cap :
        /\ use # "partial"
        /\ FirstFit(f, n) /\ UsedVirtualRangeIndex(u, ranges[f].start)
        /\ ranges[f].size = n
        /\ ranges' = [MoveDown(ranges, f, u, 1) EXCEPT ![u] = VRange(n, n)]
        /\ free_count' = free_count - 1
        /\ held' = Holding(ranges[f].start, n)
        /\ UNCHANGED <<range_count, use>>
  BY DEF AllocExact
<1>2. PICK a \in Nat : a = ranges[f].start
  BY DEF IInv, Types, Entries
<1>3. /\ Cap \in Nat /\ f \in Nat /\ u \in Nat /\ f < free_count
      /\ free_count <= u /\ u <= range_count /\ range_count <= Cap
      /\ free_count \in Nat /\ range_count \in Nat /\ f \in FreeIdx
      /\ free_count' = free_count - 1 /\ range_count' = range_count /\ use' = use
      /\ ranges \in [0 .. Cap -> Entries] /\ use \in Uses
  BY <1>1, VRangesAssumption DEF IInv, Types, FirstFit, UsedVirtualRangeIndex, FreeIdx
<1>4. /\ ranges' \in [0 .. Cap -> Entries]
      /\ \A i \in 0 .. Cap : i < f => ranges'[i] = ranges[i]
      /\ \A i \in 0 .. Cap : f <= i /\ i < u => ranges'[i] = ranges[i + 1]
  <2>1. u + 1 <= Cap + 1 /\ 1 \in Nat
    BY <1>3
  <2>2. /\ MoveDown(ranges, f, u, 1) \in [0 .. Cap -> Entries]
        /\ \A i \in 0 .. Cap : f <= i /\ i < u =>
             MoveDown(ranges, f, u, 1)[i] = ranges[i + 1]
        /\ \A i \in 0 .. Cap : ~(f <= i /\ i < u) =>
             MoveDown(ranges, f, u, 1)[i] = ranges[i]
    BY <1>3, <2>1, MovedDown
  <2>3. VRange(n, n) \in Entries
    BY DEF VRange, Entries
  <2>4. /\ ranges' \in [0 .. Cap -> Entries]
        /\ \A i \in 0 .. Cap : i # u => ranges'[i] = MoveDown(ranges, f, u, 1)[i]
    BY <1>1, <2>2, <2>3
  <2>5. ASSUME NEW i \in 0 .. Cap, i < f
        PROVE  ranges'[i] = ranges[i]
    <3>1. i # u /\ ~(f <= i /\ i < u)
      BY <1>3, <2>5
    <3> QED
      BY <2>2, <2>4, <3>1
  <2>6. ASSUME NEW i \in 0 .. Cap, f <= i, i < u
        PROVE  ranges'[i] = ranges[i + 1]
    <3>1. i # u
      BY <1>3, <2>6
    <3> QED
      BY <2>2, <2>4, <2>6, <3>1
  <2> QED
    BY <2>4, <2>5, <2>6
<1>5. /\ HeldTypes' /\ HeldApart' /\ HeldGains(a, n)
  <2>1. held' = Holding(a, n) /\ n <= ranges[f].size
    BY <1>1, <1>2
  <2>2. Types /\ PagesSplit /\ FreeApart /\ HeldApart
    BY DEF IInv
  <2> QED
    BY <1>2, <1>3, <2>1, <2>2, HoldMore
<1>6. Types'
  <2>1. free_count' \in Nat /\ free_count' <= range_count'
    BY <1>3
  <2> QED
    BY <1>3, <1>4, <1>5, <2>1 DEF Types
<1>7. ASSUME NEW i \in FreeIdx'
      PROVE  /\ i \in Int
             /\ i < f => i \in FreeIdx /\ ranges'[i] = ranges[i]
             /\ i >= f => i + 1 \in FreeIdx /\ ranges'[i] = ranges[i + 1]
  <2>1. i \in 0 .. Cap /\ i < u /\ i + 1 < free_count
    BY <1>3 DEF FreeIdx
  <2> QED
    BY <1>3, <1>4, <2>1 DEF FreeIdx
<1>8. FreeApart'
  <2>1. \A i \in FreeIdx' : ranges'[i].size > 0
    BY <1>3, <1>7 DEF FreeApart, IInv
  <2>2. ASSUME NEW i \in FreeIdx', NEW j \in FreeIdx', i < j
        PROVE  End(ranges'[i]) < ranges'[j].start
    <3>1. FreeApart
      BY DEF IInv
    <3>2. CASE i < f /\ j < f
      BY <1>7, <2>2, <3>1, <3>2 DEF FreeApart
    <3>3. CASE i < f /\ j >= f
      <4>1. i < j + 1
        BY <1>7, <2>2
      <4> QED
        BY <1>7, <3>1, <3>3, <4>1 DEF FreeApart
    <3>4. CASE i >= f
      <4>1. i + 1 < j + 1 /\ j >= f
        BY <1>3, <1>7, <2>2, <3>4
      <4> QED
        BY <1>7, <3>1, <3>4, <4>1 DEF FreeApart
    <3> QED
      BY <1>3, <1>7, <3>2, <3>3, <3>4
  <2> QED
    BY <2>1, <2>2 DEF FreeApart, End
<1>9. ASSUME NEW p \in Nat
      PROVE  Among(p, a, n) <=> In(p, ranges[f])
  BY <1>1, <1>2 DEF Among, In, End
<1>10. FreeLoses(a, n)
  <2> SUFFICES ASSUME NEW p \in Nat
               PROVE  FreePage(p)' <=> FreePage(p) /\ ~In(p, ranges[f])
    BY <1>9 DEF FreeLoses
  <2>1. FreePage(p)' <=> \E i \in FreeIdx' : In(p, ranges'[i])
    BY DEF FreePage, In, End
  <2>2. \A i \in FreeIdx : In(p, ranges[i]) /\ In(p, ranges[f]) => i = f
    BY <1>3, FreeDisjoint DEF IInv
  <2>3. ASSUME NEW i \in FreeIdx', In(p, ranges'[i])
        PROVE  FreePage(p) /\ ~In(p, ranges[f])
    <3>1. CASE i < f
      BY <1>3, <1>7, <2>2, <2>3, <3>1 DEF FreePage
    <3>2. CASE i >= f
      <4>1. i + 1 # f
        BY <1>3, <1>7, <3>2
      <4> QED
        BY <1>7, <2>2, <2>3, <3>2, <4>1 DEF FreePage
    <3> QED
      BY <1>3, <1>7, <3>1, <3>2
  <2>4. ASSUME NEW i \in FreeIdx, In(p, ranges[i]), i # f
        PROVE  \E j \in FreeIdx' : In(p, ranges'[j])
    <3>1. /\ i \in Int
          /\ i < f => i \in FreeIdx'
          /\ i > f => i - 1 \in FreeIdx' /\ i - 1 >= f /\ (i - 1) + 1 = i
      BY <1>3 DEF FreeIdx
    <3>2. CASE i < f
      BY <1>7, <2>4, <3>1, <3>2
    <3>3. CASE i > f
      <4>1. ranges'[i - 1] = ranges[i]
        BY <1>7, <3>1, <3>3
      <4> QED
        BY <2>4, <3>1, <3>3, <4>1
    <3> QED
      BY <1>3, <2>4, <3>1, <3>2, <3>3
  <2> QED
    BY <1>3, <2>1, <2>3, <2>4 DEF FreePage
<1>11. PagesSplit'
  <2>1. \A p \in Nat : Among(p, a, n) => FreePage(p)
    BY <1>3, <1>9 DEF FreePage
  <2> QED
    BY <1>5, <1>10, <2>1, PagesMove DEF IInv
<1>12. LastStays' /\ UsedListed'
  BY <1>1, <1>3 DEF LastStays, UsedListed
<1> QED
  BY <1>5, <1>6, <1>8, <1>11, <1>12 DEF IInv

-----------------------------------------------------------------------------
(* What giving back the used range at index u does to the array: the free  *)
(* ranges from lo to hi - 1 become one with it, which goes from b to e.    *)
(* The indices of what lies behind change by d.                            *)
Merged(u, lo, hi, b, e, d) ==
  /\ ranges' \in [0 .. Cap -> Entries]
  /\ d = hi - lo - 1
  /\ free_count' = free_count - d
  /\ range_count' = range_count - d - 1
  /\ \A i \in 0 .. Cap : i < lo => ranges'[i] = ranges[i]
  /\ ranges'[lo] = VRange(b, e - b)
  /\ \A i \in 0 .. Cap : lo < i /\ i < free_count - d => ranges'[i] = ranges[i + d]
  /\ \A i \in 0 .. Cap : free_count - d <= i /\ i < range_count - d - 1 =>
       ranges'[i] = IF i + d < u THEN ranges[i + d] ELSE ranges[i + d + 1]

(* The new free range has the pages of those it replaces and is apart from *)
(* the others.                                                             *)
Replaces(s, m, lo, hi, b, e) ==
  /\ b < e
  /\ \A i \in FreeIdx : i < lo => End(ranges[i]) < b
  /\ \A i \in FreeIdx : i >= hi => e < ranges[i].start
  /\ \A p \in Nat : b <= p /\ p < e <=>
       Among(p, s, m) \/ \E i \in FreeIdx : lo <= i /\ i < hi /\ In(p, ranges[i])
  /\ hi = free_count => e = End(ranges[free_count - 1])

LEMMA MergedUsed ==
  ASSUME IInv, use = "partial", NEW u \in UsedIdx, NEW s \in Nat, s = ranges[u].start,
         NEW lo \in Nat, NEW hi \in Nat, NEW b \in Nat, NEW e \in Nat, NEW d \in Int,
         lo <= hi, hi <= free_count, lo < free_count,
         Merged(u, lo, hi, b, e, d),
         held' = [r \in DOMAIN held \ {s} |-> held[r]]
  PROVE  UsedListed'
<1>1. /\ Cap \in Nat /\ free_count \in Nat /\ range_count \in Nat /\ u \in Int
      /\ free_count <= u /\ u < range_count /\ range_count <= Cap
      /\ d >= -1
      /\ free_count' = free_count - d /\ range_count' = range_count - d - 1
  BY VRangesAssumption DEF IInv, Types, UsedIdx, Merged
<1>2. /\ \A i, j \in UsedIdx : i < j => ranges[i].start < ranges[j].start
      /\ \A i \in UsedIdx :
           ranges[i].start \in DOMAIN held /\ ranges[i].size = held[ranges[i].start]
      /\ \A r \in DOMAIN held : \E i \in UsedIdx : ranges[i].start = r
  BY DEF UsedListed, IInv
<1>3. /\ DOMAIN held' = DOMAIN held \ {s}
      /\ \A r \in DOMAIN held' : held'[r] = held[r]
  OBVIOUS
<1>4. \A i \in UsedIdx : i \in Int /\ (i # u => ranges[i].start # s)
  <2> TAKE i \in UsedIdx
  <2>1. i \in Int /\ (i < u \/ i = u \/ i > u)
    BY <1>1 DEF UsedIdx
  <2>2. ranges[i].start \in Nat
    BY <1>2 DEF IInv, Types, HeldTypes
  <2> QED
    BY <1>2, <2>1, <2>2
<1>5. ASSUME NEW j \in UsedIdx'
      PROVE  /\ j \in Int
             /\ j + d < u => j + d \in UsedIdx /\ ranges'[j] = ranges[j + d]
             /\ j + d >= u =>
                  j + d + 1 \in UsedIdx /\ j + d + 1 > u /\ ranges'[j] = ranges[j + d + 1]
  <2>1. j \in Int /\ free_count - d <= j /\ j < range_count - d - 1
    BY <1>1 DEF UsedIdx
  <2>2. j \in 0 .. Cap
    BY <1>1, <2>1 DEF Merged
  <2>3. ranges'[j] = IF j + d < u THEN ranges[j + d] ELSE ranges[j + d + 1]
    BY <2>1, <2>2 DEF Merged
  <2>4. /\ j + d < u => j + d \in UsedIdx
        /\ j + d >= u => j + d + 1 \in UsedIdx /\ j + d + 1 > u /\ ~(j + d < u)
    BY <1>1, <2>1 DEF UsedIdx
  <2> QED
    BY <2>1, <2>3, <2>4
<1>6. ASSUME NEW j \in UsedIdx'
      PROVE  ranges'[j].start \in DOMAIN held' /\ ranges'[j].size = held'[ranges'[j].start]
  <2>1. CASE j + d < u
    BY <1>1, <1>2, <1>3, <1>4, <1>5, <2>1
  <2>2. CASE j + d >= u
    BY <1>1, <1>2, <1>3, <1>4, <1>5, <2>2
  <2> QED
    BY <1>1, <1>5, <2>1, <2>2
<1>7. ASSUME NEW r \in DOMAIN held'
      PROVE  \E j \in UsedIdx' : ranges'[j].start = r
  <2>1. PICK i \in UsedIdx : ranges[i].start = r
    BY <1>2, <1>3
  <2>2. i \in Int /\ i # u
    BY <1>3, <1>4, <2>1
  <2>3. CASE i < u
    <3>1. i - d \in UsedIdx' /\ (i - d) + d = i
      BY <1>1, <2>2, <2>3 DEF UsedIdx
    <3> QED
      BY <1>5, <2>1, <2>3, <3>1
  <2>4. CASE i > u
    <3>1. i - d - 1 \in UsedIdx' /\ (i - d - 1) + d >= u /\ (i - d - 1) + d + 1 = i
      BY <1>1, <2>2, <2>4 DEF UsedIdx
    <3> QED
      BY <1>5, <2>1, <3>1
  <2> QED
    BY <1>1, <2>2, <2>3, <2>4
<1>8. ASSUME NEW i \in UsedIdx', NEW j \in UsedIdx', i < j
      PROVE  ranges'[i].start < ranges'[j].start
  <2>1. i \in Int /\ j \in Int
    BY <1>5
  <2>2. CASE j + d < u
    <3>1. i + d < j + d /\ i + d < u
      BY <1>1, <1>8, <2>1, <2>2
    <3> QED
      BY <1>2, <1>5, <2>2, <3>1
  <2>3. CASE i + d < u /\ j + d >= u
    <3>1. i + d < j + d + 1
      BY <1>1, <1>8, <2>1
    <3> QED
      BY <1>2, <1>5, <2>3, <3>1
  <2>4. CASE i + d >= u
    <3>1. j + d >= u /\ i + d + 1 < j + d + 1
      BY <1>1, <1>8, <2>1, <2>4
    <3> QED
      BY <1>2, <1>5, <2>4, <3>1
  <2> QED
    BY <1>1, <2>1, <2>2, <2>3, <2>4
<1> QED
  BY <1>6, <1>7, <1>8 DEF UsedListed

LEMMA MergedFree ==
  ASSUME IInv, use = "partial", NEW u \in UsedIdx, NEW s \in Nat, NEW m \in Nat,
         NEW lo \in Nat, NEW hi \in Nat, NEW b \in Nat, NEW e \in Nat, NEW d \in Int,
         lo <= hi, hi <= free_count, lo < free_count,
         Replaces(s, m, lo, hi, b, e), Merged(u, lo, hi, b, e, d)
  PROVE  FreeApart' /\ FreeGains(s, m) /\ LastStays'
<1>1. /\ Cap \in Nat /\ free_count \in Nat /\ range_count \in Nat
      /\ free_count < range_count /\ range_count <= Cap
      /\ d = hi - lo - 1
      /\ free_count' = free_count - d
  BY VRangesAssumption DEF IInv, Types, UsedIdx, Merged
<1>2. \A i \in FreeIdx : i \in Int /\ ranges[i].start \in Nat /\ End(ranges[i]) \in Nat
  <2> TAKE i \in FreeIdx
  <2>1. i \in Int /\ ranges[i] \in Entries
    BY <1>1 DEF IInv, Types, FreeIdx
  <2> QED
    BY <2>1 DEF Entries, End
<1>3. /\ lo \in FreeIdx'
      /\ ranges'[lo].start = b /\ ranges'[lo].size = e - b /\ End(ranges'[lo]) = e
      /\ e > b
  BY <1>1 DEF FreeIdx, Merged, VRange, End, Replaces
<1>4. ASSUME NEW i \in FreeIdx'
      PROVE  /\ i \in Int
             /\ i < lo => i \in FreeIdx /\ ranges'[i] = ranges[i]
             /\ i > lo => i + d \in FreeIdx /\ i + d >= hi /\ ranges'[i] = ranges[i + d]
  <2>1. i \in 0 .. Cap /\ i < free_count - d
    BY <1>1 DEF FreeIdx
  <2>2. /\ i < lo => ranges'[i] = ranges[i]
        /\ i > lo => ranges'[i] = ranges[i + d]
    BY <2>1 DEF Merged
  <2>3. /\ i < lo => i \in FreeIdx
        /\ i > lo => i + d \in FreeIdx /\ i + d >= hi
    BY <1>1, <2>1 DEF FreeIdx
  <2> QED
    BY <2>1, <2>2, <2>3
<1>5. FreeApart'
  <2>1. ASSUME NEW i \in FreeIdx'
        PROVE  ranges'[i].size > 0
    <3>1. CASE i = lo
      BY <1>3, <3>1
    <3>2. CASE i # lo
      BY <1>4, <3>2 DEF FreeApart, IInv
    <3> QED
      BY <3>1, <3>2
  <2>2. ASSUME NEW i \in FreeIdx', NEW j \in FreeIdx', i < j
        PROVE  End(ranges'[i]) < ranges'[j].start
    <3>1. /\ \A k, l \in FreeIdx : k < l => End(ranges[k]) < ranges[l].start
          /\ \A k \in FreeIdx : k < lo => End(ranges[k]) < b
          /\ \A k \in FreeIdx : k >= hi => e < ranges[k].start
      BY DEF FreeApart, IInv, Replaces
    <3>2. i \in Int /\ j \in Int
      BY <1>4
    <3>3. CASE j < lo
      BY <1>4, <2>2, <3>1, <3>2, <3>3
    <3>4. CASE j = lo
      BY <1>3, <1>4, <2>2, <3>1, <3>4
    <3>5. CASE i = lo /\ j > lo
      BY <1>3, <1>4, <3>1, <3>5
    <3>6. CASE i < lo /\ j > lo
      <4>1. i < j + d
        BY <1>1, <1>4, <3>2, <3>6
      <4> QED
        BY <1>4, <3>1, <3>6, <4>1
    <3>7. CASE i > lo
      <4>1. i + d < j + d /\ j > lo
        BY <1>1, <2>2, <3>2, <3>7
      <4> QED
        BY <1>4, <3>1, <3>7, <4>1
    <3> QED
      BY <2>2, <3>2, <3>3, <3>4, <3>5, <3>6, <3>7
  <2> QED
    BY <2>1, <2>2 DEF FreeApart, End
<1>6. FreeGains(s, m)
  <2> SUFFICES ASSUME NEW p \in Nat
               PROVE  FreePage(p)' <=> FreePage(p) \/ Among(p, s, m)
    BY DEF FreeGains
  <2>1. FreePage(p)' <=> \E i \in FreeIdx' : In(p, ranges'[i])
    BY DEF FreePage, In, End
  <2>2. In(p, ranges'[lo]) <=>
          Among(p, s, m) \/ \E i \in FreeIdx : lo <= i /\ i < hi /\ In(p, ranges[i])
    BY <1>3 DEF In, Replaces
  <2>3. ASSUME NEW i \in FreeIdx', In(p, ranges'[i]), i # lo
        PROVE  FreePage(p)
    <3>1. i < lo \/ i > lo
      BY <1>4, <2>3
    <3> QED
      BY <1>4, <2>3, <3>1 DEF FreePage
  <2>4. ASSUME NEW i \in FreeIdx, In(p, ranges[i]), ~(lo <= i /\ i < hi)
        PROVE  \E j \in FreeIdx' : In(p, ranges'[j])
    <3>1. i \in Int /\ (i < lo \/ i >= hi)
      BY <1>2, <2>4
    <3>2. CASE i < lo
      <4>1. i \in FreeIdx'
        BY <1>1, <3>1, <3>2 DEF FreeIdx
      <4> QED
        BY <1>4, <2>4, <3>2, <4>1
    <3>3. CASE i >= hi
      <4>1. i - d \in FreeIdx' /\ i - d > lo /\ (i - d) + d = i
        BY <1>1, <3>1, <3>3 DEF FreeIdx
      <4>2. ranges'[i - d] = ranges[i]
        BY <1>4, <4>1
      <4> QED
        BY <2>4, <4>1, <4>2
    <3> QED
      BY <3>1, <3>2, <3>3
  <2>5. FreePage(p) => \E j \in FreeIdx' : In(p, ranges'[j])
    <3> SUFFICES ASSUME NEW i \in FreeIdx, In(p, ranges[i])
                 PROVE  \E j \in FreeIdx' : In(p, ranges'[j])
      BY DEF FreePage
    <3>1. CASE lo <= i /\ i < hi
      BY <1>3, <2>2, <3>1
    <3> QED
      BY <2>4, <3>1
  <2> QED
    BY <1>3, <2>1, <2>2, <2>3, <2>5 DEF FreePage
<1>7. LastStays'
  <2>1. free_count >= 1 /\ End(ranges[free_count - 1]) = BootEnd
    BY DEF LastStays, IInv
  <2>2. free_count' >= 1 /\ free_count' - 1 \in FreeIdx'
    BY <1>1 DEF FreeIdx
  <2>3. CASE hi = free_count
    <3>1. free_count' - 1 = lo
      BY <1>1, <2>3
    <3> QED
      BY <1>3, <2>1, <2>2, <2>3, <3>1 DEF LastStays, BootEnd, End, Replaces
  <2>4. CASE hi # free_count
    <3>1. free_count' - 1 > lo /\ (free_count' - 1) + d = free_count - 1
      BY <1>1, <2>4
    <3>2. ranges'[free_count' - 1] = ranges[free_count - 1]
      BY <1>4, <2>2, <3>1
    <3> QED
      BY <2>1, <2>2, <3>2 DEF LastStays, BootEnd, End
  <2> QED
    BY <2>3, <2>4
<1> QED
  BY <1>5, <1>6, <1>7

(* The state in which FreeVirtualRange finds the range in use that begins  *)
(* at page s at index u, and the first free range behind it at index f.    *)
Found(u, f, s, m) ==
  /\ u \in UsedIdx /\ f \in FreeIdx
  /\ s = ranges[u].start /\ m = ranges[u].size /\ m > 0
  /\ s \in DOMAIN held /\ held[s] = m
  /\ \A i \in FreeIdx : i < f => End(ranges[i]) <= s
  /\ \A i \in FreeIdx : i >= f => s + m <= ranges[i].start

LEMMA FoundRight ==
  ASSUME IInv, use = "partial", NEW s \in Nat, NEW u \in 0 .. Cap, NEW f \in 0 .. Cap,
         UsedVirtualRangeIndex(u, s), Known(u, s), FirstBehind(f, s)
  PROVE  ranges[u].size \in Nat /\ Found(u, f, s, ranges[u].size)
<1>1. /\ Cap \in Nat /\ u \in UsedIdx /\ f \in FreeIdx
      /\ ranges[u].start = s
      /\ ranges[f].start > s /\ \A i \in FreeIdx : i < f => ranges[i].start <= s
  BY VRangesAssumption
     DEF IInv, Types, UsedVirtualRangeIndex, Known, FirstBehind, UsedIdx, FreeIdx
<1>2. s \in DOMAIN held /\ held[s] = ranges[u].size /\ ranges[u].size \in Nat \ {0}
  BY <1>1 DEF IInv, UsedListed, Types, HeldTypes
<1>3. Types /\ PagesSplit /\ FreeApart
  BY DEF IInv
<1>4. ASSUME NEW i \in FreeIdx
      PROVE  /\ i \in Int
             /\ ranges[i].start \in Nat /\ ranges[i].size \in Nat
             /\ End(ranges[i]) = ranges[i].start + ranges[i].size
             /\ s # ranges[i].start
             /\ s < ranges[i].start => s + held[s] <= ranges[i].start
             /\ s > ranges[i].start => End(ranges[i]) <= s
  BY <1>2, <1>3, FreeNotHeld DEF FreeIdx
<1>5. ASSUME NEW i \in FreeIdx, i < f
      PROVE  End(ranges[i]) <= s
  <2>1. ranges[i].start <= s
    BY <1>1, <1>5
  <2> QED
    BY <1>4, <2>1
<1>6. ASSUME NEW i \in FreeIdx, i >= f
      PROVE  s + held[s] <= ranges[i].start
  <2>1. s < ranges[i].start
    <3>1. CASE i = f
      BY <1>1, <3>1
    <3>2. CASE i > f
      <4>1. End(ranges[f]) < ranges[i].start
        BY <1>1, <1>3, <3>2 DEF FreeApart
      <4>2. End(ranges[f]) \in Nat /\ s < End(ranges[f])
        BY <1>1, <1>4
      <4> QED
        BY <1>4, <4>1, <4>2
    <3> QED
      BY <1>1, <1>4, <1>6, <3>1, <3>2
  <2> QED
    BY <1>4, <2>1
<1> QED
  BY <1>1, <1>2, <1>5, <1>6 DEF Found

(* The new range begins where the one that is given back does, or where a  *)
(* free range that ends there does, and likewise for its end.              *)
Begins(f, s, lo, b) ==
  \/ /\ lo = f /\ b = s
     /\ f > 0 => End(ranges[f - 1]) # s
  \/ lo = f - 1 /\ b = ranges[f - 1].start /\ End(ranges[f - 1]) = s
Ends(f, q, hi, e) ==
  \/ hi = f /\ e = q /\ q # ranges[f].start
  \/ hi = f + 1 /\ e = End(ranges[f]) /\ q = ranges[f].start

LEMMA ReplacesRight ==
  ASSUME IInv, NEW s \in Nat, NEW m \in Nat, NEW u \in Int, NEW f \in Int,
         Found(u, f, s, m),
         NEW lo \in Nat, NEW hi \in Nat, NEW b \in Nat, NEW e \in Nat,
         Begins(f, s, lo, b), Ends(f, s + m, hi, e)
  PROVE  Replaces(s, m, lo, hi, b, e)
<1>1. /\ free_count \in Nat /\ f \in Nat /\ f < free_count /\ f \in FreeIdx
      /\ f > 0 => f - 1 \in FreeIdx
      /\ m > 0
  BY DEF IInv, Types, Found, FreeIdx
<1>2. /\ \A i, j \in FreeIdx : i < j => End(ranges[i]) < ranges[j].start
      /\ \A i \in FreeIdx : i < f => End(ranges[i]) <= s
      /\ \A i \in FreeIdx : i >= f => s + m <= ranges[i].start
  BY DEF IInv, FreeApart, Found
<1>3. ASSUME NEW i \in FreeIdx
      PROVE  /\ i \in Int /\ i \in 0 .. free_count - 1
             /\ ranges[i].start \in Nat /\ End(ranges[i]) \in Nat
             /\ ranges[i].start < End(ranges[i])
  <2>1. i \in 0 .. Cap /\ i \in Int
    BY VRangesAssumption DEF IInv, Types, FreeIdx
  <2>2. ranges[i] \in Entries /\ ranges[i].size > 0
    BY <2>1 DEF IInv, Types, FreeApart
  <2> QED
    BY <2>1, <2>2 DEF Entries, End, FreeIdx
<1>4. /\ lo = f => b = s
      /\ lo # f => f > 0 /\ lo = f - 1 /\ b = ranges[f - 1].start /\ End(ranges[f - 1]) = s
      /\ lo = f /\ f > 0 => End(ranges[f - 1]) < s
  <2>1. f > 0 => End(ranges[f - 1]) <= s
    BY <1>1, <1>2
  <2> QED
    BY <1>1, <1>3, <2>1 DEF Begins
<1>5. /\ hi = f => e = s + m /\ s + m < ranges[f].start
      /\ hi # f => hi = f + 1 /\ e = End(ranges[f]) /\ s + m = ranges[f].start
  <2>1. s + m <= ranges[f].start
    BY <1>1, <1>2
  <2> QED
    BY <1>1, <1>3, <2>1 DEF Ends
<1>6. b <= s /\ s + m <= e /\ b < e
  <2>1. b <= s
    BY <1>1, <1>3, <1>4
  <2>2. s + m <= e
    BY <1>1, <1>3, <1>5
  <2> QED
    BY <1>1, <2>1, <2>2
<1>7. ASSUME NEW i \in FreeIdx, i < lo
      PROVE  End(ranges[i]) < b
  <2>1. CASE lo # f
    BY <1>1, <1>2, <1>4, <1>7, <2>1
  <2>2. CASE lo = f /\ i = f - 1
    BY <1>1, <1>3, <1>4, <1>7, <2>2
  <2>3. CASE lo = f /\ i # f - 1
    <3>1. f - 1 \in FreeIdx /\ i < f - 1
      BY <1>1, <1>3, <1>7, <2>3
    <3>2. End(ranges[i]) < ranges[f - 1].start /\ End(ranges[f - 1]) < s
      BY <1>1, <1>2, <1>3, <1>4, <1>7, <2>3, <3>1
    <3> QED
      BY <1>3, <1>4, <2>3, <3>1, <3>2
  <2> QED
    BY <2>1, <2>2, <2>3
<1>8. ASSUME NEW i \in FreeIdx, i >= hi
      PROVE  e < ranges[i].start
  <2>1. CASE hi # f
    BY <1>1, <1>2, <1>3, <1>5, <1>8, <2>1
  <2>2. CASE hi = f /\ i = f
    BY <1>5, <2>2
  <2>3. CASE hi = f /\ i # f
    <3>1. f < i
      BY <1>1, <1>3, <1>8, <2>3
    <3>2. End(ranges[f]) < ranges[i].start /\ s + m < ranges[f].start
      BY <1>1, <1>2, <1>5, <2>3, <3>1
    <3> QED
      BY <1>1, <1>3, <1>5, <2>3, <3>2
  <2> QED
    BY <2>1, <2>2, <2>3
<1>9. ASSUME NEW p \in Nat
      PROVE  b <= p /\ p < e <=>
               Among(p, s, m) \/ \E i \in FreeIdx : lo <= i /\ i < hi /\ In(p, ranges[i])
  <2>1. \A i \in FreeIdx : lo <= i /\ i < hi =>
          \/ i = f /\ hi # f
          \/ i = f - 1 /\ lo # f
    BY <1>1, <1>3, <1>4, <1>5
  <2>2. lo # f => (In(p, ranges[f - 1]) <=> b <= p /\ p < s)
    BY <1>4 DEF In
  <2>3. hi # f => (In(p, ranges[f]) <=> s + m <= p /\ p < e)
    BY <1>5 DEF In
  <2>4. lo # f => f - 1 \in FreeIdx /\ lo <= f - 1 /\ f - 1 < hi
    BY <1>1, <1>4, <1>5
  <2>5. hi # f => f \in FreeIdx /\ lo <= f /\ f < hi
    BY <1>1, <1>4, <1>5
  <2>6. (\E i \in FreeIdx : lo <= i /\ i < hi /\ In(p, ranges[i])) <=>
          \/ lo # f /\ b <= p /\ p < s
          \/ hi # f /\ s + m <= p /\ p < e
    BY <2>1, <2>2, <2>3, <2>4, <2>5
  <2>7. b <= p /\ p < e <=>
          \/ s <= p /\ p < s + m
          \/ lo # f /\ b <= p /\ p < s
          \/ hi # f /\ s + m <= p /\ p < e
    BY <1>1, <1>4, <1>5, <1>6
  <2> QED
    BY <2>6, <2>7 DEF Among
<1>10. hi = free_count => e = End(ranges[free_count - 1])
  BY <1>1, <1>5
<1> QED
  BY <1>6, <1>7, <1>8, <1>9, <1>10 DEF Replaces

(* The four cases. *)
LEMMA NoMergeMerged ==
  ASSUME IInv, NEW s \in Nat, NEW m \in Nat, NEW u \in Int, NEW f \in Int,
         Found(u, f, s, m), NoMerge(u, f)
  PROVE  \E lo, hi, b, e \in Nat, d \in Int :
           /\ lo <= hi /\ hi <= free_count /\ lo < free_count
           /\ Replaces(s, m, lo, hi, b, e) /\ Merged(u, lo, hi, b, e, d)
<1>1. /\ Cap \in Nat /\ free_count \in Nat /\ range_count \in Nat /\ range_count <= Cap
      /\ f \in Nat /\ f < free_count /\ free_count <= u /\ u < range_count
      /\ u \in 0 .. Cap /\ f \in 0 .. Cap
      /\ ranges \in [0 .. Cap -> Entries]
  BY VRangesAssumption DEF IInv, Types, Found, FreeIdx, UsedIdx
<1>2. /\ s = ranges[u].start /\ m = ranges[u].size /\ m > 0
      /\ ranges[f].start \in Nat /\ ranges[f].size \in Nat
      /\ End(ranges[u]) = s + m /\ End(ranges[f]) = ranges[f].start + ranges[f].size
  BY <1>1 DEF Found, Entries, End
<1>3. f > 0 => End(ranges[f - 1]) # s
  BY <1>2 DEF NoMerge, TouchesPrev
<1>4. s + m # ranges[f].start
  BY <1>2 DEF NoMerge, TouchesNext
<1>5. Replaces(s, m, f, f, s, s + m)
  <2>1. Begins(f, s, f, s) /\ Ends(f, s + m, f, s + m)
    BY <1>1, <1>3, <1>4 DEF Begins, Ends
  <2>2. f \in Nat /\ f \in Nat /\ s \in Nat /\ s + m \in Nat
    BY <1>1, <1>3, <1>4
  <2>3. Found(u, f, s, m)
    OBVIOUS
  <2> QED
    BY <2>1, <2>2, <2>3, ReplacesRight
<1>6. Merged(u, f, f, s, s + m, -1)
  <2>1. /\ ranges' = [MoveUp(ranges, f, u) EXCEPT ![f] = ranges[u]]
        /\ free_count' = free_count + 1 /\ range_count' = range_count
    BY DEF NoMerge
  <2>2. /\ MoveUp(ranges, f, u) \in [0 .. Cap -> Entries]
        /\ \A i \in 0 .. Cap :
             MoveUp(ranges, f, u)[i] = IF f < i /\ i <= u THEN ranges[i - 1] ELSE ranges[i]
    <3>1. u \in Nat /\ u <= Cap
      BY <1>1
    <3> QED
      BY <1>1, <3>1, MovedUp
  <2>3. ranges[u] \in Entries /\ ranges[u] = VRange(s, (s + m) - s)
    <3>1. (s + m) - s = m
      OBVIOUS
    <3> QED
      BY <1>1, <1>2, <3>1 DEF Entries, VRange
  <2>4. /\ ranges' \in [0 .. Cap -> Entries]
        /\ ranges'[f] = VRange(s, (s + m) - s)
        /\ \A i \in 0 .. Cap : i # f => ranges'[i] = MoveUp(ranges, f, u)[i]
    BY <1>1, <2>1, <2>2, <2>3
  <2>5. \A i \in 0 .. Cap : i < f => ranges'[i] = ranges[i]
    BY <1>1, <2>2, <2>4
  <2>6. \A i \in 0 .. Cap : f < i /\ i < free_count - (-1) => ranges'[i] = ranges[i + (-1)]
    BY <1>1, <2>2, <2>4
  <2>7. \A i \in 0 .. Cap : free_count - (-1) <= i /\ i < range_count - (-1) - 1 =>
          ranges'[i] = IF i + (-1) < u THEN ranges[i + (-1)] ELSE ranges[i + (-1) + 1]
    <3> SUFFICES ASSUME NEW i \in 0 .. Cap, free_count - (-1) <= i, i < range_count - (-1) - 1
                 PROVE  ranges'[i] = IF i + (-1) < u THEN ranges[i + (-1)] ELSE ranges[i + (-1) + 1]
      OBVIOUS
    <3>1. /\ i # f /\ f < i /\ i + (-1) = i - 1 /\ i + (-1) + 1 = i
          /\ i <= u <=> i + (-1) < u
      BY <1>1
    <3> QED
      BY <2>2, <2>4, <3>1
  <2>8. -1 = f - f - 1 /\ free_count' = free_count - (-1) /\ range_count' = range_count - (-1) - 1
    BY <1>1, <2>1
  <2> QED
    BY <2>4, <2>5, <2>6, <2>7, <2>8 DEF Merged
<1> QED
  BY <1>1, <1>5, <1>6

LEMMA MergeNextMerged ==
  ASSUME IInv, NEW s \in Nat, NEW m \in Nat, NEW u \in Int, NEW f \in Int,
         Found(u, f, s, m), MergeNext(u, f)
  PROVE  \E lo, hi, b, e \in Nat, d \in Int :
           /\ lo <= hi /\ hi <= free_count /\ lo < free_count
           /\ Replaces(s, m, lo, hi, b, e) /\ Merged(u, lo, hi, b, e, d)
<1>1. /\ Cap \in Nat /\ free_count \in Nat /\ range_count \in Nat /\ range_count <= Cap
      /\ f \in Nat /\ f < free_count /\ free_count <= u /\ u < range_count
      /\ u \in 0 .. Cap /\ f \in 0 .. Cap
      /\ ranges \in [0 .. Cap -> Entries]
  BY VRangesAssumption DEF IInv, Types, Found, FreeIdx, UsedIdx
<1>2. /\ s = ranges[u].start /\ m = ranges[u].size /\ m > 0
      /\ ranges[f].start \in Nat /\ ranges[f].size \in Nat
      /\ End(ranges[u]) = s + m /\ End(ranges[f]) = ranges[f].start + ranges[f].size
  BY <1>1 DEF Found, Entries, End
<1>3. f > 0 => End(ranges[f - 1]) # s
  BY <1>2 DEF MergeNext, TouchesPrev
<1>4. s + m = ranges[f].start
  BY <1>2 DEF MergeNext, TouchesNext
<1>5. PICK e \in Nat : e = End(ranges[f])
  BY <1>2
<1>6. Replaces(s, m, f, f + 1, s, e)
  <2>1. Begins(f, s, f, s) /\ Ends(f, s + m, f + 1, e)
    BY <1>1, <1>3, <1>4, <1>5 DEF Begins, Ends
  <2>2. f \in Nat /\ f + 1 \in Nat /\ s \in Nat /\ e \in Nat
    BY <1>1, <1>3, <1>4, <1>5
  <2>3. Found(u, f, s, m)
    OBVIOUS
  <2> QED
    BY <2>1, <2>2, <2>3, ReplacesRight
<1>7. Merged(u, f, f + 1, s, e, 0)
  <2> DEFINE A == [ranges EXCEPT ![f] = VRange(ranges[u].start, ranges[u].size + ranges[f].size)]
  <2>1. /\ ranges' = MoveDown(A, u, range_count - 1, 1)
        /\ free_count' = free_count /\ range_count' = range_count - 1
    BY DEF MergeNext
  <2>2. /\ VRange(ranges[u].start, ranges[u].size + ranges[f].size) = VRange(s, e - s)
        /\ VRange(s, e - s) \in Entries
    <3>1. ranges[u].size + ranges[f].size = e - s /\ e - s \in Nat
      BY <1>2, <1>4, <1>5
    <3> QED
      BY <1>2, <3>1 DEF VRange, Entries
  <2>3. /\ A \in [0 .. Cap -> Entries]
        /\ A[f] = VRange(s, e - s)
        /\ \A i \in 0 .. Cap : i # f => A[i] = ranges[i]
    BY <1>1, <2>2
  <2> HIDE DEF A
  <2>4. /\ MoveDown(A, u, range_count - 1, 1) \in [0 .. Cap -> Entries]
        /\ \A i \in 0 .. Cap : u <= i /\ i < range_count - 1 =>
             MoveDown(A, u, range_count - 1, 1)[i] = A[i + 1]
        /\ \A i \in 0 .. Cap : ~(u <= i /\ i < range_count - 1) =>
             MoveDown(A, u, range_count - 1, 1)[i] = A[i]
    BY <1>1, <2>3, MovedDown
  <2>5. /\ \A i \in 0 .. Cap : i < f => ranges'[i] = ranges[i]
        /\ ranges'[f] = VRange(s, e - s)
        /\ \A i \in 0 .. Cap : f < i /\ i < free_count - 0 => ranges'[i] = ranges[i + 0]
    BY <1>1, <2>1, <2>3, <2>4
  <2>6. \A i \in 0 .. Cap : free_count - 0 <= i /\ i < range_count - 0 - 1 =>
          ranges'[i] = IF i + 0 < u THEN ranges[i + 0] ELSE ranges[i + 0 + 1]
    BY <1>1, <2>1, <2>3, <2>4
  <2>7. 0 = f + 1 - f - 1 /\ free_count' = free_count - 0 /\ range_count' = range_count - 0 - 1
    BY <1>1, <2>1
  <2> QED
    BY <2>1, <2>4, <2>5, <2>6, <2>7 DEF Merged
<1> QED
  BY <1>1, <1>6, <1>7

LEMMA MergePrevMerged ==
  ASSUME IInv, NEW s \in Nat, NEW m \in Nat, NEW u \in Int, NEW f \in Int,
         Found(u, f, s, m), MergePrev(u, f)
  PROVE  \E lo, hi, b, e \in Nat, d \in Int :
           /\ lo <= hi /\ hi <= free_count /\ lo < free_count
           /\ Replaces(s, m, lo, hi, b, e) /\ Merged(u, lo, hi, b, e, d)
<1>1. /\ Cap \in Nat /\ free_count \in Nat /\ range_count \in Nat /\ range_count <= Cap
      /\ f \in Nat /\ f < free_count /\ free_count <= u /\ u < range_count
      /\ u \in 0 .. Cap /\ f \in 0 .. Cap
      /\ ranges \in [0 .. Cap -> Entries]
  BY VRangesAssumption DEF IInv, Types, Found, FreeIdx, UsedIdx
<1>2. /\ s = ranges[u].start /\ m = ranges[u].size /\ m > 0
      /\ ranges[f].start \in Nat /\ ranges[f].size \in Nat
      /\ End(ranges[u]) = s + m /\ End(ranges[f]) = ranges[f].start + ranges[f].size
  BY <1>1 DEF Found, Entries, End
<1>3. /\ f > 0 /\ f - 1 \in 0 .. Cap /\ End(ranges[f - 1]) = s
      /\ ranges[f - 1].start \in Nat /\ ranges[f - 1].size \in Nat
      /\ ranges[f - 1].start + ranges[f - 1].size = s
  <2>1. f > 0 /\ End(ranges[f - 1]) = s
    BY <1>2 DEF MergePrev, TouchesPrev
  <2>2. f - 1 \in 0 .. Cap
    BY <1>1, <2>1
  <2> QED
    BY <1>1, <2>1, <2>2 DEF Entries, End
<1>4. s + m # ranges[f].start
  BY <1>2 DEF MergePrev, TouchesNext
<1>5. PICK b \in Nat : b = ranges[f - 1].start
  BY <1>3
<1>6. Replaces(s, m, f - 1, f, b, s + m)
  <2>1. Begins(f, s, f - 1, b) /\ Ends(f, s + m, f, s + m)
    BY <1>1, <1>3, <1>4, <1>5 DEF Begins, Ends
  <2>2. f - 1 \in Nat /\ f \in Nat /\ b \in Nat /\ s + m \in Nat
    BY <1>1, <1>3, <1>4, <1>5
  <2>3. Found(u, f, s, m)
    OBVIOUS
  <2> QED
    BY <2>1, <2>2, <2>3, ReplacesRight
<1>7. Merged(u, f - 1, f, b, s + m, 0)
  <2> DEFINE A == [ranges EXCEPT ![f - 1] =
                     VRange(ranges[f - 1].start, ranges[f - 1].size + ranges[u].size)]
  <2>1. /\ ranges' = MoveDown(A, u, range_count - 1, 1)
        /\ free_count' = free_count /\ range_count' = range_count - 1
    BY DEF MergePrev
  <2>2. /\ VRange(ranges[f - 1].start, ranges[f - 1].size + ranges[u].size) = VRange(b, s + m - b)
        /\ VRange(b, s + m - b) \in Entries
    <3>1. ranges[f - 1].size + ranges[u].size = s + m - b /\ s + m - b \in Nat
      BY <1>2, <1>3, <1>5
    <3> QED
      BY <1>5, <3>1 DEF VRange, Entries
  <2>3. /\ A \in [0 .. Cap -> Entries]
        /\ A[f - 1] = VRange(b, s + m - b)
        /\ \A i \in 0 .. Cap : i # f - 1 => A[i] = ranges[i]
    BY <1>1, <1>3, <2>2
  <2> HIDE DEF A
  <2>4. /\ MoveDown(A, u, range_count - 1, 1) \in [0 .. Cap -> Entries]
        /\ \A i \in 0 .. Cap : u <= i /\ i < range_count - 1 =>
             MoveDown(A, u, range_count - 1, 1)[i] = A[i + 1]
        /\ \A i \in 0 .. Cap : ~(u <= i /\ i < range_count - 1) =>
             MoveDown(A, u, range_count - 1, 1)[i] = A[i]
    BY <1>1, <2>3, MovedDown
  <2>5. /\ \A i \in 0 .. Cap : i < f - 1 => ranges'[i] = ranges[i]
        /\ ranges'[f - 1] = VRange(b, s + m - b)
        /\ \A i \in 0 .. Cap : f - 1 < i /\ i < free_count - 0 => ranges'[i] = ranges[i + 0]
    BY <1>1, <1>3, <2>1, <2>3, <2>4
  <2>6. \A i \in 0 .. Cap : free_count - 0 <= i /\ i < range_count - 0 - 1 =>
          ranges'[i] = IF i + 0 < u THEN ranges[i + 0] ELSE ranges[i + 0 + 1]
    BY <1>1, <2>1, <2>3, <2>4
  <2>7. 0 = f - (f - 1) - 1 /\ free_count' = free_count - 0 /\ range_count' = range_count - 0 - 1
    BY <1>1, <2>1
  <2> QED
    BY <2>1, <2>4, <2>5, <2>6, <2>7 DEF Merged
<1>8. f - 1 \in Nat /\ f - 1 <= f /\ f <= free_count /\ f - 1 < free_count
  BY <1>1, <1>3
<1>9. f \in Nat /\ s + m \in Nat /\ 0 \in Int
  BY <1>1
<1> QED
  BY <1>5, <1>6, <1>7, <1>8, <1>9

LEMMA MergeBothMerged ==
  ASSUME IInv, NEW s \in Nat, NEW m \in Nat, NEW u \in Int, NEW f \in Int,
         Found(u, f, s, m), MergeBoth(u, f)
  PROVE  \E lo, hi, b, e \in Nat, d \in Int :
           /\ lo <= hi /\ hi <= free_count /\ lo < free_count
           /\ Replaces(s, m, lo, hi, b, e) /\ Merged(u, lo, hi, b, e, d)
<1>1. /\ Cap \in Nat /\ free_count \in Nat /\ range_count \in Nat /\ range_count <= Cap
      /\ f \in Nat /\ f < free_count /\ free_count <= u /\ u < range_count
      /\ u \in 0 .. Cap /\ f \in 0 .. Cap
      /\ ranges \in [0 .. Cap -> Entries]
  BY VRangesAssumption DEF IInv, Types, Found, FreeIdx, UsedIdx
<1>2. /\ s = ranges[u].start /\ m = ranges[u].size /\ m > 0
      /\ ranges[f].start \in Nat /\ ranges[f].size \in Nat
      /\ End(ranges[u]) = s + m /\ End(ranges[f]) = ranges[f].start + ranges[f].size
  BY <1>1 DEF Found, Entries, End
<1>3. /\ f > 0 /\ f - 1 \in 0 .. Cap /\ End(ranges[f - 1]) = s
      /\ ranges[f - 1].start \in Nat /\ ranges[f - 1].size \in Nat
      /\ ranges[f - 1].start + ranges[f - 1].size = s
  <2>1. f > 0 /\ End(ranges[f - 1]) = s
    BY <1>2 DEF MergeBoth, TouchesPrev
  <2>2. f - 1 \in 0 .. Cap
    BY <1>1, <2>1
  <2> QED
    BY <1>1, <2>1, <2>2 DEF Entries, End
<1>4. s + m = ranges[f].start
  BY <1>2 DEF MergeBoth, TouchesNext
<1>5. PICK b \in Nat, e \in Nat : b = ranges[f - 1].start /\ e = End(ranges[f])
  BY <1>2, <1>3
<1>6. Replaces(s, m, f - 1, f + 1, b, e)
  <2>1. Begins(f, s, f - 1, b) /\ Ends(f, s + m, f + 1, e)
    BY <1>1, <1>3, <1>4, <1>5 DEF Begins, Ends
  <2>2. f - 1 \in Nat /\ f + 1 \in Nat /\ b \in Nat /\ e \in Nat
    BY <1>1, <1>3, <1>4, <1>5
  <2>3. Found(u, f, s, m)
    OBVIOUS
  <2> QED
    BY <2>1, <2>2, <2>3, ReplacesRight
<1>7. Merged(u, f - 1, f + 1, b, e, 1)
  <2> DEFINE n == ranges[f - 1].size + ranges[u].size + ranges[f].size
             A == [ranges EXCEPT ![f] = VRange(ranges[f - 1].start, n)]
             B == MoveDown(A, f - 1, u - 1, 1)
  <2>1. /\ ranges' = MoveDown(B, u - 1, range_count - 2, 2)
        /\ free_count' = free_count - 1 /\ range_count' = range_count - 2
    BY DEF MergeBoth
  <2>2. VRange(ranges[f - 1].start, n) = VRange(b, e - b) /\ VRange(b, e - b) \in Entries
    <3>1. n = e - b /\ e - b \in Nat
      BY <1>2, <1>3, <1>4, <1>5
    <3> QED
      BY <1>5, <3>1 DEF VRange, Entries
  <2>3. /\ A \in [0 .. Cap -> Entries]
        /\ A[f] = VRange(b, e - b)
        /\ \A i \in 0 .. Cap : i # f => A[i] = ranges[i]
    BY <1>1, <2>2
  <2> HIDE DEF A
  <2>4. /\ B \in [0 .. Cap -> Entries]
        /\ \A i \in 0 .. Cap : B[i] = IF f - 1 <= i /\ i < u - 1 THEN A[i + 1] ELSE A[i]
    <3>1. f - 1 \in Nat /\ u - 1 \in Int /\ 1 \in Nat /\ u - 1 + 1 <= Cap + 1
      BY <1>1, <1>3
    <3>2. /\ B \in [0 .. Cap -> Entries]
          /\ \A i \in 0 .. Cap : f - 1 <= i /\ i < u - 1 => B[i] = A[i + 1]
          /\ \A i \in 0 .. Cap : ~(f - 1 <= i /\ i < u - 1) => B[i] = A[i]
      BY <1>1, <2>3, <3>1, MovedDown
    <3> QED
      BY <3>2
  <2> HIDE DEF B
  <2>5. /\ MoveDown(B, u - 1, range_count - 2, 2) \in [0 .. Cap -> Entries]
        /\ \A i \in 0 .. Cap : u - 1 <= i /\ i < range_count - 2 =>
             MoveDown(B, u - 1, range_count - 2, 2)[i] = B[i + 2]
        /\ \A i \in 0 .. Cap : ~(u - 1 <= i /\ i < range_count - 2) =>
             MoveDown(B, u - 1, range_count - 2, 2)[i] = B[i]
    <3>1. \A i \in 0 .. Cap :
            /\ i \in u - 1 .. range_count - 2 - 1 <=> u - 1 <= i /\ i < range_count - 2
            /\ i < range_count - 2 => i + 2 \in 0 .. Cap
      BY <1>1
    <3> QED
      BY <2>4, <3>1 DEF MoveDown
  <2>6. \A i \in 0 .. Cap : i < f - 1 => ranges'[i] = ranges[i]
    BY <1>1, <1>3, <2>1, <2>3, <2>4, <2>5
  <2>7. ranges'[f - 1] = VRange(b, e - b)
    <3>1. f - 1 < u - 1 /\ f - 1 <= f - 1 /\ (f - 1) + 1 = f
      BY <1>1, <1>3
    <3> QED
      BY <1>1, <1>3, <2>1, <2>3, <2>4, <2>5, <3>1
  <2>8. \A i \in 0 .. Cap : f - 1 < i /\ i < free_count - 1 => ranges'[i] = ranges[i + 1]
    <3> SUFFICES ASSUME NEW i \in 0 .. Cap, f - 1 < i, i < free_count - 1
                 PROVE  ranges'[i] = ranges[i + 1]
      OBVIOUS
    <3>1. f - 1 <= i /\ i < u - 1 /\ ~(u - 1 <= i) /\ i + 1 \in 0 .. Cap /\ i + 1 # f
      BY <1>1, <1>3
    <3> QED
      BY <2>1, <2>3, <2>4, <2>5, <3>1
  <2>9. \A i \in 0 .. Cap : free_count - 1 <= i /\ i < range_count - 1 - 1 =>
          ranges'[i] = IF i + 1 < u THEN ranges[i + 1] ELSE ranges[i + 1 + 1]
    <3> SUFFICES ASSUME NEW i \in 0 .. Cap, free_count - 1 <= i, i < range_count - 1 - 1
                 PROVE  ranges'[i] = IF i + 1 < u THEN ranges[i + 1] ELSE ranges[i + 1 + 1]
      OBVIOUS
    <3>1. CASE i + 1 < u
      <4>1. f - 1 <= i /\ i < u - 1 /\ ~(u - 1 <= i) /\ i + 1 \in 0 .. Cap /\ i + 1 # f
        BY <1>1, <1>3, <3>1
      <4> QED
        BY <2>1, <2>3, <2>4, <2>5, <3>1, <4>1
    <3>2. CASE ~(i + 1 < u)
      <4>1. /\ u - 1 <= i /\ i < range_count - 2 /\ i + 2 \in 0 .. Cap /\ i + 2 # f
            /\ ~(i + 2 < u - 1) /\ i + 1 + 1 = i + 2
        BY <1>1, <1>3, <3>2
      <4> QED
        BY <2>1, <2>3, <2>4, <2>5, <3>2, <4>1
    <3> QED
      BY <3>1, <3>2
  <2>10. 1 = f + 1 - (f - 1) - 1 /\ range_count' = range_count - 1 - 1
    BY <1>1, <2>1
  <2>11. ranges' \in [0 .. Cap -> Entries] /\ free_count' = free_count - 1
    BY <2>1, <2>5
  <2> QED
    BY <2>6, <2>7, <2>8, <2>9, <2>10, <2>11 DEF Merged
<1>8. f - 1 \in Nat /\ f - 1 <= f + 1 /\ f + 1 <= free_count /\ f - 1 < free_count
  BY <1>1, <1>3
<1>9. f + 1 \in Nat /\ 1 \in Int
  BY <1>1
<1> QED
  BY <1>5, <1>6, <1>7, <1>8, <1>9

-----------------------------------------------------------------------------
LEMMA ArenaEnds ==
  ASSUME NEW p \in Arena
  PROVE  p < BootEnd
<1>1. /\ p \in Nat
      /\ \E i \in 0 .. BootCount - 1 : In(p, FreeAtBoot[i])
  BY ArenaPages
<1>2. PICK i \in 0 .. BootCount - 1 : In(p, FreeAtBoot[i])
  BY <1>1
<1>3. /\ BootCount - 1 \in 0 .. BootCount - 1
      /\ i = BootCount - 1 \/ i < BootCount - 1
      /\ \A j \in 0 .. BootCount - 1 :
           FreeAtBoot[j].start \in Nat /\ FreeAtBoot[j].size \in Nat
      /\ \A j, k \in 0 .. BootCount - 1 : j < k => End(FreeAtBoot[j]) < FreeAtBoot[k].start
  BY VRangesAssumption DEF End
<1>4. \A j \in 0 .. BootCount - 1 :
        End(FreeAtBoot[j]) \in Nat /\ FreeAtBoot[j].start <= End(FreeAtBoot[j])
  BY <1>3 DEF End
<1>5. p < End(FreeAtBoot[i])
  BY <1>2 DEF In
<1>6. CASE i = BootCount - 1
  BY <1>5, <1>6 DEF BootEnd
<1>7. CASE i < BootCount - 1
  <2>1. End(FreeAtBoot[i]) < FreeAtBoot[BootCount - 1].start
    BY <1>3, <1>7
  <2>2. /\ End(FreeAtBoot[i]) \in Nat /\ BootEnd \in Nat
        /\ FreeAtBoot[BootCount - 1].start \in Nat
        /\ FreeAtBoot[BootCount - 1].start <= BootEnd
    BY <1>3, <1>4 DEF BootEnd
  <2> QED
    BY <1>1, <1>5, <2>1, <2>2
<1> QED
  BY <1>3, <1>6, <1>7

(* The last free range lies behind every range in use. *)
LEMMA LastBehind ==
  ASSUME IInv, use = "partial", NEW s \in DOMAIN held
  PROVE  free_count - 1 \in 0 .. free_count - 1 /\ ranges[free_count - 1].start > s
<1>1. /\ free_count \in Nat /\ free_count >= 1 /\ End(ranges[free_count - 1]) = BootEnd
      /\ s \in Nat /\ held[s] \in Nat \ {0}
  BY DEF IInv, LastStays, Types, HeldTypes
<1>2. free_count - 1 \in FreeIdx
  BY <1>1 DEF FreeIdx
<1>3. s \in Arena
  <2>1. s <= s /\ s < s + held[s]
    BY <1>1
  <2> QED
    BY <1>1, <2>1 DEF IInv, PagesSplit, HeldPage
<1>4. s < End(ranges[free_count - 1])
  BY <1>1, <1>3, ArenaEnds
<1>5. /\ ranges[free_count - 1].start \in Nat /\ End(ranges[free_count - 1]) \in Nat
      /\ s # ranges[free_count - 1].start
      /\ s > ranges[free_count - 1].start => End(ranges[free_count - 1]) <= s
  BY <1>2, FreeNotHeld DEF IInv
<1> QED
  BY <1>1, <1>4, <1>5

(* A range in use is found at the used index of its first page. *)
LEMMA KnownHeld ==
  ASSUME IInv, use = "partial", NEW s \in Nat, NEW u \in 0 .. Cap, UsedVirtualRangeIndex(u, s)
  PROVE  Known(u, s) <=> s \in DOMAIN held
<1>1. /\ free_count <= u /\ u <= range_count /\ u \in Int
      /\ free_count \in Nat /\ range_count \in Nat
  BY VRangesAssumption DEF IInv, Types, UsedVirtualRangeIndex
<1>2. ASSUME Known(u, s)
      PROVE  s \in DOMAIN held
  <2>1. u \in UsedIdx /\ ranges[u].start = s
    BY <1>1, <1>2 DEF Known, UsedIdx
  <2> QED
    BY <2>1 DEF IInv, UsedListed
<1>3. ASSUME s \in DOMAIN held
      PROVE  Known(u, s)
  <2>1. PICK i \in UsedIdx : ranges[i].start = s
    BY <1>3 DEF IInv, UsedListed
  <2>2. i \in Int /\ i < range_count
    BY <1>1 DEF UsedIdx
  <2>3. i < u => s < s
    BY <2>1, UsedDivided DEF IInv
  <2>4. i > u => s > s
    BY <2>1, UsedDivided DEF IInv
  <2>5. i = u
    BY <1>1, <2>2, <2>3, <2>4
  <2> QED
    BY <2>1, <2>2, <2>5 DEF Known
<1> QED
  BY <1>2, <1>3

LEMMA StutterKeeps ==
  ASSUME IInv, UNCHANGED vars
  PROVE  IInv'
<1>1. /\ ranges' = ranges /\ free_count' = free_count /\ range_count' = range_count
      /\ held' = held /\ use' = use
  BY DEF vars
<1>2. Types'
  BY <1>1 DEF IInv, Types, HeldTypes
<1>3. FreeIdx' = FreeIdx /\ UsedIdx' = UsedIdx
  BY <1>1 DEF FreeIdx, UsedIdx
<1>4. FreeApart'
  BY <1>1, <1>3 DEF IInv, FreeApart, End
<1>5. PagesSplit'
  <2>1. \A p \in Nat : (FreePage(p)' <=> FreePage(p)) /\ (HeldPage(p)' <=> HeldPage(p))
    BY <1>1, <1>3 DEF FreePage, HeldPage, In, End
  <2> QED
    BY <2>1 DEF IInv, PagesSplit, Arena
<1>6. HeldApart'
  BY <1>1 DEF IInv, HeldApart
<1>7. UsedListed'
  BY <1>1, <1>3 DEF IInv, UsedListed
<1>8. LastStays'
  BY <1>1 DEF IInv, LastStays, End, BootEnd
<1> QED
  BY <1>2, <1>4, <1>5, <1>6, <1>7, <1>8 DEF IInv

LEMMA FreeKeeps ==
  ASSUME UsesAssumption, IInv, NEW s \in Arena, FreeVirtualRange(s)
  PROVE  IInv'
<1>1. PICK u \in 0 .. Cap :
        /\ use # "keep"
        /\ UsedVirtualRangeIndex(u, s)
        /\ held' = [r \in DOMAIN held \ {s} |-> held[r]]
        /\ UNCHANGED use
        /\ \/ \E f \in 0 .. Cap :
                /\ Known(u, s) /\ FirstBehind(f, ranges[u].start)
                /\ MergeBoth(u, f) \/ MergeNext(u, f) \/ MergePrev(u, f) \/ NoMerge(u, f)
           \/ /\ Known(u, s) => \A f \in 0 .. free_count - 1 : ranges[f].start <= ranges[u].start
              /\ UNCHANGED <<ranges, free_count, range_count>>
  BY DEF FreeVirtualRange
<1>2. s \in Nat /\ use = "partial" /\ use' = use
  BY <1>1, ArenaPages DEF UsesAssumption, IInv, Types
<1>3. Known(u, s) <=> s \in DOMAIN held
  BY <1>1, <1>2, KnownHeld
<1>4. /\ HeldTypes' /\ HeldApart'
      /\ s \notin DOMAIN held => held' = held
      /\ s \in DOMAIN held => HeldLoses(s, held[s])
  BY <1>1, <1>2, HoldLess DEF IInv
<1>5. CASE s \notin DOMAIN held
  <2>1. UNCHANGED <<ranges, free_count, range_count, held, use>>
    BY <1>1, <1>2, <1>3, <1>4, <1>5
  <2> QED
    BY <2>1, StutterKeeps DEF vars
<1>6. CASE s \in DOMAIN held
  <2>1. Known(u, s) /\ ranges[u].start = s
    BY <1>3, <1>6 DEF Known
  <2>2. PICK f \in 0 .. Cap :
          /\ FirstBehind(f, s)
          /\ MergeBoth(u, f) \/ MergeNext(u, f) \/ MergePrev(u, f) \/ NoMerge(u, f)
    <3>1. ~\A f \in 0 .. free_count - 1 : ranges[f].start <= s
      <4>1. /\ free_count - 1 \in 0 .. free_count - 1 /\ ranges[free_count - 1].start > s
            /\ ranges[free_count - 1].start \in Nat
        <5>1. free_count - 1 \in FreeIdx
          BY <1>2, <1>6, LastBehind DEF FreeIdx
        <5> QED
          BY <1>2, <1>6, <5>1, LastBehind, FreeNotHeld DEF IInv
      <4> QED
        BY <1>2, <4>1
    <3> QED
      BY <1>1, <2>1, <3>1
  <2>3. PICK m \in Nat : m = ranges[u].size /\ Found(u, f, s, m)
    BY <1>1, <1>2, <2>1, <2>2, FoundRight
  <2>4. u \in Int /\ f \in Int
    BY VRangesAssumption
  <2>5. \E lo, hi, b, e \in Nat, d \in Int :
          /\ lo <= hi /\ hi <= free_count /\ lo < free_count
          /\ Replaces(s, m, lo, hi, b, e) /\ Merged(u, lo, hi, b, e, d)
    BY <1>2, <2>2, <2>3, <2>4, NoMergeMerged, MergeNextMerged, MergePrevMerged, MergeBothMerged
  <2>6. PICK lo \in Nat, hi \in Nat, b \in Nat, e \in Nat, d \in Int :
          /\ lo <= hi /\ hi <= free_count /\ lo < free_count
          /\ Replaces(s, m, lo, hi, b, e) /\ Merged(u, lo, hi, b, e, d)
    BY <2>5
  <2>7. u \in UsedIdx /\ s = ranges[u].start /\ held[s] = m
    BY <2>3 DEF Found
  <2>8. FreeApart' /\ FreeGains(s, m) /\ LastStays'
    BY <1>2, <2>6, <2>7, MergedFree
  <2>9. UsedListed'
    BY <1>1, <1>2, <2>6, <2>7, MergedUsed
  <2>10. PagesSplit'
    <3>1. \A p \in Nat : Among(p, s, m) => HeldPage(p)
      BY <1>6, <2>7 DEF Among, HeldPage
    <3> QED
      BY <1>2, <1>4, <1>6, <2>7, <2>8, <3>1, PagesMove DEF IInv
  <2>11. Types'
    <3>1. ranges' \in [0 .. Cap -> Entries]
      BY <2>6 DEF Merged
    <3>2. /\ free_count' \in Nat /\ range_count' \in Nat
          /\ free_count' <= range_count' /\ range_count' <= Cap
      BY <2>6, <2>7, VRangesAssumption DEF Merged, IInv, Types, UsedIdx
    <3> QED
      BY <1>2, <1>4, <3>1, <3>2 DEF IInv, Types
  <2> QED
    BY <1>4, <2>8, <2>9, <2>10, <2>11 DEF IInv
<1> QED
  BY <1>5, <1>6

LEMMA NextKeeps ==
  ASSUME UsesAssumption, IInv, [Next]_vars
  PROVE  IInv'
<1>1. CASE UNCHANGED vars
  BY <1>1, StutterKeeps
<1>2. ASSUME NEW size \in Sizes, AllocVirtualRange(size)
      PROVE  IInv'
  BY <1>2, RequestPositive, AllocSplitKeeps, AllocExactKeeps DEF AllocVirtualRange
<1>3. ASSUME NEW s \in Arena, FreeVirtualRange(s)
      PROVE  IInv'
  BY <1>3, FreeKeeps
<1> QED
  BY <1>1, <1>2, <1>3 DEF Next

-----------------------------------------------------------------------------
LEMMA IInvTypes ==
  ASSUME IInv
  PROVE  TypeOK
<1>1. DOMAIN held \subseteq Arena
  <2> SUFFICES ASSUME NEW s \in DOMAIN held
               PROVE  s \in Arena
    OBVIOUS
  <2>1. s \in Nat /\ s <= s /\ s < s + held[s]
    BY DEF IInv, Types, HeldTypes
  <2> QED
    BY <2>1 DEF IInv, PagesSplit, HeldPage
<1>2. free_count \in 0 .. range_count /\ range_count \in 0 .. Cap
  BY VRangesAssumption DEF IInv, Types
<1> QED
  BY <1>1, <1>2 DEF TypeOK, IInv, Types, HeldTypes, Entries

LEMMA IInvUsedHeld ==
  ASSUME UsesAssumption, IInv
  PROVE  UsedRangesAreHeld
<1> SUFFICES ASSUME use = "partial"
             PROVE  UsedPart = {VRange(s, held[s]) : s \in DOMAIN held}
  BY DEF UsedRangesAreHeld, UsesAssumption, IInv, Types
<1>1. ASSUME NEW i \in UsedIdx
      PROVE  /\ ranges[i].start \in DOMAIN held
             /\ ranges[i] = VRange(ranges[i].start, held[ranges[i].start])
  <2>1. ranges[i].start \in DOMAIN held /\ ranges[i].size = held[ranges[i].start]
    BY DEF IInv, UsedListed
  <2>2. ranges[i] \in Entries
    BY VRangesAssumption DEF IInv, Types, UsedIdx
  <2> QED
    BY <2>1, <2>2 DEF VRange, Entries
<1>2. ASSUME NEW s \in DOMAIN held
      PROVE  \E i \in UsedIdx : ranges[i] = VRange(s, held[s])
  BY <1>1 DEF IInv, UsedListed
<1>3. UsedPart = {ranges[i] : i \in UsedIdx}
  BY DEF UsedPart, UsedIdx
<1> QED
  BY <1>1, <1>2, <1>3

LEMMA IInvApart ==
  ASSUME IInv
  PROVE  FreeRangesApart
<1> SUFFICES ASSUME NEW i \in 1 .. free_count - 1
             PROVE  End(ranges[i - 1]) < ranges[i].start
  BY DEF FreeRangesApart
<1>1. i - 1 \in FreeIdx /\ i \in FreeIdx /\ i - 1 < i
  BY DEF IInv, Types, FreeIdx
<1> QED
  BY <1>1 DEF IInv, FreeApart

(* FreePage and HeldPage are membership in the sets of the model. *)
LEMMA PagesAreSets ==
  ASSUME IInv
  PROVE  /\ UNION {PageSet(r) : r \in FreePart} = {p \in Nat : FreePage(p)}
         /\ UNION {PageSet(VRange(s, held[s])) : s \in DOMAIN held} = {p \in Nat : HeldPage(p)}
<1>1. ASSUME NEW i \in FreeIdx
      PROVE  /\ PageSet(ranges[i]) \subseteq Nat
             /\ \A p \in Nat : p \in PageSet(ranges[i]) <=> In(p, ranges[i])
  <2>1. ranges[i] \in Entries
    BY VRangesAssumption DEF IInv, Types, FreeIdx
  <2> QED
    BY <2>1 DEF Entries, PageSet, End, In
<1>2. FreePart = {ranges[i] : i \in FreeIdx}
  BY DEF FreePart, FreeIdx
<1>3. UNION {PageSet(r) : r \in FreePart} = {p \in Nat : FreePage(p)}
  BY <1>1, <1>2 DEF FreePage
<1>4. ASSUME NEW s \in DOMAIN held
      PROVE  /\ PageSet(VRange(s, held[s])) \subseteq Nat
             /\ \A p \in Nat : p \in PageSet(VRange(s, held[s])) <=> s <= p /\ p < s + held[s]
  <2>1. s \in Nat /\ held[s] \in Nat
    BY DEF IInv, Types, HeldTypes
  <2>2. PageSet(VRange(s, held[s])) = s .. s + held[s] - 1
    BY <2>1 DEF PageSet, VRange, End
  <2> QED
    BY <2>1, <2>2
<1>5. UNION {PageSet(VRange(s, held[s])) : s \in DOMAIN held} = {p \in Nat : HeldPage(p)}
  BY <1>4 DEF HeldPage
<1> QED
  BY <1>3, <1>5

LEMMA IInvRest ==
  ASSUME IInv
  PROVE  FreeIsRest
<1>1. \A r \in FreePart : r.size > 0
  BY DEF FreePart, IInv, FreeApart, FreeIdx
<1>2. {p \in Nat : FreePage(p)} = Arena \ {p \in Nat : HeldPage(p)}
  BY ArenaPages DEF IInv, PagesSplit
<1> QED
  BY <1>1, <1>2, PagesAreSets DEF FreeIsRest

(* Pages in a row that nobody holds lie in one free range: it ends before  *)
(* the next one begins.                                                    *)
LEMMA IInvGaps ==
  ASSUME IInv
  PROVE  FindsEveryGap
<1> SUFFICES ASSUME NEW size \in Sizes,
                    \A i \in 0 .. free_count - 1 : ~Fits(i, RequestSize(size)),
                    NEW s \in Arena,
                    \A p \in PageSet(VRange(s, RequestSize(size))) :
                      p \in Arena /\ \A r \in DOMAIN held : p \notin PageSet(VRange(r, held[r]))
             PROVE  FALSE
  BY DEF FindsEveryGap
<1>1. PICK n \in Nat \ {0} : n = RequestSize(size)
  BY RequestPositive
<1>2. s \in Nat
  BY ArenaPages
<1>3. ASSUME NEW p \in Nat, s <= p, p < s + n
      PROVE  FreePage(p)
  <2>1. p \in PageSet(VRange(s, n))
    BY <1>2, <1>3 DEF PageSet, VRange, End
  <2>2. p \in Arena /\ p \notin UNION {PageSet(VRange(r, held[r])) : r \in DOMAIN held}
    BY <1>1, <2>1
  <2>3. ~HeldPage(p)
    BY <2>2, PagesAreSets
  <2> QED
    BY <2>2, <2>3 DEF IInv, PagesSplit
<1>4. PICK i \in FreeIdx : In(s, ranges[i])
  <2>1. s <= s /\ s < s + n
    BY <1>2
  <2> QED
    BY <1>2, <1>3, <2>1 DEF FreePage
<1>5. /\ ranges[i].start \in Nat /\ ranges[i].size \in Nat
      /\ End(ranges[i]) = ranges[i].start + ranges[i].size
  BY FreeNotHeld DEF IInv
<1>6. ranges[i].size < n
  BY <1>1, <1>5 DEF Fits, FreeIdx
<1>7. PICK e \in Nat : e = End(ranges[i]) /\ s < e /\ e < s + n
  BY <1>2, <1>4, <1>5, <1>6 DEF In
<1>8. PICK j \in FreeIdx : In(e, ranges[j])
  BY <1>2, <1>3, <1>7 DEF FreePage
<1>9. /\ ranges[j].start \in Nat /\ ranges[j].size \in Nat
      /\ End(ranges[j]) = ranges[j].start + ranges[j].size
  BY FreeNotHeld DEF IInv
<1>10. i = j \/ i < j \/ j < i
  BY DEF IInv, Types, FreeIdx
<1>11. /\ i < j => e < ranges[j].start
       /\ j < i => End(ranges[j]) < ranges[i].start
  BY <1>7 DEF IInv, FreeApart
<1> QED
  BY <1>2, <1>4, <1>5, <1>7, <1>8, <1>9, <1>10, <1>11 DEF In

-----------------------------------------------------------------------------
LEMMA Inductive ==
  ASSUME UsesAssumption
  PROVE  Spec => []IInv
<1>1. Init => IInv
  BY InitRight
<1>2. IInv /\ [Next]_vars => IInv'
  BY NextKeeps
<1> QED
  BY <1>1, <1>2, PTL DEF Spec

(* Every step of the allocator leaves entries of the array within it, and  *)
(* callers hold ranges of the arena.                                       *)
THEOREM RangeTypes == UsesAssumption => (Spec => []TypeOK)
<1> SUFFICES ASSUME UsesAssumption PROVE Spec => []TypeOK
  OBVIOUS
<1>1. IInv => TypeOK
  BY IInvTypes
<1> QED
  BY <1>1, Inductive, PTL

(* The in-place merges and splits of AllocVirtualRange and                 *)
(* FreeVirtualRange keep the used part equal to what callers hold, the     *)
(* free part sorted, apart and equal to the rest, and refuse no request    *)
(* for which there is a gap.                                               *)
THEOREM RangesStayRight == UsesAssumption => (Spec => []RangesRight)
<1> SUFFICES ASSUME UsesAssumption PROVE Spec => []RangesRight
  OBVIOUS
<1>1. IInv => RangesRight
  BY IInvUsedHeld, IInvApart, IInvRest, IInvGaps DEF RangesRight
<1> QED
  BY <1>1, Inductive, PTL

-----------------------------------------------------------------------------
(* Each operation does what RangeAllocator promises, or nothing. *)
LEMMA AllocPromised ==
  ASSUME IInv, NEW f \in FreeIdx, NEW n \in Nat \ {0}, ranges[f].size >= n,
         held' = Holding(ranges[f].start, n)
  PROVE  Promise!Alloc
<1>1. PICK a \in Nat, m \in Nat : a = ranges[f].start /\ m = ranges[f].size
  BY FreeNotHeld DEF IInv
<1>2. /\ a \notin DOMAIN held /\ DOMAIN held' = DOMAIN held \cup {a}
      /\ held'[a] = n /\ \A s \in DOMAIN held : held'[s] = held[s]
  <2>1. held' = Holding(a, n) /\ n <= ranges[f].size
    BY <1>1
  <2>2. Types /\ PagesSplit /\ FreeApart /\ HeldApart
    BY DEF IInv
  <2> QED
    BY <1>1, <2>1, <2>2, HoldMore
<1>3. ASSUME NEW p \in Nat, a <= p, p < a + n
      PROVE  p \in Arena /\ ~HeldPage(p)
  <2>1. In(p, ranges[f])
    BY <1>1, <1>3 DEF In, End
  <2> QED
    BY <2>1 DEF IInv, PagesSplit, FreePage
<1>4. a \in Arena
  <2>1. a <= a /\ a < a + n
    OBVIOUS
  <2> QED
    BY <1>3, <2>1
<1>5. Promise!InUse = {p \in Nat : HeldPage(p)}
  <2>1. \A s \in DOMAIN held : Promise!Pages(s, held[s]) = PageSet(VRange(s, held[s]))
    BY DEF Promise!Pages, PageSet, VRange, End, IInv, Types, HeldTypes
  <2> QED
    BY <2>1, PagesAreSets DEF Promise!InUse
<1>6. Promise!Pages(a, held'[a]) \subseteq Arena \ Promise!InUse
  <2>1. Promise!Pages(a, held'[a]) = a .. a + n - 1
    BY <1>2 DEF Promise!Pages
  <2>2. \A p \in a .. a + n - 1 : p \in Nat /\ a <= p /\ p < a + n
    OBVIOUS
  <2> QED
    BY <1>3, <1>5, <2>1, <2>2
<1> QED
  BY <1>2, <1>4, <1>6 DEF Promise!Alloc

LEMMA FreePromised ==
  ASSUME IInv, NEW s \in Arena, held' = [r \in DOMAIN held \ {s} |-> held[r]]
  PROVE  Promise!Free \/ UNCHANGED held
<1>1. CASE s \in DOMAIN held
  BY <1>1 DEF Promise!Free
<1>2. CASE s \notin DOMAIN held
  BY <1>2, ArenaPages, HoldLess DEF IInv
<1> QED
  BY <1>1, <1>2

(* AllocVirtualRange gives out pages that nobody holds, and                *)
(* FreeVirtualRange takes back only the range that it is given: the        *)
(* allocator implements its promise.                                       *)
THEOREM AllocatorKeepsPromise == UsesAssumption => (Spec => AllocatorSpec)
<1> SUFFICES ASSUME UsesAssumption PROVE Spec => AllocatorSpec
  OBVIOUS
<1>1. Init => Promise!Init
  BY DEF Init, Promise!Init
<1>2. ASSUME IInv, [Next]_vars
      PROVE  [Promise!Next]_held
  <2>1. CASE UNCHANGED vars
    BY <2>1 DEF vars
  <2>2. ASSUME NEW size \in Sizes, AllocVirtualRange(size)
        PROVE  Promise!Alloc
    <3>1. RequestSize(size) \in Nat \ {0}
      BY RequestPositive
    <3>2. ASSUME AllocSplit(RequestSize(size))
          PROVE  Promise!Alloc
      <4>1. PICK f \in 0 .. Cap :
              /\ FirstFit(f, RequestSize(size))
              /\ held' = Holding(ranges[f].start, RequestSize(size))
        BY <3>2 DEF AllocSplit
      <4> QED
        BY <1>2, <3>1, <4>1, AllocPromised DEF FirstFit, Fits, FreeIdx
    <3>3. ASSUME AllocExact(RequestSize(size))
          PROVE  Promise!Alloc
      <4>1. PICK f \in 0 .. Cap :
              /\ FirstFit(f, RequestSize(size))
              /\ held' = Holding(ranges[f].start, RequestSize(size))
        BY <3>3 DEF AllocExact
      <4> QED
        BY <1>2, <3>1, <4>1, AllocPromised DEF FirstFit, Fits, FreeIdx
    <3> QED
      BY <2>2, <3>2, <3>3 DEF AllocVirtualRange
  <2>3. ASSUME NEW s \in Arena, FreeVirtualRange(s)
        PROVE  Promise!Free \/ UNCHANGED held
    <3>1. held' = [r \in DOMAIN held \ {s} |-> held[r]]
      BY <2>3 DEF FreeVirtualRange
    <3> QED
      BY <1>2, <3>1, FreePromised
  <2> QED
    BY <1>2, <2>1, <2>2, <2>3 DEF Next, Promise!Next
<1>3. Spec => []IInv
  BY Inductive
<1> QED
  BY <1>1, <1>2, <1>3, PTL DEF Spec, AllocatorSpec, Promise!Spec

=============================================================================
