---------------------------- MODULE RangeAllocator ----------------------------
(***************************************************************************)
(* What an allocator of address ranges promises its callers: a range it    *)
(* gives out consists of pages that nobody else holds, and stays with its  *)
(* holder until the holder gives it back.                                  *)
(***************************************************************************)
EXTENDS Naturals

CONSTANT Arena     \* the pages that can be allocated

VARIABLE held      \* the ranges in use: a function from first page to size

Pages(s, n) == s .. s + n - 1

InUse == UNION {Pages(s, held[s]) : s \in DOMAIN held}

Init == held = [s \in {} |-> 0]

Alloc ==
  \E s \in Arena \ DOMAIN held :
    /\ DOMAIN held' = DOMAIN held \cup {s}
    /\ \A r \in DOMAIN held : held'[r] = held[r]
    /\ held'[s] > 0
    /\ Pages(s, held'[s]) \subseteq Arena \ InUse

Free ==
  \E s \in DOMAIN held : held' = [r \in DOMAIN held \ {s} |-> held[r]]

Next == Alloc \/ Free

Spec == Init /\ [][Next]_held

=============================================================================
