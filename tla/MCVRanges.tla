----------------------------- MODULE MCVRanges -----------------------------
(***************************************************************************)
(* VRanges with two free ranges at boot, of four and of seven pages, and   *)
(* requests of one to three pages.                                         *)
(***************************************************************************)
EXTENDS VRanges

TwoRanges == [i \in 0 .. 1 |-> IF i = 0 THEN VRange(1, 4) ELSE VRange(6, 7)]
=============================================================================
