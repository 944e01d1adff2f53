------------------------------- MODULE MCDisk -------------------------------
(***************************************************************************)
(* Disk with pages of one or two commands and portions of two sectors, so  *)
(* that reads of none to three sectors need no, one or two portions.       *)
(***************************************************************************)
EXTENDS Disk, TLC

CONSTANTS t1, t2, t3, p1, p2, p3

(* The threads differ in nothing but their names. *)
Readers == Permutations(Threads)
=============================================================================
