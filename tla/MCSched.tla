------------------------------ MODULE MCSched ------------------------------
(***************************************************************************)
(* Instances of Sched for TLC: three thread slots, so that a slot can be   *)
(* created, waited for by its creator, reclaimed and used again while a    *)
(* third thread interleaves with both.                                     *)
(***************************************************************************)
EXTENDS Sched

CONSTANTS t1, t2, t3

FreeTwo == <<t2>>
FreeThree == <<t2, t3>>

(* The timer may arrive anywhere. *)
AllPoints == ThreadPoints \cup CleanerPoints

(* The points at which a list's spinlock is held. *)
LockPoints == {"create_unlock", "detach_unlock", "clean_unlock"}

(* Anywhere but between the two halves of DetachThread's and of            *)
(* TerminateThread's updates of a thread.                                  *)
UpdatePoints == AllPoints \ {"detach_check", "term_return"}

(* Also never while TerminateThread is between reading the flags and       *)
(* signalling the condition, nor under a list's spinlock.                  *)
QuietPoints == UpdatePoints \ (LockPoints \cup {"term_mark", "term_signal"})
=============================================================================
