------------------------------- MODULE Channel -------------------------------
(***************************************************************************)
(* What a stream promises: the bytes written to it come out once each and  *)
(* in the order they went in.  Bytes are numbered in the order of writing. *)
(***************************************************************************)
EXTENDS Naturals, Sequences

VARIABLES sent, received

Init == sent = 0 /\ received = <<>>

Write == sent' > sent /\ UNCHANGED received

(* One or more of the bytes that are there are read. *)
Read ==
  /\ Len(received') \in Len(received) + 1 .. sent
  /\ received' = [i \in 1 .. Len(received') |-> i]
  /\ UNCHANGED sent

Next == Write \/ Read

Spec == Init /\ [][Next]_<<sent, received>>

=============================================================================
