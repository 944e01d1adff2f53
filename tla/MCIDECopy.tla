----------------------------- MODULE MCIDECopy -----------------------------
(***************************************************************************)
(* IDECopy with sectors of eight bytes: reads of up to three sectors from  *)
(* every position of two sectors.                                          *)
(***************************************************************************)
EXTENDS IDECopy

AnyRead == [start : 0 .. 15, size : 0 .. 24]

ServedReads == {r \in AnyRead : Served(r)}
=============================================================================
