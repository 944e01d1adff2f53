------------------------------- MODULE IDECopy -------------------------------
(***************************************************************************)
(* The bytes of one disk read (kernel/dev/ide.c): from the sectors the     *)
(* controller delivers, the interrupt handler picks those that the command *)
(* asked for and puts them into the caller's buffer.  The controller hands *)
(* out words of two bytes.  Which thread asked is in Disk.                 *)
(*                                                                         *)
(* A byte of the disk is represented by its address.  What lies behind the *)
(* caller's buffer is part of `buffer', to see what is written there.      *)
(***************************************************************************)
EXTENDS Integers

CONSTANTS
  BlockSize,  \* block_size; the mask 0x1ff makes it 512
  Requests,   \* the reads: first byte on the disk, and number of bytes
  Behind      \* bound: how much of the memory behind a buffer is kept

ASSUME IDECopyAssumption ==
  /\ BlockSize \in Nat \ {0} /\ BlockSize % 2 = 0
  /\ Requests \subseteq [start : Nat, size : Nat]
  /\ Behind \in Nat

VARIABLES
  request,  \* the read in progress
  skip,     \* cmd->skip_count
  address,  \* cmd->address: the bytes copied so far
  sector,   \* the sector the controller delivers next
  pending,  \* the number of sectors it has still to deliver
  buffer,   \* cmd->buffer and what is behind it
  done      \* cmd->condition

vars == <<request, skip, address, sector, pending, buffer, done>>

Old == -1   \* a byte of memory that has not been written

Memory(r) == 0 .. r.size + Behind - 1

Smaller(m, n) == IF m < n THEN m ELSE n

FirstBlock(r) == r.start \div BlockSize

(* The block behind the last one that is needed. *)
LastBlock(r) == (r.start + r.size + BlockSize - 1) \div BlockSize

(* Mutant: the address of the sector is left in. *)
SkipCount_Address(r) == r.start

(* Mutant: the position inside the first sector is forgotten. *)
SkipCount_Zero(r) == 0

(* The bytes of the first sector that are not wanted. *)
SkipCount(r) == r.start % BlockSize

(* A command is enqueued and reaches IDE_Read, which signals it at once if *)
(* it needs no block.                                                      *)
Init ==
  /\ request \in Requests
  /\ skip = SkipCount(request)
  /\ address = 0
  /\ sector = FirstBlock(request)
  /\ pending = LastBlock(request) - FirstBlock(request)
  /\ buffer = [i \in Memory(request) |-> Old]
  /\ done = (pending = 0)

-----------------------------------------------------------------------------
(* The bytes still in the sector after the words before the position and,  *)
(* at an odd position, the word around it have been read.                  *)
Available == BlockSize - 2 * (skip \div 2) - 2 * (skip % 2)

(* Mutant: words are copied to the end of the sector. *)
BulkSize_Sector == 2 * (Available \div 2)

(* The bulk of the copy: whole words, no more than the buffer has. *)
BulkSize == 2 * Smaller(Available \div 2, request.size \div 2)

(* Mutant: the byte at an odd position is not counted. *)
Copied_Even == BulkSize + (IF Available - BulkSize = 1 THEN 1 ELSE 0)

(* A byte that is left alone after the bulk is copied, too. *)
Copied == (skip % 2) + BulkSize + (IF Available - BulkSize = 1 THEN 1 ELSE 0)

(* The handler's part for one sector.  The bytes it takes follow one       *)
(* another in the sector, from the position on.                            *)
SectorRead ==
  /\ pending > 0
  /\ buffer' = [i \in DOMAIN buffer |->
                  IF i \in address .. address + Copied - 1
                  THEN sector * BlockSize + skip + (i - address)
                  ELSE buffer[i]]
  /\ address' = address + Copied
  /\ skip' = 0
  /\ sector' = sector + 1
  /\ pending' = pending - 1
  /\ done' = (done \/ address' = request.size)
  /\ UNCHANGED request

Next == SectorRead

Spec == Init /\ [][Next]_vars

-----------------------------------------------------------------------------
(* The reads the handler serves: inside one sector with position and size  *)
(* both even or both odd, up to the end of a sector, or an odd number of   *)
(* bytes from the last byte of a sector into the next.                     *)
Served(r) ==
  \/ /\ (r.start % BlockSize) + r.size <= BlockSize
     /\ r.start % 2 = r.size % 2
  \/ (r.start + r.size) % BlockSize = 0
  \/ r.start % BlockSize = BlockSize - 1 /\ r.size % 2 = 1 /\ r.size <= BlockSize

(* Every variable has its type; no more bytes are copied than were kept.   *)
TypeOK ==
  /\ request \in Requests
  /\ skip \in 0 .. BlockSize - 1
  /\ address \in 0 .. request.size + Behind
  /\ sector \in Nat /\ pending \in Nat
  /\ buffer \in [Memory(request) -> Nat \cup {Old}]
  /\ done \in BOOLEAN

(* When the caller is told that the read is done, its buffer holds the     *)
(* bytes it asked for, in their places.                                    *)
BytesInPlace ==
  done => \A i \in 0 .. request.size - 1 : buffer[i] = request.start + i

(* Nothing is written behind the caller's buffer. *)
BufferKept == \A i \in Memory(request) : i >= request.size => buffer[i] = Old

(* When the controller has delivered the last sector, the caller has been  *)
(* told: there will be no other interrupt to do it.                        *)
CallerTold == pending = 0 => done

\* A served read puts the bytes of its place into the caller's buffer, writes
\* nothing beside them and reports its end.
ServedRight == BytesInPlace /\ BufferKept /\ CallerTold
=============================================================================
