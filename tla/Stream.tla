------------------------------- MODULE Stream -------------------------------
(***************************************************************************)
(* A stream (kernel/io.c): a chain of buffers that an interrupt handler    *)
(* (the keyboard's) fills and a thread (the shell, in TerminalReadLine)    *)
(* empties.  The handler runs behind an interrupt gate: it may start       *)
(* between any two steps of the reader and the reader waits until it is    *)
(* over.  The reader's update of available_count is a load, a subtraction  *)
(* and a store (the kernel is built without optimisation).                 *)
(*                                                                         *)
(* Bytes are numbered in the order in which they are written.              *)
(***************************************************************************)
EXTENDS Naturals, Sequences

CONSTANTS
  BufSize,  \* K_IO_STREAM_BUF_DATA_SIZE
  Bufs,     \* the buffers k_rt_Malloc can return
  First,    \* the buffer AllocStream gets
  Null,
  Sizes,    \* the sizes of reads and writes
  MaxBytes  \* bound: how many bytes are written

ASSUME StreamAssumption ==
  /\ BufSize \in Nat \ {0}
  /\ First \in Bufs
  /\ Null \notin Bufs
  /\ Sizes \subseteq Nat \ {0}
  /\ MaxBytes \in Nat

VARIABLES
  next,    \* buffer->next of the buffers in the chain
  last,    \* stream->last_buffer
  data,    \* buffer->data
  rbuf,    \* stream->read_buffer
  wbuf,    \* stream->write_buffer
  roff,    \* stream->read_offset
  woff,    \* stream->write_offset
  avail,   \* stream->available_count
  cond,    \* stream->condition
  hpc,     \* where the handler is
  hsize,   \* its size
  hdone,   \* its data_offset
  rpc,     \* where the reader is
  rsize,   \* its size
  rdone,   \* its data_offset
  loaded,  \* the register that holds available_count
  got      \* the bytes the reader has been given so far

stream == <<next, last, data, rbuf, wbuf, roff, woff, avail, cond>>
handler == <<hpc, hsize, hdone>>
reader == <<rpc, rsize, rdone, loaded, got>>
vars == <<stream, handler, reader>>

-----------------------------------------------------------------------------
(* The buffers that are in the chain. *)
Chain == DOMAIN next

Smaller(m, n) == IF m < n THEN m ELSE n

(* The bytes of one turn of a copy loop, from offset off of the stream. *)
Room(off) == BufSize - (off % BufSize)

(* AllocStream, with the one buffer AllocStreamBuffer gives it. *)
Init ==
  /\ next = [b \in {First} |-> Null]
  /\ last = First
  /\ data = [b \in Bufs |-> [i \in 0 .. BufSize - 1 |-> 0]]
  /\ rbuf = First
  /\ wbuf = First
  /\ roff = 0
  /\ woff = 0
  /\ avail = 0
  /\ cond = FALSE
  /\ hpc = "idle" /\ hsize = 0 /\ hdone = 0
  /\ rpc = "idle" /\ rsize = 0 /\ rdone = 0 /\ loaded = 0
  /\ got = <<>>

-----------------------------------------------------------------------------
(* The handler has n bytes for the focused process: WriteStreamData. *)
WriteStreamData(n) ==
  /\ hpc = "idle"
  /\ woff + n <= MaxBytes
  /\ hpc' = "copy"
  /\ hsize' = n
  /\ hdone' = 0
  /\ UNCHANGED <<stream, reader>>

(* Mutant: the next buffer is asked for one byte too late. *)
Fills_Late(size) == Room(woff) < size

(* The turn of the loop fills the write buffer. *)
Fills(size) == Room(woff) <= size

(* AllocStreamBuffer: a new buffer at the end of the chain.  Its next is   *)
(* not set by the code; the heap's pages are zero when they are new.       *)
AllocStreamBuffer(b) ==
  /\ b \in Bufs \ Chain
  /\ next' = [c \in Chain \cup {b} |-> IF c = last THEN b
                                       ELSE IF c = b THEN Null ELSE next[c]]
  /\ last' = b

(* One turn of the loop of WriteStreamData. *)
WriteCopy ==
  /\ hpc = "copy"
  /\ hsize > 0
  /\ LET n == IF Fills(hsize) THEN Room(woff) ELSE hsize
         o == woff % BufSize
     IN  /\ data' = [data EXCEPT ![wbuf] = [i \in 0 .. BufSize - 1 |->
                       IF i \in o .. o + n - 1 THEN woff + (i - o) + 1 ELSE @[i]]]
         /\ woff' = woff + n
         /\ hsize' = hsize - n
         /\ hdone' = hdone + n
  /\ \/ /\ ~Fills(hsize)
        /\ UNCHANGED <<next, last, wbuf>>
     \/ /\ Fills(hsize) /\ next[wbuf] # Null
        /\ wbuf' = next[wbuf]
        /\ UNCHANGED <<next, last>>
     \/ /\ Fills(hsize) /\ next[wbuf] = Null
        /\ \E b \in Bufs : AllocStreamBuffer(b)
        /\ wbuf' = next'[wbuf]
  /\ UNCHANGED <<rbuf, roff, avail, cond, hpc, reader>>

(* The count is raised.  The read buffer is never NULL here (TypeOK). *)
WriteCount ==
  /\ hpc = "copy"
  /\ hsize = 0
  /\ avail' = avail + hdone
  /\ hpc' = "signal"
  /\ UNCHANGED <<next, last, data, rbuf, wbuf, roff, woff, cond, hsize, hdone, reader>>

(* Mutant: the keyboard handler does not signal the stream. *)
SignalStream_Lost ==
  /\ hpc = "signal"
  /\ hpc' = "idle"
  /\ UNCHANGED <<stream, hsize, hdone, reader>>

(* KeyboardHandler signals the stream, and the interrupt is over. *)
SignalStream ==
  /\ hpc = "signal"
  /\ cond' = TRUE
  /\ hpc' = "idle"
  /\ UNCHANGED <<next, last, data, rbuf, wbuf, roff, woff, avail, hsize, hdone, reader>>

-----------------------------------------------------------------------------
(* A step of the reader from p to q, outside the handler. *)
Reader(p, q) == hpc = "idle" /\ rpc = p /\ rpc' = q

(* ReadStream(stream, 0, &ch, n). *)
ReadStream(n) ==
  /\ Reader("idle", "wait")
  /\ rsize' = n
  /\ rdone' = 0
  /\ UNCHANGED <<stream, handler, loaded, got>>

(* WaitStream: the thread goes on once the condition has been signalled. *)
WaitStream ==
  /\ Reader("wait", "test")
  /\ cond
  /\ UNCHANGED <<stream, handler, rsize, rdone, loaded, got>>

(* Mutant: the size is not limited to what is there. *)
ReadTest_Unlimited ==
  /\ Reader("test", IF roff = woff THEN "clear" ELSE "copy")
  /\ UNCHANGED <<stream, handler, rsize, rdone, loaded, got>>

(* ReadStreamData returns at once (EMPTY) when there is nothing to read,   *)
(* and limits the size to available_count otherwise.                       *)
ReadTest ==
  /\ Reader("test", IF roff = woff THEN "clear" ELSE "copy")
  /\ rsize' = IF roff = woff THEN rsize ELSE Smaller(rsize, avail)
  /\ UNCHANGED <<stream, handler, rdone, loaded, got>>

(* Mutant: a buffer that was read to its end is not left. *)
ReadCopy_Stay ==
  /\ Reader("copy", "copy")
  /\ rsize > 0
  /\ LET n == Smaller(Room(roff), rsize)
         o == roff % BufSize
     IN  /\ got' = got \o [i \in 1 .. n |-> data[rbuf][o + i - 1]]
         /\ roff' = roff + n
         /\ rsize' = rsize - n
         /\ rdone' = rdone + n
  /\ UNCHANGED <<next, last, data, rbuf, wbuf, woff, avail, cond, handler, loaded>>

(* One turn of the loop of ReadStreamData: a buffer that was read to its   *)
(* end is left.                                                            *)
ReadCopy ==
  /\ Reader("copy", "copy")
  /\ rsize > 0
  /\ LET n == Smaller(Room(roff), rsize)
         o == roff % BufSize
     IN  /\ got' = got \o [i \in 1 .. n |-> data[rbuf][o + i - 1]]
         /\ roff' = roff + n
         /\ rsize' = rsize - n
         /\ rdone' = rdone + n
         /\ rbuf' = IF Room(roff) <= rsize THEN next[rbuf] ELSE rbuf
  /\ UNCHANGED <<next, last, data, wbuf, woff, avail, cond, handler, loaded>>

(* available_count -= data_offset: the load ... *)
ReadLoad ==
  /\ Reader("copy", "store")
  /\ rsize = 0
  /\ loaded' = avail
  /\ UNCHANGED <<stream, handler, rsize, rdone, got>>

(* ... and the store. *)
ReadStore ==
  /\ Reader("store", "clear")
  /\ avail' = loaded - rdone
  /\ UNCHANGED <<next, last, data, rbuf, wbuf, roff, woff, cond, handler, rsize, rdone, loaded, got>>

(* Mutant: the condition stays signalled. *)
ReadDone_NoClear ==
  /\ Reader("clear", "idle")
  /\ UNCHANGED <<stream, handler, rsize, rdone, loaded, got>>

(* ReadStream clears the condition and returns. *)
ReadDone ==
  /\ Reader("clear", "idle")
  /\ cond' = FALSE
  /\ UNCHANGED <<next, last, data, rbuf, wbuf, roff, woff, avail, handler, rsize, rdone, loaded, got>>

-----------------------------------------------------------------------------
HandlerStep == WriteCopy \/ WriteCount \/ SignalStream

ReaderStep ==
  WaitStream \/ ReadTest \/ ReadCopy \/ ReadLoad \/ ReadStore \/ ReadDone

Next ==
  \/ \E n \in Sizes : WriteStreamData(n) \/ ReadStream(n)
  \/ HandlerStep
  \/ ReaderStep

Spec == Init /\ [][Next]_vars

-----------------------------------------------------------------------------
(* Every variable has its type; available_count does not wrap below zero. *)
TypeOK ==
  /\ Chain \subseteq Bufs /\ next \in [Chain -> Chain \cup {Null}]
  /\ last \in Chain
  /\ data \in [Bufs -> [0 .. BufSize - 1 -> Nat]]
  /\ rbuf \in Chain /\ wbuf \in Chain
  /\ roff \in Nat /\ woff \in Nat /\ avail \in Nat /\ cond \in BOOLEAN
  /\ hpc \in {"idle", "copy", "signal"} /\ hsize \in Nat /\ hdone \in Nat
  /\ rpc \in {"idle", "wait", "test", "copy", "store", "clear"}
  /\ rsize \in Nat /\ rdone \in Nat /\ loaded \in Nat
  /\ got \in Seq(Nat)

(* TerminalReadLine uses the byte without looking at ReadStream's status:  *)
(* every read must have delivered at least one byte, whatever keys arrived *)
(* while the count was being updated or before the condition was cleared.  *)
EveryReadDelivers == rpc = "clear" => rdone > 0

(* The reader never copies what has not been written yet, even though a    *)
(* key that arrives between its load and its store is not counted.         *)
ReadsBehindWrites ==
  /\ rpc = "copy" => roff + rsize <= woff
  /\ roff <= woff

(* Reads and writes of one stream keep to their order, buffer by buffer. *)
ReadsInTurn == EveryReadDelivers /\ ReadsBehindWrites

(* What a stream promises: see Channel. *)
Promise == INSTANCE Channel WITH sent <- woff, received <- got

ChannelSpec == Promise!Spec

(* An interrupt handler runs to its end, and the reader, whenever no       *)
(* handler is running, is scheduled again and again (Sched).  Nobody has   *)
(* to press a key.                                                         *)
FairSpec == Spec /\ WF_vars(HandlerStep) /\ SF_vars(ReaderStep)

(* A key that is pressed while a read waits makes that read return. *)
KeyWakesReader == (rpc = "wait" /\ hpc = "signal") ~> (rpc = "idle")

=============================================================================
