---------------------------- MODULE StreamProofs ----------------------------
(***************************************************************************)
(* Proofs about Stream for buffers of any size, any set of buffers, reads  *)
(* and writes of any sizes and any number of bytes.                        *)
(***************************************************************************)
EXTENDS Stream, Integers, SequenceTheorems, TLAPS

-----------------------------------------------------------------------------
(* The parts of the inductive invariant. *)
Types ==
  /\ data \in [Bufs -> [0 .. BufSize - 1 -> Nat]]
  /\ roff \in Nat /\ woff \in Nat /\ avail \in Nat /\ cond \in BOOLEAN
  /\ hpc \in {"idle", "copy", "signal"} /\ hsize \in Nat /\ hdone \in Nat
  /\ rpc \in {"idle", "wait", "test", "copy", "store", "clear"}
  /\ rsize \in Nat /\ rdone \in Nat /\ loaded \in Nat

(* What the handler has copied and not counted yet, and what the reader    *)
(* has copied and still counts.                                            *)
Uncounted == IF hpc = "copy" THEN hdone ELSE 0
Counted == IF rpc \in {"copy", "store"} THEN rdone ELSE 0

(* No more is counted than there is to read: a count that the handler      *)
(* raises between the reader's load and its store is lost, never invented. *)
CountsRight ==
  /\ avail + Uncounted + roff <= woff + Counted
  /\ hpc = "copy" => hsize + hdone > 0
  /\ rpc \in {"wait", "test"} => rsize > 0 /\ rdone = 0
  /\ rpc \in {"copy", "store", "clear"} => rsize + rdone > 0
  /\ rpc \in {"store", "clear"} => rsize = 0
  /\ rpc = "copy" => rsize + rdone <= avail
  /\ rpc = "store" => rdone <= loaded /\ loaded <= avail

(* A signal that the next read will see stands for a byte that is counted. *)
SignalsRight ==
  /\ hpc = "signal" => avail > 0
  /\ cond /\ rpc \in {"idle", "wait"} => avail > 0
  /\ rpc = "test" => avail > 0

(* The bytes in front of the j-th buffer. *)
Base(j) == BufSize * j

(* The buffers c[0], c[1], ... of the chain.  The last one is written, and *)
(* the byte at offset k of buffer c[j] has the number Base(j) + k + 1.      *)
Chained(c, n) ==
  /\ n \in Nat /\ c \in [0 .. n -> Bufs]
  /\ \A i, j \in 0 .. n : c[i] = c[j] => i = j
  /\ Chain = {c[i] : i \in 0 .. n}
  /\ next \in [Chain -> Chain \cup {Null}]
  /\ \A i \in 0 .. n - 1 : next[c[i]] = c[i + 1]
  /\ next[c[n]] = Null
  /\ last = c[n] /\ wbuf = c[n]
  /\ \E w \in 0 .. BufSize - 1 : woff = Base(n) + w
  /\ \E m \in 0 .. n, r \in 0 .. BufSize - 1 : roff = Base(m) + r /\ rbuf = c[m]
  /\ \A j \in 0 .. n, k \in 0 .. BufSize - 1 :
       Base(j) + k < woff => data[c[j]][k] = Base(j) + k + 1

GotInOrder == got = [i \in 1 .. roff |-> i]

ChainRight == \E n \in Nat : \E c \in [0 .. n -> Bufs] : Chained(c, n)

IInv == Types /\ CountsRight /\ SignalsRight /\ GotInOrder /\ ChainRight

-----------------------------------------------------------------------------
(* Arithmetic: a byte's place in its buffer. *)
LEMMA Product ==
  ASSUME NEW b \in Nat, NEW j \in Nat
  PROVE  b * j \in Nat /\ b * (j + 1) = b * j + b
BY Z3

LEMMA Remainder ==
  ASSUME NEW b \in Nat, NEW j \in Nat, NEW k \in Nat, k < b
  PROVE  (b * j + k) % b = k
BY Z3

LEMMA Larger ==
  ASSUME NEW b \in Nat, b > 0, NEW i \in Nat, NEW j \in Nat, i < j
  PROVE  b * i + b <= b * j
BY Z3

LEMMA Bases ==
  /\ BufSize \in Nat /\ BufSize > 0
  /\ Base(0) = 0
  /\ \A j \in Nat : Base(j) \in Nat /\ Base(j + 1) = Base(j) + BufSize
  /\ \A j \in Nat, k \in 0 .. BufSize - 1 : (Base(j) + k) % BufSize = k
  /\ \A i, j \in Nat : i < j => Base(i) + BufSize <= Base(j)
<1>1. BufSize \in Nat /\ BufSize > 0
  BY StreamAssumption
<1>2. \A j \in Nat : Base(j) \in Nat /\ Base(j + 1) = Base(j) + BufSize
  BY <1>1, Product DEF Base
<1>3. \A j \in Nat, k \in 0 .. BufSize - 1 : (Base(j) + k) % BufSize = k
  BY <1>1, Remainder DEF Base
<1>4. \A i, j \in Nat : i < j => Base(i) + BufSize <= Base(j)
  BY <1>1, Larger DEF Base
<1>5. Base(0) = 0
  BY <1>1 DEF Base
<1> QED
  BY <1>1, <1>2, <1>3, <1>4, <1>5

LEMMA InitRight ==
  ASSUME Init
  PROVE  IInv
<1>1. BufSize \in Nat /\ BufSize > 0 /\ First \in Bufs /\ Null \notin Bufs
  BY StreamAssumption
<1>2. Types
  BY <1>1 DEF Init, Types
<1>3. CountsRight /\ SignalsRight /\ GotInOrder
  <2>1. CountsRight /\ SignalsRight
    BY DEF Init, CountsRight, SignalsRight, Uncounted, Counted
  <2>2. [i \in 1 .. 0 |-> i] = <<>>
    OBVIOUS
  <2> QED
    BY <2>1, <2>2 DEF Init, GotInOrder
<1>4. ChainRight
  <2> DEFINE c == [i \in 0 .. 0 |-> First]
  <2>1. c \in [0 .. 0 -> Bufs] /\ c[0] = First
    BY <1>1
  <2>2. /\ Chain = {First} /\ next[First] = Null
        /\ next \in [Chain -> Chain \cup {Null}]
    BY DEF Init, Chain
  <2>3. 0 .. 0 = {0} /\ 0 .. 0 - 1 = {}
    OBVIOUS
  <2> HIDE DEF c
  <2>4. Chain = {c[i] : i \in 0 .. 0}
    BY <2>1, <2>2, <2>3
  <2>5. 0 \in 0 .. BufSize - 1
    BY <1>1
  <2>6. \E w \in 0 .. BufSize - 1 : woff = Base(0) + w
    BY <2>5, Bases DEF Init
  <2>7. \E m \in 0 .. 0, r \in 0 .. BufSize - 1 : roff = Base(m) + r /\ rbuf = c[m]
    BY <2>1, <2>5, Bases DEF Init
  <2>8. \A j \in 0 .. 0, k \in 0 .. BufSize - 1 : ~(Base(j) + k < woff)
    BY <1>1, Bases DEF Init
  <2>9. Chained(c, 0)
    BY <2>1, <2>2, <2>3, <2>4, <2>6, <2>7, <2>8 DEF Chained, Init
  <2> QED
    BY <2>1, <2>9 DEF ChainRight
<1> QED
  BY <1>2, <1>3, <1>4 DEF IInv

-----------------------------------------------------------------------------
(* The steps that copy nothing. *)
ChainVars == <<next, last, data, rbuf, wbuf, roff, woff>>

LEMMA ChainSame ==
  ASSUME ChainRight, GotInOrder, UNCHANGED <<ChainVars, got>>
  PROVE  ChainRight' /\ GotInOrder'
<1>0. PICK n \in Nat : \E c \in [0 .. n -> Bufs] : Chained(c, n)
  BY DEF ChainRight
<1>1. PICK c \in [0 .. n -> Bufs] : Chained(c, n)
  BY <1>0
<1>2. Chained(c, n)'
  BY <1>1 DEF Chained, ChainVars, Chain
<1>3. GotInOrder'
  BY DEF GotInOrder, ChainVars
<1> QED
  BY <1>2, <1>3 DEF ChainRight

LEMMA WriteStreamDataKeeps ==
  ASSUME IInv, NEW n \in Sizes, WriteStreamData(n)
  PROVE  IInv'
<1>1. n \in Nat /\ n > 0
  BY StreamAssumption
<1>2. Types' /\ CountsRight' /\ SignalsRight'
  BY <1>1 DEF IInv, Types, CountsRight, SignalsRight, Uncounted, Counted, WriteStreamData,
              stream, reader
<1>3. UNCHANGED <<ChainVars, got>>
  BY DEF WriteStreamData, ChainVars, stream, reader
<1> QED
  BY <1>2, <1>3, ChainSame DEF IInv

LEMMA ReadStreamKeeps ==
  ASSUME IInv, NEW n \in Sizes, ReadStream(n)
  PROVE  IInv'
<1>1. n \in Nat /\ n > 0
  BY StreamAssumption
<1>2. Types' /\ CountsRight' /\ SignalsRight'
  BY <1>1 DEF IInv, Types, CountsRight, SignalsRight, Uncounted, Counted, ReadStream, Reader,
              stream, handler
<1>3. UNCHANGED <<ChainVars, got>>
  BY DEF ReadStream, ChainVars, stream
<1> QED
  BY <1>2, <1>3, ChainSame DEF IInv

LEMMA WriteCountKeeps ==
  ASSUME IInv, WriteCount
  PROVE  IInv'
<1>1. Types' /\ CountsRight' /\ SignalsRight'
  BY DEF IInv, Types, CountsRight, SignalsRight, Uncounted, Counted, WriteCount, Reader,
         stream, handler, reader
<1>2. UNCHANGED <<ChainVars, got>>
  BY DEF WriteCount, ChainVars, stream, reader
<1> QED
  BY <1>1, <1>2, ChainSame DEF IInv

LEMMA SignalStreamKeeps ==
  ASSUME IInv, SignalStream
  PROVE  IInv'
<1>1. Types' /\ CountsRight' /\ SignalsRight'
  BY DEF IInv, Types, CountsRight, SignalsRight, Uncounted, Counted, SignalStream, Reader,
         stream, handler, reader
<1>2. UNCHANGED <<ChainVars, got>>
  BY DEF SignalStream, ChainVars, stream, reader
<1> QED
  BY <1>1, <1>2, ChainSame DEF IInv

LEMMA WaitStreamKeeps ==
  ASSUME IInv, WaitStream
  PROVE  IInv'
<1>1. Types' /\ CountsRight' /\ SignalsRight'
  BY DEF IInv, Types, CountsRight, SignalsRight, Uncounted, Counted, WaitStream, Reader,
         stream, handler, reader
<1>2. UNCHANGED <<ChainVars, got>>
  BY DEF WaitStream, ChainVars, stream, reader
<1> QED
  BY <1>1, <1>2, ChainSame DEF IInv

LEMMA ReadTestKeeps ==
  ASSUME IInv, ReadTest
  PROVE  IInv'
<1>1. Types' /\ CountsRight' /\ SignalsRight'
  BY DEF IInv, Types, CountsRight, SignalsRight, Uncounted, Counted, ReadTest, Reader, Smaller,
         stream, handler, reader
<1>2. UNCHANGED <<ChainVars, got>>
  BY DEF ReadTest, ChainVars, stream, reader
<1> QED
  BY <1>1, <1>2, ChainSame DEF IInv

LEMMA ReadLoadKeeps ==
  ASSUME IInv, ReadLoad
  PROVE  IInv'
<1>1. Types' /\ CountsRight' /\ SignalsRight'
  BY DEF IInv, Types, CountsRight, SignalsRight, Uncounted, Counted, ReadLoad, Reader,
         stream, handler, reader
<1>2. UNCHANGED <<ChainVars, got>>
  BY DEF ReadLoad, ChainVars, stream, reader
<1> QED
  BY <1>1, <1>2, ChainSame DEF IInv

LEMMA ReadStoreKeeps ==
  ASSUME IInv, ReadStore
  PROVE  IInv'
<1>1. Types' /\ CountsRight' /\ SignalsRight'
  BY DEF IInv, Types, CountsRight, SignalsRight, Uncounted, Counted, ReadStore, Reader,
         stream, handler, reader
<1>2. UNCHANGED <<ChainVars, got>>
  BY DEF ReadStore, ChainVars, stream, reader
<1> QED
  BY <1>1, <1>2, ChainSame DEF IInv

LEMMA ReadDoneKeeps ==
  ASSUME IInv, ReadDone
  PROVE  IInv'
<1>1. Types' /\ CountsRight' /\ SignalsRight'
  BY DEF IInv, Types, CountsRight, SignalsRight, Uncounted, Counted, ReadDone, Reader,
         stream, handler, reader
<1>2. UNCHANGED <<ChainVars, got>>
  BY DEF ReadDone, ChainVars, stream, reader
<1> QED
  BY <1>1, <1>2, ChainSame DEF IInv

-----------------------------------------------------------------------------
(* The steps that copy. *)
LEMMA ReadCopyKeeps ==
  ASSUME IInv, ReadCopy
  PROVE  IInv' /\ Promise!Read
<1>1. PICK q \in Nat : \E c \in [0 .. q -> Bufs] : Chained(c, q)
  BY DEF IInv, ChainRight
<1>2. PICK c \in [0 .. q -> Bufs] : Chained(c, q)
  BY <1>1
<1>3. PICK m \in 0 .. q, r \in 0 .. BufSize - 1 : roff = Base(m) + r /\ rbuf = c[m]
  BY <1>2 DEF Chained
<1>4. PICK w \in 0 .. BufSize - 1 : woff = Base(q) + w
  BY <1>2 DEF Chained
<1>5. /\ BufSize \in Nat /\ BufSize > 0
      /\ m \in Nat /\ Base(m) \in Nat /\ Base(m + 1) = Base(m) + BufSize
      /\ Base(q) \in Nat
      /\ \A i, j \in Nat : i < j => Base(i) + BufSize <= Base(j)
      /\ roff % BufSize = r
  BY <1>3, Bases
<1>6. Room(roff) = BufSize - r
  BY <1>5 DEF Room
<1>7. PICK n \in Nat : n = Smaller(Room(roff), rsize) /\ n <= BufSize - r /\ n <= rsize /\ n > 0
  <2>1. rsize \in Nat /\ rsize > 0
    BY DEF ReadCopy, IInv, Types
  <2>2. BufSize - r \in Nat /\ BufSize - r > 0
    BY <1>3, <1>5
  <2> QED
    BY <1>6, <2>1, <2>2 DEF Smaller
<1>8. /\ got' = got \o [i \in 1 .. n |-> data[rbuf][r + i - 1]]
      /\ roff' = roff + n /\ rsize' = rsize - n /\ rdone' = rdone + n
      /\ rbuf' = IF BufSize - r <= rsize THEN next[rbuf] ELSE rbuf
      /\ UNCHANGED <<next, last, data, wbuf, woff, avail, cond, hpc, hsize, hdone, loaded>>
      /\ hpc = "idle" /\ rpc = "copy" /\ rpc' = "copy"
  BY <1>5, <1>6, <1>7 DEF ReadCopy, Reader, handler
<1>9. /\ roff \in Nat /\ woff \in Nat /\ rsize \in Nat
      /\ roff + rsize <= woff /\ roff + n <= woff
  <2>1. /\ roff \in Nat /\ woff \in Nat /\ rsize \in Nat /\ avail \in Nat /\ rdone \in Nat
        /\ avail + 0 + roff <= woff + rdone /\ rsize + rdone <= avail
    <3>1. Types /\ CountsRight /\ Uncounted = 0 /\ Counted = rdone
      BY <1>8 DEF IInv, Uncounted, Counted
    <3> QED
      BY <1>8, <3>1 DEF Types, CountsRight
  <2> QED
    BY <1>7, <2>1
<1>10. Types' /\ CountsRight' /\ SignalsRight'
  <2>1. rsize' \in Nat /\ roff' \in Nat /\ rdone' \in Nat /\ rdone \in Nat
    <3>1. rdone \in Nat
      BY DEF IInv, Types
    <3>2. rsize - n \in Nat /\ roff + n \in Nat /\ rdone + n \in Nat
      BY <1>7, <1>9, <3>1
    <3> QED
      BY <1>8, <3>1, <3>2
  <2>2. Types'
    BY <1>8, <2>1 DEF IInv, Types
  <2>3. /\ avail \in Nat /\ avail + roff <= woff + rdone /\ rsize + rdone <= avail
        /\ rsize + rdone > 0
    <3>1. Types /\ CountsRight /\ Uncounted = 0 /\ Counted = rdone
      BY <1>8 DEF IInv, Uncounted, Counted
    <3> QED
      BY <1>8, <3>1 DEF Types, CountsRight
  <2>4. /\ avail + (roff + n) <= woff + (rdone + n) /\ (rsize - n) + (rdone + n) <= avail
        /\ (rsize - n) + (rdone + n) > 0
    BY <1>9, <2>1, <2>3
  <2>5. CountsRight'
    <3>1. /\ avail' = avail /\ woff' = woff /\ roff' = roff + n /\ rdone' = rdone + n
          /\ rsize' = rsize - n /\ rpc' = "copy" /\ hpc' = "idle"
      BY <1>8
    <3>2. Uncounted' = 0 /\ Counted' = rdone + n
      BY <3>1 DEF Uncounted, Counted
    <3>3. avail + 0 + (roff + n) = avail + (roff + n)
      BY <1>9, <2>3
    <3> QED
      BY <2>4, <3>1, <3>2, <3>3 DEF CountsRight
  <2>6. SignalsRight'
    BY <1>8 DEF SignalsRight
  <2> QED
    BY <2>2, <2>5, <2>6
<1>11. ASSUME NEW i \in 1 .. n
       PROVE  data[rbuf][r + i - 1] = roff + i
  <2>1. r + i - 1 \in 0 .. BufSize - 1 /\ Base(m) + (r + i - 1) < woff
    <3>1. r \in Nat /\ i \in Nat /\ i >= 1 /\ i <= n /\ n + r <= BufSize
      BY <1>3, <1>5, <1>7
    <3>2. r + i - 1 \in 0 .. BufSize - 1
      BY <1>5, <3>1
    <3>3. Base(m) + r + n <= woff
      BY <1>3, <1>9
    <3> QED
      BY <1>5, <1>9, <3>1, <3>2, <3>3
  <2>2. data[c[m]][r + i - 1] = Base(m) + (r + i - 1) + 1
    BY <1>2, <1>3, <2>1 DEF Chained
  <2> QED
    BY <1>3, <1>5, <2>2
<1>12. GotInOrder' /\ Len(got) = roff /\ Len(got') = roff + n
  <2>1. got = [i \in 1 .. roff |-> i]
    BY DEF IInv, GotInOrder
  <2>2. got' = got \o [i \in 1 .. n |-> roff + i]
    BY <1>8, <1>11
  <2> DEFINE T == [i \in 1 .. n |-> roff + i]
  <2>3. got \in Seq(Nat) /\ Len(got) = roff /\ \A i \in 1 .. roff : got[i] = i
    BY <1>9, <2>1
  <2>4. T \in Seq(Nat) /\ Len(T) = n /\ \A i \in 1 .. n : T[i] = roff + i
    BY <1>9
  <2> HIDE DEF T
  <2>5. got' \in Seq(Nat) /\ Len(got') = roff + n
    <3>1. got' = got \o T
      BY <2>2 DEF T
    <3> QED
      BY ZenonT(40), <2>3, <2>4, <3>1, ConcatProperties
  <2>6. ASSUME NEW i \in 1 .. roff + n
        PROVE  got'[i] = i
    <3>1. got' = got \o T
      BY <2>2 DEF T
    <3> QED
      BY <1>9, <2>3, <2>4, <3>1
  <2>7. got' = [i \in 1 .. roff + n |-> i]
    BY <2>5, <2>6
  <2> QED
    BY <1>8, <2>3, <2>5, <2>7 DEF GotInOrder
<1>13. Chained(c, q)'
  <2>1. \E k \in 0 .. q, t \in 0 .. BufSize - 1 : roff' = Base(k) + t /\ rbuf' = c[k]
    <3>1. CASE BufSize - r <= rsize
      <4>1. n = BufSize - r
        BY <1>3, <1>5, <1>6, <1>7, <1>9, <3>1 DEF Smaller
      <4>2. roff' = Base(m + 1)
        BY SMTT(30), <1>3, <1>5, <1>8, <4>1
      <4>3. m < q
        <5>1. m = q => roff + n > woff
          BY <1>3, <1>4, <1>5, <4>1
        <5> QED
          BY <1>3, <1>5, <1>9, <5>1
      <4>4. rbuf' = c[m + 1]
        <5>1. m \in 0 .. q - 1
          BY <1>5, <4>3
        <5>2. next[c[m]] = c[m + 1]
          BY <1>2, <5>1 DEF Chained
        <5> QED
          BY <1>3, <1>8, <3>1, <5>2
      <4>5. m + 1 \in 0 .. q /\ 0 \in 0 .. BufSize - 1 /\ roff' = Base(m + 1) + 0
        BY <1>3, <1>5, <4>2, <4>3
      <4> QED
        BY <4>4, <4>5
    <3>2. CASE ~(BufSize - r <= rsize)
      <4>1. n = rsize
        BY <1>6, <1>7, <3>2 DEF Smaller
      <4>2. r + n \in 0 .. BufSize - 1 /\ roff' = Base(m) + (r + n)
        <5>1. r \in Nat /\ r + n < BufSize
          BY <1>3, <1>5, <1>9, <3>2, <4>1
        <5>2. roff + n = Base(m) + (r + n)
          BY <1>3, <1>5, <5>1
        <5> QED
          BY <1>5, <1>8, <5>1, <5>2
      <4> QED
        BY <1>3, <1>8, <3>2, <4>2
    <3> QED
      BY <3>1, <3>2
  <2> QED
    BY <1>2, <1>8, <2>1 DEF Chained, Chain
<1>14. Promise!Read
  <2>1. Len(got') \in Len(got) + 1 .. woff
    BY <1>7, <1>9, <1>12
  <2>2. got' = [i \in 1 .. Len(got') |-> i]
    BY <1>8, <1>12 DEF GotInOrder
  <2> QED
    BY <1>8, <2>1, <2>2 DEF Promise!Read
<1> QED
  BY <1>10, <1>12, <1>13, <1>14 DEF IInv, ChainRight

LEMMA WriteCopyKeeps ==
  ASSUME IInv, WriteCopy
  PROVE  IInv' /\ Promise!Write
<1>1. PICK q \in Nat : \E c \in [0 .. q -> Bufs] : Chained(c, q)
  BY DEF IInv, ChainRight
<1>2. PICK c \in [0 .. q -> Bufs] : Chained(c, q)
  BY <1>1
<1>3. PICK w \in 0 .. BufSize - 1 : woff = Base(q) + w
  BY <1>2 DEF Chained
<1>4. /\ BufSize \in Nat /\ BufSize > 0
      /\ Base(q) \in Nat /\ Base(q + 1) = Base(q) + BufSize
      /\ woff % BufSize = w
      /\ w \in Nat /\ w < BufSize
      /\ q \in 0 .. q
  BY <1>3, Bases
<1>5. /\ wbuf = c[q] /\ last = c[q] /\ next[wbuf] = Null /\ wbuf \in Bufs
      /\ Chain = {c[i] : i \in 0 .. q}
      /\ next \in [Chain -> Chain \cup {Null}]
      /\ \A i, j \in 0 .. q : c[i] = c[j] => i = j
  BY <1>2, <1>4 DEF Chained
<1>6. Room(woff) = BufSize - w /\ (Fills(hsize) <=> BufSize - w <= hsize)
  BY <1>4 DEF Room, Fills
<1>7. woff \in Nat /\ hsize \in Nat /\ hsize > 0 /\ hdone \in Nat
  BY DEF IInv, Types, WriteCopy
<1>8. PICK n \in Nat : /\ n = IF Fills(hsize) THEN Room(woff) ELSE hsize
                       /\ n > 0 /\ n <= BufSize - w /\ n <= hsize
  <2>1. BufSize - w \in Nat /\ BufSize - w > 0
    BY <1>4
  <2>2. CASE Fills(hsize)
    BY <1>6, <1>7, <2>1, <2>2
  <2>3. CASE ~Fills(hsize)
    BY <1>6, <1>7, <2>1, <2>3
  <2> QED
    BY <2>2, <2>3
<1>9. /\ data' = [data EXCEPT ![wbuf] = [i \in 0 .. BufSize - 1 |->
                    IF i \in w .. w + n - 1 THEN woff + (i - w) + 1 ELSE data[wbuf][i]]]
      /\ woff' = woff + n /\ hsize' = hsize - n /\ hdone' = hdone + n
      /\ UNCHANGED <<rbuf, roff, avail, cond, hpc, rpc, rsize, rdone, loaded, got>>
      /\ hpc = "copy"
  BY <1>4, <1>8 DEF WriteCopy, reader
<1>10. data \in [Bufs -> [0 .. BufSize - 1 -> Nat]]
  BY DEF IInv, Types
<1>11. /\ data' \in [Bufs -> [0 .. BufSize - 1 -> Nat]]
       /\ \A b \in Bufs : b # wbuf => data'[b] = data[b]
       /\ \A k \in 0 .. BufSize - 1 : data'[wbuf][k] =
            IF w <= k /\ k < w + n THEN woff + (k - w) + 1 ELSE data[wbuf][k]
  <2> DEFINE B == [i \in 0 .. BufSize - 1 |->
                    IF i \in w .. w + n - 1 THEN woff + (i - w) + 1 ELSE data[wbuf][i]]
  <2>1. data[wbuf] \in [0 .. BufSize - 1 -> Nat]
    BY <1>5, <1>10
  <2>2. \A i \in 0 .. BufSize - 1 : i \in w .. w + n - 1 <=> w <= i /\ i < w + n
    BY <1>4
  <2>3. \A i \in 0 .. BufSize - 1 : w <= i => woff + (i - w) + 1 \in Nat
    BY <1>4, <1>7
  <2>4. /\ B \in [0 .. BufSize - 1 -> Nat]
        /\ \A k \in 0 .. BufSize - 1 : B[k] =
             IF w <= k /\ k < w + n THEN woff + (k - w) + 1 ELSE data[wbuf][k]
    BY <2>1, <2>2, <2>3
  <2>5. data' = [data EXCEPT ![wbuf] = B]
    BY <1>9
  <2> HIDE DEF B
  <2> QED
    BY <1>5, <1>10, <2>4, <2>5
<1>12. Types' /\ CountsRight' /\ SignalsRight' /\ GotInOrder'
  <2>1. hsize - n \in Nat /\ woff + n \in Nat /\ hdone + n \in Nat
    BY <1>7, <1>8
  <2>2. Types'
    BY <1>9, <1>11, <2>1 DEF IInv, Types
  <2>3. /\ avail \in Nat /\ roff \in Nat /\ rdone \in Nat
        /\ Counted \in Nat /\ Counted' = Counted
        /\ avail + hdone + roff <= woff + Counted
    BY <1>9 DEF IInv, Types, CountsRight, Uncounted, Counted
  <2>4. /\ avail + (hdone + n) + roff <= (woff + n) + Counted
        /\ (hsize - n) + (hdone + n) > 0
    BY <1>7, <1>8, <2>3
  <2>5. Uncounted' = hdone + n
    BY <1>9 DEF Uncounted
  <2>6. CountsRight'
    BY <1>9, <2>3, <2>4, <2>5 DEF IInv, CountsRight
  <2>7. SignalsRight' /\ GotInOrder'
    BY <1>9 DEF IInv, SignalsRight, GotInOrder
  <2> QED
    BY <2>2, <2>6, <2>7
(* The bytes are numbered in the order of writing. *)
<1>13. ASSUME NEW j \in 0 .. q, NEW k \in 0 .. BufSize - 1, Base(j) + k < woff'
       PROVE  data'[c[j]][k] = Base(j) + k + 1
  <2>1. Base(j) \in Nat /\ j \in Nat
    <3>1. j \in Nat
      OBVIOUS
    <3> QED
      BY <3>1, Bases
  <2>2. CASE j = q
    <3>1. k < w + n
      <4>1. woff' = Base(q) + w + n /\ Base(q) \in Nat /\ Base(q) + k < woff'
        BY <1>3, <1>4, <1>9, <1>13, <2>2
      <4>2. n \in Nat /\ w \in Nat /\ k \in Nat
        BY <1>4, <1>8
      <4> HIDE DEF Base
      <4> QED
        BY <4>1, <4>2
    <3>2. CASE w <= k
      <4>1. data'[wbuf][k] = woff + (k - w) + 1
        BY <1>11, <3>1, <3>2
      <4>2. woff + (k - w) + 1 = Base(q) + k + 1
        BY <1>3, <1>4
      <4> QED
        BY <1>5, <2>2, <4>1, <4>2
    <3>3. CASE ~(w <= k)
      <4>1. data'[wbuf][k] = data[wbuf][k]
        BY <1>11, <3>3
      <4>2. Base(q) + k < woff
        BY <1>3, <1>4, <3>3
      <4>3. data[c[q]][k] = Base(q) + k + 1
        BY <1>2, <1>4, <4>2 DEF Chained
      <4> QED
        BY <1>5, <2>2, <4>1, <4>3
    <3> QED
      BY <3>2, <3>3
  <2>3. CASE j # q
    <3>1. j < q
      BY <2>3
    <3>2. Base(j) + BufSize <= Base(q)
      BY <2>1, <3>1, Bases
    <3>3. Base(j) + k < woff
      BY <1>3, <1>4, <2>1, <3>2
    <3>4. c[j] # wbuf /\ c[j] \in Bufs
      BY <1>4, <1>5, <2>3
    <3>5. data'[c[j]] = data[c[j]]
      BY <1>11, <3>4
    <3> QED
      BY <1>2, <3>3, <3>5 DEF Chained
  <2> QED
    BY <2>2, <2>3
<1>14. PICK m \in 0 .. q, r \in 0 .. BufSize - 1 : roff = Base(m) + r /\ rbuf = c[m]
  BY <1>2 DEF Chained
<1>15. ASSUME ~Fills(hsize)
       PROVE  ChainRight'
  <2>1. UNCHANGED <<next, last, wbuf>>
    BY <1>15 DEF WriteCopy
  <2>2. w + n \in 0 .. BufSize - 1 /\ woff' = Base(q) + (w + n)
    BY <1>3, <1>4, <1>6, <1>7, <1>8, <1>9, <1>15
  <2>3. Chained(c, q)'
    BY <1>2, <1>9, <1>13, <2>1, <2>2 DEF Chained, Chain
  <2> QED
    BY <2>3 DEF ChainRight
(* The last buffer is full: a new one is chained to it. *)
<1>16. ASSUME Fills(hsize)
       PROVE  ChainRight'
  <2>1. PICK b \in Bufs : AllocStreamBuffer(b) /\ wbuf' = next'[wbuf]
    BY <1>5, <1>16 DEF WriteCopy
  <2>2. /\ b \in Bufs \ Chain
        /\ next' = [e \in Chain \cup {b} |-> IF e = last THEN b
                                             ELSE IF e = b THEN Null ELSE next[e]]
        /\ last' = b
    BY <2>1 DEF AllocStreamBuffer
  <2>3. /\ Chain' = Chain \cup {b} /\ last \in Chain /\ last # b
        /\ next'[last] = b /\ next'[b] = Null
        /\ \A e \in Chain : e # last => next'[e] = next[e]
    <3>1. last \in Chain
      BY <1>4, <1>5
    <3> QED
      BY <2>2, <3>1 DEF Chain
  <2>4. wbuf' = b
    BY <1>5, <2>1, <2>3
  <2>5. PICK d \in [0 .. q + 1 -> Bufs] : d[q + 1] = b /\ \A i \in 0 .. q : d[i] = c[i]
    <3> DEFINE e == [i \in 0 .. q + 1 |-> IF i <= q THEN c[i] ELSE b]
    <3>1. \A i \in 0 .. q + 1 : i <= q => i \in 0 .. q
      OBVIOUS
    <3>2. e \in [0 .. q + 1 -> Bufs] /\ e[q + 1] = b /\ \A i \in 0 .. q : e[i] = c[i]
      BY <3>1
    <3> QED
      BY <3>2
  <2>6. \A i \in 0 .. q + 1 : i \in 0 .. q \/ i = q + 1
    OBVIOUS
  <2>7. \A i \in 0 .. q : i \in 0 .. q + 1 /\ c[i] \in Chain
    BY <1>5
  <2>8. \A i, j \in 0 .. q + 1 : d[i] = d[j] => i = j
    <3> SUFFICES ASSUME NEW i \in 0 .. q + 1, NEW j \in 0 .. q + 1, d[i] = d[j]
                 PROVE  i = j
      OBVIOUS
    <3>1. CASE i \in 0 .. q /\ j \in 0 .. q
      BY <1>5, <2>5, <3>1
    <3>2. CASE i = q + 1 /\ j \in 0 .. q
      BY <2>2, <2>5, <2>7, <3>2
    <3>3. CASE i \in 0 .. q /\ j = q + 1
      BY <2>2, <2>5, <2>7, <3>3
    <3> QED
      BY <2>6, <3>1, <3>2, <3>3
  <2>9. Chain' = {d[i] : i \in 0 .. q + 1}
    BY <1>5, <2>3, <2>5, <2>6, <2>7
  <2>10. next' \in [Chain' -> Chain' \cup {Null}]
    BY <1>5, <2>2, <2>3
  <2>11. ASSUME NEW i \in 0 .. q + 1 - 1
         PROVE  next'[d[i]] = d[i + 1]
    <3>1. i \in 0 .. q /\ (i = q \/ i \in 0 .. q - 1)
      OBVIOUS
    <3>2. CASE i = q
      BY <1>5, <2>3, <2>5, <3>1, <3>2
    <3>3. CASE i \in 0 .. q - 1
      <4>1. i + 1 \in 0 .. q /\ i # q
        BY <3>3
      <4>2. c[i] # last /\ c[i] \in Chain
        BY <1>4, <1>5, <2>7, <3>1, <4>1
      <4>3. next[c[i]] = c[i + 1]
        BY <1>2, <3>3 DEF Chained
      <4> QED
        BY <2>3, <2>5, <3>1, <4>1, <4>2, <4>3
    <3> QED
      BY <3>1, <3>2, <3>3
  <2>12. woff' = Base(q + 1) + 0 /\ 0 \in 0 .. BufSize - 1
    BY <1>3, <1>4, <1>6, <1>8, <1>9, <1>16
  <2>13. m \in 0 .. q + 1 /\ roff' = Base(m) + r /\ rbuf' = d[m]
    BY <1>9, <1>14, <2>5, <2>7
  <2>14. ASSUME NEW j \in 0 .. q + 1, NEW k \in 0 .. BufSize - 1, Base(j) + k < woff'
         PROVE  data'[d[j]][k] = Base(j) + k + 1
    <3>1. j # q + 1
      <4>1. ~(Base(q + 1) + k < woff')
        BY <1>4, <2>12
      <4> QED
        BY <2>14, <4>1
    <3> QED
      BY <1>13, <2>5, <2>6, <2>14, <3>1
  <2>15. Chained(d, q + 1)'
    <3>1. next'[d[q + 1]] = Null /\ last' = d[q + 1] /\ wbuf' = d[q + 1] /\ q + 1 \in Nat
      BY <2>2, <2>3, <2>4, <2>5
    <3>2. \E t \in 0 .. BufSize - 1 : woff' = Base(q + 1) + t
      BY <2>12
    <3>3. \E k \in 0 .. q + 1, t \in 0 .. BufSize - 1 : roff' = Base(k) + t /\ rbuf' = d[k]
      BY <2>13
    <3> QED
      BY SMTT(60), <2>5, <2>8, <2>9, <2>10, <2>11, <2>14, <3>1, <3>2, <3>3 DEF Chained
  <2> QED
    BY <2>5, <2>15 DEF ChainRight
<1>17. Promise!Write
  BY <1>7, <1>8, <1>9 DEF Promise!Write
<1> QED
  BY <1>12, <1>15, <1>16, <1>17 DEF IInv

-----------------------------------------------------------------------------
(* Every step keeps the invariant and is a write, a read or neither. *)
LEMMA NextKeeps ==
  ASSUME IInv, [Next]_vars
  PROVE  IInv' /\ (Promise!Write \/ Promise!Read \/ UNCHANGED <<woff, got>>)
<1>1. CASE UNCHANGED vars
  <2>1. UNCHANGED <<ChainVars, got>> /\ UNCHANGED <<woff, got>>
    BY <1>1 DEF vars, stream, reader, ChainVars
  <2>2. Types' /\ CountsRight' /\ SignalsRight'
    BY <1>1 DEF IInv, Types, CountsRight, SignalsRight, Uncounted, Counted,
                vars, stream, handler, reader
  <2> QED
    BY <2>1, <2>2, ChainSame DEF IInv
<1>2. ASSUME NEW n \in Sizes, WriteStreamData(n) \/ ReadStream(n)
      PROVE  IInv' /\ UNCHANGED <<woff, got>>
  <2>1. UNCHANGED <<woff, got>>
    BY <1>2 DEF WriteStreamData, ReadStream, stream, reader
  <2> QED
    BY <1>2, <2>1, WriteStreamDataKeeps, ReadStreamKeeps
<1>3. CASE WriteCopy
  BY <1>3, WriteCopyKeeps
<1>4. CASE ReadCopy
  BY <1>4, ReadCopyKeeps
<1>5. CASE WriteCount \/ SignalStream \/ WaitStream \/ ReadTest \/ ReadLoad \/ ReadStore \/ ReadDone
  <2>1. UNCHANGED <<woff, got>>
    BY <1>5 DEF WriteCount, SignalStream, WaitStream, ReadTest, ReadLoad, ReadStore, ReadDone,
                stream, reader
  <2> QED
    BY <1>5, <2>1, WriteCountKeeps, SignalStreamKeeps, WaitStreamKeeps, ReadTestKeeps,
       ReadLoadKeeps, ReadStoreKeeps, ReadDoneKeeps
<1> QED
  BY <1>1, <1>2, <1>3, <1>4, <1>5 DEF Next, HandlerStep, ReaderStep

LEMMA Inductive == Spec => []IInv
<1>1. Init => IInv
  BY InitRight
<1>2. IInv /\ [Next]_vars => IInv'
  BY NextKeeps
<1> QED
  BY <1>1, <1>2, PTL DEF Spec

LEMMA IInvTypes ==
  ASSUME IInv
  PROVE  TypeOK
<1>1. PICK q \in Nat : \E c \in [0 .. q -> Bufs] : Chained(c, q)
  BY DEF IInv, ChainRight
<1>2. PICK c \in [0 .. q -> Bufs] : Chained(c, q)
  BY <1>1
<1>3. PICK m \in 0 .. q : rbuf = c[m]
  BY <1>2 DEF Chained
<1>4. q \in 0 .. q
  OBVIOUS
<1>5. /\ Chain \subseteq Bufs /\ next \in [Chain -> Chain \cup {Null}]
      /\ last \in Chain /\ rbuf \in Chain /\ wbuf \in Chain
  BY <1>2, <1>3, <1>4 DEF Chained
<1>6. got \in Seq(Nat)
  <2>1. got = [i \in 1 .. roff |-> i] /\ roff \in Nat
    BY DEF IInv, Types, GotInOrder
  <2> QED
    BY <2>1
<1> QED
  BY <1>5, <1>6 DEF TypeOK, IInv, Types

(* available_count never wraps below zero and the read buffer is never     *)
(* NULL, whatever the keyboard's handler does between two steps of the     *)
(* reader.                                                                 *)
THEOREM StreamTypes == Spec => []TypeOK
<1>1. IInv => TypeOK
  BY IInvTypes
<1> QED
  BY <1>1, Inductive, PTL

(* ReadStreamData never copies what has not been written, and a read that  *)
(* returns has delivered a byte.                                           *)
THEOREM ReadsStayInTurn == Spec => []ReadsInTurn
<1>1. IInv => ReadsInTurn
  <2> SUFFICES ASSUME IInv PROVE ReadsInTurn
    OBVIOUS
  <2>1. EveryReadDelivers
    BY DEF IInv, Types, CountsRight, EveryReadDelivers
  <2>2. rpc = "copy" => roff + rsize <= woff
    BY DEF IInv, Types, CountsRight, Uncounted, Counted
  <2>3. roff <= woff
    <3>1. /\ roff \in Nat /\ woff \in Nat /\ avail \in Nat /\ rdone \in Nat
          /\ Uncounted \in Nat /\ avail + Uncounted + roff <= woff + Counted
      BY DEF IInv, Types, CountsRight, Uncounted
    <3>2. Counted \in Nat /\ Counted <= avail
      BY <3>1 DEF IInv, Types, CountsRight, Counted
    <3> QED
      BY <3>1, <3>2
  <2> QED
    BY <2>1, <2>2, <2>3 DEF ReadsInTurn, ReadsBehindWrites
<1> QED
  BY <1>1, Inductive, PTL

(* The bytes come out of the stream once each and in the order in which    *)
(* the handler wrote them, across buffers of the chain.                    *)
THEOREM StreamKeepsPromise == Spec => ChannelSpec
<1>1. Init => Promise!Init
  BY DEF Init, Promise!Init
<1>2. IInv /\ [Next]_vars => [Promise!Next]_<<woff, got>>
  BY NextKeeps DEF Promise!Next
<1> QED
  BY <1>1, <1>2, Inductive, PTL DEF Spec, ChannelSpec, Promise!Spec

=============================================================================
