---------------------------- MODULE IDECopyProofs ----------------------------
(***************************************************************************)
(* Proofs about IDECopy for sectors of any even size and any set of reads  *)
(* of the kinds that the handler serves.                                   *)
(***************************************************************************)
EXTENDS IDECopy, TLAPS

-----------------------------------------------------------------------------
AllServed == \A r \in Requests : Served(r)

(* The parts of the inductive invariant. *)
Types ==
  /\ request \in Requests
  /\ skip \in Nat /\ address \in Nat /\ sector \in Nat /\ pending \in Nat
  /\ done \in BOOLEAN

(* What was copied is in its place, and nothing else is written. *)
Written ==
  /\ address <= request.size
  /\ buffer = [i \in Memory(request) |-> IF i < address THEN request.start + i ELSE Old]

(* A read goes through three stages: before its first sector, behind it at *)
(* the start of a sector, and at its end.                                  *)
First ==
  /\ address = 0 /\ skip = SkipCount(request) /\ sector = FirstBlock(request)
  /\ pending = LastBlock(request) - FirstBlock(request)
  /\ done <=> pending = 0

(* What is left fills the sectors that are left, or it is an even number   *)
(* of bytes that the last sector has.                                      *)
Later ==
  /\ ~done /\ pending > 0
  /\ skip = 0 /\ BlockSize * sector = request.start + address
  /\ \/ request.size - address = BlockSize * pending
     \/ /\ pending = 1 /\ address = 1
        /\ request.size % 2 = 1 /\ request.size > 1 /\ request.size <= BlockSize

Finished == done /\ pending = 0 /\ address = request.size

IInv == Types /\ Written /\ (First \/ Later \/ Finished)

-----------------------------------------------------------------------------
(* Arithmetic. *)
LEMMA Quotient ==
  ASSUME NEW b \in Nat, b > 0, NEW k \in Nat, NEW r \in Nat, r < b
  PROVE  (b * k + r) \div b = k /\ (b * k + r) % b = r
BY Z3

LEMMA Divided ==
  ASSUME NEW b \in Nat, b > 0, NEW a \in Nat
  PROVE  \E k, r \in Nat : r < b /\ a = b * k + r /\ a \div b = k /\ a % b = r
<1>1. a \div b \in Nat /\ b * (a \div b) <= a /\ a < b * (a \div b) + b
  BY Z3
<1>2. PICK k \in Nat : k = a \div b
  BY <1>1
<1>3. PICK r \in Nat : r = a - b * k /\ r < b /\ a = b * k + r
  BY <1>1, <1>2
<1>4. a % b = r
  BY <1>3, Quotient
<1> QED
  BY <1>1, <1>2, <1>3, <1>4

LEMMA Product ==
  ASSUME NEW b \in Nat, NEW m \in Nat, NEW n \in Nat
  PROVE  b * m \in Nat /\ b * (m + n) = b * m + b * n /\ b * 1 = b /\ b * 0 = 0
BY Z3

LEMMA Growing ==
  ASSUME NEW b \in Nat, b > 0, NEW m \in Nat, NEW n \in Nat
  PROVE  /\ m <= n => b * m <= b * n
         /\ m < n => b * m + b <= b * n
BY Z3

(* A number of bytes, in words and a byte. *)
LEMMA Halves ==
  ASSUME NEW a \in Nat
  PROVE  \E m \in Nat, p \in {0, 1} : a = 2 * m + p /\ a \div 2 = m /\ a % 2 = p
BY Z3

(* What the handler copies from one sector: the byte at an odd position    *)
(* and the words that both the sector and the buffer have.                 *)
LEMMA CopiedWords ==
  ASSUME NEW h \in Nat, BlockSize = 2 * h, request.size \in Nat,
         NEW e \in Nat, NEW o \in {0, 1}, skip = 2 * e + o, e + o <= h,
         NEW m \in Nat, NEW p \in {0, 1}, request.size = 2 * m + p
  PROVE  Copied = o + 2 * Smaller(h - e - o, m)
<1>1. skip \div 2 = e /\ skip % 2 = o /\ request.size \div 2 = m
  BY Z3
<1>2. Available = 2 * (h - e - o)
  BY <1>1 DEF Available
<1>3. PICK w \in Nat : w = h - e - o
  OBVIOUS
<1>4. Available \div 2 = w
  BY <1>2, <1>3, Z3
<1>5. PICK s \in Nat : s = Smaller(w, m)
  BY DEF Smaller
<1>6. BulkSize = 2 * s
  BY <1>1, <1>4, <1>5 DEF BulkSize
<1>7. Available - BulkSize # 1
  BY <1>2, <1>3, <1>6
<1> QED
  BY <1>1, <1>3, <1>5, <1>6, <1>7 DEF Copied

(* The number of sectors of a read, from where it begins in the first one. *)
LEMMA Sectors ==
  ASSUME NEW r \in Requests, NEW n \in Nat,
         LET d == SkipCount(r)
         IN  d + r.size <= BlockSize * n /\ BlockSize * n < d + r.size + BlockSize
  PROVE  LastBlock(r) - FirstBlock(r) = n
<1>1. BlockSize \in Nat /\ BlockSize > 0 /\ r.start \in Nat /\ r.size \in Nat
  BY IDECopyAssumption
<1>2. PICK q \in Nat, d \in Nat : /\ q = FirstBlock(r) /\ d = SkipCount(r) /\ d < BlockSize
                                  /\ r.start = BlockSize * q + d
  BY <1>1, Divided DEF FirstBlock, SkipCount
<1>3. PICK x \in Nat, y \in Nat : /\ x = BlockSize * q /\ y = BlockSize * n
                                  /\ BlockSize * (q + n) = x + y
  BY <1>1, Product
<1>4. PICK z \in Nat : z = d + r.size + BlockSize - 1 - y /\ z < BlockSize
  BY <1>1, <1>2, <1>3
<1>5. r.start + r.size + BlockSize - 1 = BlockSize * (q + n) + z
  BY <1>1, <1>2, <1>3, <1>4
<1>6. (BlockSize * (q + n) + z) \div BlockSize = q + n
  BY <1>1, <1>4, Quotient
<1>7. LastBlock(r) = q + n
  BY <1>5, <1>6 DEF LastBlock
<1> QED
  BY <1>2, <1>7

-----------------------------------------------------------------------------
(* The handler's step, when it copies c bytes from their place.            *)
LEMMA CopyKeeps ==
  ASSUME Types, Written, SectorRead, NEW c \in Nat, Copied = c, address + c <= request.size,
         BlockSize * sector + skip = request.start + address
  PROVE  /\ Types' /\ Written'
         /\ address' = address + c /\ request' = request /\ skip' = 0
         /\ sector' = sector + 1 /\ pending' = pending - 1
         /\ done' <=> done \/ address + c = request.size
<1> USE IDECopyAssumption DEF Types
<1>1. /\ request.start \in Nat /\ request.size \in Nat /\ Memory(request) \subseteq Nat
      /\ DOMAIN buffer = Memory(request)
  BY DEF Written, Memory
<1>2. PICK base \in Nat : base = sector * BlockSize /\ base + skip = request.start + address
  <2>1. sector * BlockSize = BlockSize * sector /\ sector * BlockSize \in Nat
    BY Z3
  <2> QED
    BY <2>1
<1>3. buffer' = [i \in Memory(request) |-> IF i \in address .. address + c - 1
                                           THEN base + skip + (i - address) ELSE buffer[i]]
  BY <1>1, <1>2 DEF SectorRead
<1>4. /\ address' = address + c /\ request' = request /\ skip' = 0
      /\ sector' = sector + 1 /\ pending' = pending - 1 /\ pending > 0
      /\ done' = (done \/ address + c = request.size)
  BY DEF SectorRead
<1>5. ASSUME NEW i \in Memory(request)
      PROVE  buffer'[i] = IF i < address + c THEN request.start + i ELSE Old
  <2>1. i \in Nat /\ buffer[i] = IF i < address THEN request.start + i ELSE Old
    BY <1>1 DEF Written
  <2>2. CASE i < address
    BY <1>3, <2>1, <2>2
  <2>3. CASE address <= i /\ i < address + c
    BY <1>1, <1>2, <1>3, <2>1, <2>3
  <2>4. CASE address + c <= i
    BY <1>3, <2>1, <2>4
  <2> QED
    BY <2>1, <2>2, <2>3, <2>4
<1>6. Written'
  <2>1. buffer' = [i \in Memory(request) |-> IF i < address + c THEN request.start + i ELSE Old]
    BY <1>3, <1>5
  <2> QED
    BY <1>4, <2>1 DEF Written, Memory
<1>7. Types'
  BY <1>4
<1> QED
  BY <1>4, <1>6, <1>7

(* The three kinds of reads: how many sectors they take, and what their    *)
(* first sector gives.                                                     *)
LEMMA FirstSector ==
  ASSUME Types, First, pending > 0, Served(request)
  PROVE  \E c \in Nat :
           /\ Copied = c
           /\ \/ c = request.size /\ pending = 1
              \/ /\ c < request.size /\ skip + c = BlockSize
                 /\ \/ request.size - c = BlockSize * (pending - 1)
                    \/ /\ pending = 2 /\ c = 1
                       /\ request.size % 2 = 1 /\ request.size <= BlockSize
<1> USE IDECopyAssumption
<1>1. /\ BlockSize \in Nat /\ BlockSize > 0 /\ request \in Requests
      /\ request.start \in Nat /\ request.size \in Nat
  BY DEF Types
<1>2. PICK h \in Nat : BlockSize = 2 * h /\ h > 0
  <2>1. PICK k \in Nat, r \in {0, 1} : BlockSize = 2 * k + r /\ BlockSize % 2 = r
    BY <1>1, Halves
  <2> QED
    BY <1>1, <2>1
<1>3. PICK q \in Nat, d \in Nat : /\ d < BlockSize /\ request.start = BlockSize * q + d
                                  /\ request.start % BlockSize = d
  <2>1. PICK a \in Nat : a = request.start
    BY <1>1
  <2>2. BlockSize \in Nat /\ BlockSize > 0
    BY <1>2
  <2>3. \E k, r \in Nat : /\ r < BlockSize /\ a = BlockSize * k + r
                         /\ a \div BlockSize = k /\ a % BlockSize = r
    BY <2>2, Divided
  <2> QED
    BY <2>1, <2>3
<1>4. skip = d /\ SkipCount(request) = d
  BY <1>3 DEF First, SkipCount
<1>5. PICK e \in Nat, o \in {0, 1} : d = 2 * e + o /\ d % 2 = o
  BY Halves
<1>6. PICK m \in Nat, p \in {0, 1} : request.size = 2 * m + p /\ request.size % 2 = p
  BY <1>1, Halves
<1>7. e + o <= h
  BY <1>2, <1>3, <1>5
<1>8. Copied = o + 2 * Smaller(h - e - o, m)
  BY <1>1, <1>2, <1>4, <1>5, <1>6, <1>7, CopiedWords, SMTT(30)
<1>9. ASSUME NEW n \in Nat, d + request.size <= BlockSize * n,
             BlockSize * n < d + request.size + BlockSize
      PROVE  pending = n
  BY <1>1, <1>4, <1>9, Sectors DEF First
<1>10. CASE d + request.size <= BlockSize /\ o = p
  <2>1. Copied = request.size
    BY <1>2, <1>5, <1>6, <1>7, <1>8, <1>10 DEF Smaller
  <2>2. d + request.size > 0 => pending = 1
    <3>1. BlockSize * 1 = BlockSize
      BY <1>1
    <3> QED
      BY <1>1, <1>9, <1>10, <3>1
  <2>3. d + request.size = 0 => pending = 0
    <3> SUFFICES ASSUME d + request.size = 0 PROVE pending = 0
      OBVIOUS
    <3>1. BlockSize * 0 = 0
      BY <1>1
    <3>2. PICK z \in Nat : z = d + request.size /\ z = 0 /\ z < z + BlockSize
      BY <1>1
    <3> QED
      BY <1>1, <1>9, <3>1, <3>2
  <2> QED
    BY <1>1, <2>1, <2>2, <2>3
<1>11. CASE (request.start + request.size) % BlockSize = 0
  <2>1. PICK k \in Nat : request.start + request.size = BlockSize * k
    <3>1. PICK a \in Nat : a = request.start + request.size
      BY <1>1
    <3>2. PICK k \in Nat, r \in Nat : a = BlockSize * k + r /\ a % BlockSize = r
      BY <1>1, Divided
    <3>3. r = 0 /\ BlockSize * k \in Nat
      BY <1>1, <1>11, <3>1, <3>2, Product
    <3> QED
      BY <3>1, <3>2, <3>3
  <2>2. q <= k
    <3> SUFFICES ASSUME k < q PROVE FALSE
      OBVIOUS
    <3>1. BlockSize * k + BlockSize <= BlockSize * q
      BY <1>1, Growing
    <3>2. BlockSize * k \in Nat /\ BlockSize * q \in Nat
      BY <1>1, Product
    <3> QED
      BY <1>1, <1>3, <2>1, <3>1, <3>2
  <2>3. PICK n \in Nat : k = q + n
    BY <2>2
  <2>4. d + request.size = BlockSize * n /\ BlockSize * n \in Nat
    <3>1. BlockSize * k = BlockSize * q + BlockSize * n /\ BlockSize * q \in Nat
          /\ BlockSize * n \in Nat
      BY <1>1, <2>3, Product
    <3> QED
      BY <1>1, <1>3, <2>1, <3>1
  <2>5. pending = n
    BY <1>1, <1>9, <2>4
  <2>6. PICK l \in Nat : n = 1 + l
    BY <2>5
  <2>7. BlockSize * n = BlockSize + BlockSize * l /\ BlockSize * l \in Nat
    BY <1>1, <2>6, Product
  <2>8. PICK x \in Nat : x = h * l /\ BlockSize * l = 2 * x
    <3>1. h * l \in Nat /\ BlockSize * l = 2 * (h * l)
      BY <1>2, Z3
    <3> QED
      BY <3>1
  <2>9. o = p /\ e + o + m = h + x
    BY <1>2, <1>5, <1>6, <2>4, <2>7, <2>8
  <2>10. Copied = BlockSize - d
    BY <1>2, <1>5, <1>7, <1>8, <2>9 DEF Smaller
  <2>11. PICK c \in Nat : c = BlockSize - d
    BY <1>1, <1>3
  <2>12. request.size - c = BlockSize * (pending - 1)
    BY <1>1, <2>4, <2>5, <2>6, <2>7, <2>11
  <2>13. CASE l = 0
    <3>1. BlockSize * l = 0
      BY <1>1, <2>13
    <3>2. c = request.size /\ pending = 1
      BY <1>1, <2>4, <2>5, <2>6, <2>7, <2>11, <2>13, <3>1
    <3> QED
      BY <2>10, <2>11, <3>2
  <2>14. CASE l # 0
    <3>1. BlockSize * l > 0
      BY <1>1, <2>14, Growing, Product
    <3>2. c < request.size /\ skip + c = BlockSize
      BY <1>1, <1>4, <2>4, <2>7, <2>11, <3>1
    <3> QED
      BY <2>10, <2>11, <2>12, <3>2
  <2> QED
    BY <2>13, <2>14
<1>12. CASE d = BlockSize - 1 /\ p = 1 /\ request.size <= BlockSize
  <2>1. Copied = 1
    BY <1>2, <1>5, <1>7, <1>8, <1>12, <1>6 DEF Smaller
  <2>2. CASE request.size = 1
    <3>1. BlockSize * 1 = BlockSize
      BY <1>1, Product
    <3>2. pending = 1
      BY <1>1, <1>9, <1>12, <2>2, <3>1
    <3> QED
      BY <2>1, <2>2, <3>2
  <2>3. CASE request.size # 1
    <3>1. BlockSize * 2 = BlockSize + BlockSize
      BY <1>1
    <3>2. request.size > 1
      BY <1>6, <1>12, <2>3
    <3>3. pending = 2
      BY <1>1, <1>9, <1>12, <3>1, <3>2
    <3> QED
      BY <1>1, <1>4, <1>6, <1>12, <2>1, <3>2, <3>3
  <2> QED
    BY <2>2, <2>3
<1>13. request.start % 2 = o
  <2>1. h * q + e \in Nat /\ request.start = 2 * (h * q + e) + o
    BY <1>2, <1>3, <1>5, Z3
  <2> QED
    BY <2>1, Quotient
<1> QED
  BY <1>3, <1>6, <1>10, <1>11, <1>12, <1>13 DEF Served

(* A sector behind the first one gives all it has, or what is left.        *)
LEMMA LaterSector ==
  ASSUME Types, Later
  PROVE  \E c \in Nat :
           /\ Copied = c
           /\ \/ c = request.size - address /\ pending = 1
              \/ /\ c = BlockSize /\ c < request.size - address
                 /\ request.size - address - c = BlockSize * (pending - 1)
<1> USE IDECopyAssumption
<1>1. /\ BlockSize \in Nat /\ BlockSize > 0 /\ request \in Requests
      /\ request.start \in Nat /\ request.size \in Nat /\ address \in Nat
      /\ pending \in Nat /\ pending > 0 /\ skip = 0
  BY DEF Types, Later
<1>2. PICK h \in Nat : BlockSize = 2 * h /\ h > 0
  <2>1. PICK k \in Nat, r \in {0, 1} : BlockSize = 2 * k + r /\ BlockSize % 2 = r
    BY <1>1, Halves
  <2> QED
    BY <1>1, <2>1
<1>3. PICK m \in Nat, p \in {0, 1} : request.size = 2 * m + p /\ request.size % 2 = p
  BY <1>1, Halves
<1>4. Copied = 2 * Smaller(h, m)
  <2>1. skip = 2 * 0 + 0 /\ 0 + 0 <= h
    BY <1>1, <1>2
  <2>2. Copied = 0 + 2 * Smaller(h - 0 - 0, m)
    BY <1>1, <1>2, <1>3, <2>1, CopiedWords
  <2>3. h - 0 - 0 = h /\ Smaller(h, m) \in Nat
    BY <1>2 DEF Smaller
  <2> QED
    BY <2>2, <2>3
<1>5. CASE request.size - address = BlockSize * pending
  <2>1. PICK l \in Nat : pending = 1 + l
    BY <1>1
  <2>2. BlockSize * pending = BlockSize + BlockSize * l /\ BlockSize * l \in Nat
    BY <1>1, <2>1, Product
  <2>3. h <= m
    BY <1>1, <1>2, <1>3, <1>5, <2>2
  <2>4. Copied = BlockSize
    BY <1>2, <1>4, <2>3 DEF Smaller
  <2>5. CASE l = 0
    <3>1. BlockSize * l = 0
      BY <1>1, <2>5
    <3>2. BlockSize = request.size - address /\ pending = 1
      BY <1>1, <1>5, <2>1, <2>2, <2>5, <3>1
    <3> QED
      BY <1>1, <2>4, <3>2
  <2>6. CASE l # 0
    <3>1. BlockSize * l > 0
      BY <1>1, <2>6, Growing, Product
    <3>2. /\ BlockSize < request.size - address /\ l = pending - 1
          /\ request.size - address - BlockSize = BlockSize * l
      BY <1>1, <1>5, <2>1, <2>2, <3>1
    <3> QED
      BY <1>1, <2>4, <3>2
  <2> QED
    BY <2>5, <2>6
<1>6. CASE /\ pending = 1 /\ address = 1
           /\ request.size % 2 = 1 /\ request.size > 1 /\ request.size <= BlockSize
  <2>1. m <= h /\ request.size - address = 2 * m
    BY <1>2, <1>3, <1>6
  <2>2. Copied = 2 * m
    BY <1>2, <1>4, <2>1 DEF Smaller
  <2> QED
    BY <1>6, <2>1, <2>2
<1> QED
  BY <1>5, <1>6 DEF Later

-----------------------------------------------------------------------------
LEMMA InitCopy == Init => IInv
<1> SUFFICES ASSUME Init PROVE IInv
  OBVIOUS
<1> USE IDECopyAssumption
<1>1. /\ BlockSize \in Nat /\ BlockSize > 0 /\ request \in Requests
      /\ request.start \in Nat /\ request.size \in Nat
  BY DEF Init
<1>2. PICK q, d \in Nat : q = FirstBlock(request) /\ d = SkipCount(request) /\ d < BlockSize
  BY <1>1, Divided DEF FirstBlock, SkipCount
<1>3. PICK n \in Nat : pending = n
  <2>1. PICK a \in Nat : a = d + request.size + BlockSize - 1
    BY <1>1, <1>2
  <2>2. PICK k \in Nat, r \in Nat : r < BlockSize /\ a = BlockSize * k + r
    <3>1. \E k, r \in Nat : /\ r < BlockSize /\ a = BlockSize * k + r
                           /\ a \div BlockSize = k /\ a % BlockSize = r
      BY <1>1, Divided
    <3> QED
      BY <3>1
  <2>3. PICK y \in Nat : y = BlockSize * k
    BY <1>1, <2>2, Product
  <2>4. d + request.size <= y /\ y < d + request.size + BlockSize
    BY <1>1, <1>2, <2>1, <2>2, <2>3
  <2>5. LastBlock(request) - FirstBlock(request) = k
    BY <1>1, <1>2, <2>2, <2>3, <2>4, Sectors
  <2> QED
    BY <2>5 DEF Init
<1>4. Types
  BY <1>2, <1>3 DEF Init, Types
<1>5. Written
  <2>1. Memory(request) \subseteq Nat
    BY <1>1 DEF Memory
  <2> QED
    BY <1>1, <2>1 DEF Init, Written
<1>6. First
  BY DEF Init, First
<1> QED
  BY <1>4, <1>5, <1>6 DEF IInv

(* A read without a sector has no bytes. *)
LEMMA NoSectors ==
  ASSUME NEW r \in Requests, LastBlock(r) = FirstBlock(r)
  PROVE  r.size = 0
<1>1. BlockSize \in Nat /\ BlockSize > 0 /\ r.start \in Nat /\ r.size \in Nat
  BY IDECopyAssumption
<1>2. PICK a \in Nat : a = r.start + r.size + BlockSize - 1
  BY <1>1
<1>3. PICK q \in Nat, d \in Nat : d < BlockSize /\ r.start = BlockSize * q + d /\ q = FirstBlock(r)
  <2>1. FirstBlock(r) = r.start \div BlockSize
    BY DEF FirstBlock
  <2>2. PICK m \in Nat : m = r.start
    BY <1>1
  <2>3. \E k, z \in Nat : /\ z < BlockSize /\ m = BlockSize * k + z
                         /\ m \div BlockSize = k /\ m % BlockSize = z
    BY <1>1, Divided
  <2> QED
    BY <2>1, <2>2, <2>3
<1>4. PICK k \in Nat, z \in Nat : z < BlockSize /\ a = BlockSize * k + z /\ k = LastBlock(r)
  <2>1. LastBlock(r) = a \div BlockSize
    BY <1>2 DEF LastBlock
  <2> QED
    BY <1>1, <2>1, Divided
<1>5. PICK x \in Nat : x = BlockSize * q
  BY <1>1, Product
<1>6. r.start = x + d
  BY <1>3, <1>5
<1>7. a = x + z
  BY <1>3, <1>4, <1>5
<1>8. z <= BlockSize - 1
  BY <1>1, <1>4
<1> QED
  BY <1>1, <1>2, <1>6, <1>7, <1>8

LEMMA StepCopy ==
  ASSUME AllServed, IInv, SectorRead
  PROVE  IInv'
<1> USE IDECopyAssumption
<1>1. /\ BlockSize \in Nat /\ BlockSize > 0 /\ request \in Requests
      /\ request.start \in Nat /\ request.size \in Nat
      /\ address \in Nat /\ sector \in Nat /\ pending \in Nat /\ pending > 0
      /\ Types /\ Written
  BY DEF IInv, Types, SectorRead
<1>2. CASE First
  <2>1. Served(request)
    BY <1>1 DEF AllServed
  <2>2. PICK c \in Nat :
           /\ Copied = c
           /\ \/ c = request.size /\ pending = 1
              \/ /\ c < request.size /\ skip + c = BlockSize
                 /\ \/ request.size - c = BlockSize * (pending - 1)
                    \/ /\ pending = 2 /\ c = 1
                       /\ request.size % 2 = 1 /\ request.size <= BlockSize
    BY <1>1, <1>2, <2>1, FirstSector
  <2>3. address = 0 /\ ~done /\ BlockSize * sector + skip = request.start
    <3>1. PICK q, d \in Nat : /\ request.start = BlockSize * q + d
                              /\ q = FirstBlock(request) /\ d = SkipCount(request)
      BY <1>1, Divided DEF FirstBlock, SkipCount
    <3> QED
      BY <1>1, <1>2, <3>1 DEF First
  <2>4. /\ Types' /\ Written'
        /\ address' = c /\ request' = request /\ skip' = 0
        /\ sector' = sector + 1 /\ pending' = pending - 1
        /\ done' <=> c = request.size
    BY <1>1, <2>2, <2>3, CopyKeeps
  <2>5. CASE c = request.size /\ pending = 1
    BY <2>4, <2>5 DEF IInv, Finished
  <2>6. CASE /\ c < request.size /\ skip + c = BlockSize
             /\ \/ request.size - c = BlockSize * (pending - 1)
                \/ /\ pending = 2 /\ c = 1
                   /\ request.size % 2 = 1 /\ request.size <= BlockSize
    <3>1. BlockSize * (sector + 1) = request.start + c
      <4>1. BlockSize * (sector + 1) = BlockSize * sector + BlockSize
        BY <1>1, Product
      <4>2. PICK x \in Nat : x = BlockSize * sector
        BY <1>1, Product
      <4>3. skip \in Nat /\ skip + c = BlockSize /\ x + skip = request.start
        BY <1>1, <2>3, <2>6, <4>2 DEF Types
      <4> QED
        BY <1>1, <2>2, <4>1, <4>2, <4>3
    <3>2. pending - 1 > 0
      BY <1>1, <2>6, Product
    <3>3. Later'
      BY <1>1, <2>4, <2>6, <3>1, <3>2 DEF Later
    <3> QED
      BY <2>4, <3>3 DEF IInv
  <2> QED
    BY <2>2, <2>5, <2>6
<1>3. CASE Later
  <2>1. PICK c \in Nat :
           /\ Copied = c
           /\ \/ c = request.size - address /\ pending = 1
              \/ /\ c = BlockSize /\ c < request.size - address
                 /\ request.size - address - c = BlockSize * (pending - 1)
    BY <1>1, <1>3, LaterSector
  <2>2. ~done /\ skip = 0 /\ BlockSize * sector = request.start + address
    BY <1>3 DEF Later
  <2>3. address + c <= request.size /\ BlockSize * sector + skip = request.start + address
    BY <1>1, <2>1, <2>2
  <2>4. /\ Types' /\ Written'
        /\ address' = address + c /\ request' = request /\ skip' = 0
        /\ sector' = sector + 1 /\ pending' = pending - 1
        /\ done' <=> address + c = request.size
    BY <1>1, <2>1, <2>2, <2>3, CopyKeeps
  <2>5. CASE c = request.size - address /\ pending = 1
    BY <1>1, <2>4, <2>5 DEF IInv, Finished
  <2>6. CASE /\ c = BlockSize /\ c < request.size - address
             /\ request.size - address - c = BlockSize * (pending - 1)
    <3>1. BlockSize * (sector + 1) = request.start + (address + c)
      BY <1>1, <2>2, <2>6, Product
    <3>2. pending - 1 > 0
      BY <1>1, <2>6, Product
    <3>3. Later'
      BY <1>1, <2>4, <2>6, <3>1, <3>2 DEF Later
    <3> QED
      BY <2>4, <3>3 DEF IInv
  <2> QED
    BY <2>1, <2>5, <2>6
<1> QED
  BY <1>1, <1>2, <1>3 DEF IInv, Finished

(* A read of one of the kinds that the handler serves ends with the bytes  *)
(* of its place in the caller's buffer, in order, with nothing written     *)
(* behind the buffer, and with the caller told by the last sector's        *)
(* interrupt (IDE_InterruptHandler).                                       *)
THEOREM ServedReadsRight ==
  ASSUME AllServed
  PROVE  Spec => []ServedRight
<1>1. IInv /\ [Next]_vars => IInv'
  <2>1. IInv /\ UNCHANGED vars => IInv'
    BY DEF IInv, Types, Written, First, Later, Finished, vars
  <2> QED
    BY <2>1, StepCopy DEF Next
<1>2. ASSUME IInv PROVE ServedRight
  <2>1. request \in Requests /\ request.size \in Nat /\ address \in Nat
    BY <1>2, IDECopyAssumption DEF IInv, Types
  <2>2. done => address = request.size
    <3>1. CASE First
      <4>1. LastBlock(request) \in Int /\ FirstBlock(request) \in Int
        BY <2>1, IDECopyAssumption DEF LastBlock, FirstBlock
      <4>2. done => LastBlock(request) = FirstBlock(request)
        BY <3>1, <4>1 DEF First
      <4> QED
        BY <2>1, <3>1, <4>2, NoSectors DEF First
    <3> QED
      BY <1>2, <3>1 DEF IInv, Later, Finished
  <2>3. CallerTold
    BY <1>2 DEF IInv, First, Later, Finished, CallerTold
  <2>4. BufferKept
    BY <1>2, <2>1 DEF IInv, Written, Memory, BufferKept
  <2>5. BytesInPlace
    BY <1>2, <2>1, <2>2, IDECopyAssumption DEF IInv, Written, Memory, BytesInPlace
  <2> QED
    BY <2>3, <2>4, <2>5 DEF ServedRight
<1> QED
  BY <1>1, <1>2, InitCopy, PTL DEF Spec
=============================================================================
