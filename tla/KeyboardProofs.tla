---------------------------- MODULE KeyboardProofs ----------------------------
(***************************************************************************)
(* Proofs about Keyboard, for any keys and any number of presses: what the *)
(* handler will have done when the controller is empty is what was meant.  *)
(***************************************************************************)
EXTENDS Keyboard, SequenceTheorems, TLAPS

-----------------------------------------------------------------------------
Bytes == [code : Keys \cup {"e0"}, up : BOOLEAN]
Written == 0 .. 255

(* What the handler keeps, and what the user means it to keep. *)
Modes == [left : BOOLEAN, right : BOOLEAN, caps : BOOLEAN, typed : Seq(Written)]
Kept == [left |-> left_shift, right |-> right_shift, caps |-> caps_lock, typed |-> typed]
Meant == [left |-> "lshift" \in down, right |-> "rshift" \in down,
          caps |-> locked, typed |-> expected]

Types ==
  /\ controller \in Seq(Bytes) /\ down \subseteq Keys
  /\ left_shift \in BOOLEAN /\ right_shift \in BOOLEAN /\ caps_lock \in BOOLEAN
  /\ locked \in BOOLEAN
  /\ typed \in Seq(Written) /\ expected \in Seq(Written)

(* What the keyboard's handler makes of the modes s by the byte b. *)
Handled(s, b) ==
  [left |-> IF b.code = "lshift" THEN ~b.up ELSE s.left,
   right |-> IF b.code = "rshift" THEN ~b.up ELSE s.right,
   caps |-> IF b.code = "capslock" /\ ~b.up THEN ~s.caps ELSE s.caps,
   typed |-> IF b.code \in OtherKeys /\ ~b.up
               THEN Append(s.typed, Char(b.code, s.left \/ s.right \/ s.caps)) ELSE s.typed]

(* The i-th byte of c is a prefix or a shift behind one: no key. *)
NoKey(c, i) ==
  \/ c[i] = Prefix
  \/ i > 1 /\ c[i - 1] = Prefix /\ c[i].code \in Shifts

Turn(c, i, s) == IF NoKey(c, i) THEN s ELSE Handled(s, c[i])

(* A prefix has one byte behind it. *)
Paired(c, n) == \A i \in 1 .. n : c[i] = Prefix => i < n /\ c[i + 1] # Prefix

(* The modes h that the n bytes of c lead through, from one to another. *)
Leads(c, n, h, from, to) ==
  /\ h[0] = from /\ h[n] = to
  /\ \A i \in 1 .. n : h[i] = Turn(c, i, h[i - 1])

(* The characters s are the first ones of t. *)
Begins(s, t) == Len(s) <= Len(t) /\ \A i \in 1 .. Len(s) : s[i] = t[i]

(* The bytes in the controller lead from the modes kept to those meant, and *)
(* on the way nothing is typed that is not expected.                        *)
Ahead ==
  \E h \in [0 .. Len(controller) -> Modes] :
    /\ Leads(controller, Len(controller), h, Kept, Meant)
    /\ \A i \in 0 .. Len(controller) : Begins(h[i].typed, expected)

IInv == Types /\ Paired(controller, Len(controller)) /\ Ahead

-----------------------------------------------------------------------------
(* The bytes of one press or release: only the last one stands for a key.  *)
LEMMA BytesRight ==
  ASSUME NEW k \in Keys, NEW up \in BOOLEAN, NEW fake \in BOOLEAN, fake => k \in ExtKeys
  PROVE  \E m \in Nat \ {0} :
           /\ BytesOf(k, up, fake) \in Seq(Bytes) /\ Len(BytesOf(k, up, fake)) = m
           /\ BytesOf(k, up, fake)[m] = Byte(k, up)
           /\ \A i \in 1 .. m - 1 : NoKey(BytesOf(k, up, fake), i)
           /\ Paired(BytesOf(k, up, fake), m)
           /\ ~NoKey(BytesOf(k, up, fake), m)
<1>1. PICK p \in Bytes, l \in Bytes, b \in Bytes :
        /\ p = Prefix /\ l = Byte("lshift", up) /\ b = Byte(k, up)
        /\ l # Prefix /\ l.code \in Shifts
  <2>1. {k, "lshift", "e0"} \subseteq Keys \cup {"e0"}
    BY DEF Keys, Modifiers, Shifts
  <2>2. Prefix \in Bytes /\ Byte("lshift", up) \in Bytes /\ Byte(k, up) \in Bytes
    BY <2>1 DEF Bytes, Prefix, Byte
  <2>3. Byte("lshift", up) # Prefix
    BY DEF Prefix, Byte
  <2>4. Byte("lshift", up).code \in Shifts
    BY DEF Byte, Shifts
  <2> QED
    BY <2>2, <2>3, <2>4
<1>2. b # Prefix /\ (k \in ExtKeys => b.code \notin Shifts)
  BY <1>1, KeyAssumption DEF Keys, OtherKeys, Modifiers, Shifts, Prefix, Byte
<1>3. CASE k \notin ExtKeys
  <2>1. BytesOf(k, up, fake) = <<>> \o <<b>>
    BY <1>1, <1>3 DEF BytesOf
  <2>2. PICK s \in Seq(Bytes) : s = BytesOf(k, up, fake) /\ Len(s) = 1 /\ s[1] = b
    <3>1. <<b>> \in Seq(Bytes) /\ Len(<<b>>) = 1 /\ <<b>>[1] = b
      OBVIOUS
    <3> QED
      BY <2>1, <3>1, ConcatEmptySeq
  <2>3. Paired(s, 1) /\ ~NoKey(s, 1)
    BY <1>2, <2>2 DEF Paired, NoKey
  <2> QED
    BY <1>1, <2>2, <2>3
<1>4. CASE k \in ExtKeys /\ ~fake
  <2>1. BytesOf(k, up, fake) = <<>> \o <<p, b>>
    BY <1>1, <1>4 DEF BytesOf
  <2>2. PICK s \in Seq(Bytes) : s = BytesOf(k, up, fake) /\ Len(s) = 2 /\ s[1] = p /\ s[2] = b
    <3>1. <<p, b>> \in Seq(Bytes) /\ Len(<<p, b>>) = 2 /\ <<p, b>>[1] = p /\ <<p, b>>[2] = b
      OBVIOUS
    <3> QED
      BY <2>1, <3>1, ConcatEmptySeq
  <2>3. Paired(s, 2) /\ ~NoKey(s, 2) /\ \A i \in 1 .. 2 - 1 : NoKey(s, i)
    BY <1>1, <1>2, <1>4, <2>2 DEF Paired, NoKey
  <2> QED
    BY <1>1, <2>2, <2>3
<1>5. CASE k \in ExtKeys /\ fake
  <2>1. BytesOf(k, up, fake) = <<p, l>> \o <<p, b>>
    BY <1>1, <1>5 DEF BytesOf
  <2>2. PICK r \in Seq(Bytes), q \in Seq(Bytes) :
          /\ r = <<p, l>> /\ Len(r) = 2 /\ r[1] = p /\ r[2] = l
          /\ q = <<p, b>> /\ Len(q) = 2 /\ q[1] = p /\ q[2] = b
    <3>1. <<p, l>> \in Seq(Bytes) /\ <<p, b>> \in Seq(Bytes)
      OBVIOUS
    <3> QED
      BY <3>1
  <2>3. PICK s \in Seq(Bytes) : s = r \o q /\ Len(s) = 4
    <3>1. r \o q \in Seq(Bytes) /\ Len(r \o q) = Len(r) + Len(q)
      BY ConcatProperties
    <3>2. Len(r) + Len(q) = 4
      BY <2>2
    <3> QED
      BY <3>1, <3>2
  <2>4. s[1] = p /\ s[2] = l /\ s[3] = p /\ s[4] = b
    <3>1. s[1] = r[1] /\ s[2] = r[2] /\ s[2 + 1] = q[1] /\ s[2 + 2] = q[2]
      BY <2>2, <2>3
    <3> QED
      BY <2>2, <3>1
  <2>5. Paired(s, 4) /\ ~NoKey(s, 4) /\ \A i \in 1 .. 4 - 1 : NoKey(s, i)
    BY <1>1, <1>2, <1>5, <2>4 DEF Paired, NoKey
  <2> QED
    BY <1>1, <2>1, <2>2, <2>3, <2>4, <2>5
<1> QED
  BY <1>3, <1>4, <1>5

-----------------------------------------------------------------------------
(* A key is pressed or released: the way ahead gets longer.                *)
LEMMA Arrive ==
  ASSUME Paired(controller, Len(controller)), Ahead, controller \in Seq(Bytes),
         NEW k \in Keys, NEW up \in BOOLEAN, NEW fake \in BOOLEAN, fake => k \in ExtKeys,
         controller' = controller \o BytesOf(k, up, fake),
         Kept' = Kept, Meant' = Handled(Meant, Byte(k, up)), Meant' \in Modes,
         \A s \in Seq(Written) : Begins(s, expected) => Begins(s, expected'),
         Begins(expected', expected')
  PROVE  controller' \in Seq(Bytes) /\ Paired(controller, Len(controller))' /\ Ahead'
<1>1. PICK b \in Seq(Bytes), m \in Nat \ {0} :
        /\ b = BytesOf(k, up, fake) /\ Len(b) = m /\ b[m] = Byte(k, up)
        /\ \A i \in 1 .. m - 1 : NoKey(b, i)
        /\ Paired(b, m) /\ ~NoKey(b, m)
  BY BytesRight
<1>2. PICK c \in Seq(Bytes), n \in Nat : c = controller /\ n = Len(c) /\ Paired(c, n)
  BY LenProperties
<1>3. PICK d \in Seq(Bytes) : d = controller' /\ d = c \o b
  BY <1>1, <1>2, ConcatProperties
<1>4. Len(d) = n + m
  BY <1>1, <1>2, <1>3, ConcatProperties
<1>5. \A i \in 1 .. n : d[i] = c[i]
  BY <1>1, <1>2, <1>3, ConcatProperties
<1>6. \A i \in 1 .. m : d[n + i] = b[i]
  BY <1>1, <1>2, <1>3, ConcatProperties
<1>7. PICK h \in [0 .. n -> Modes] :
        Leads(c, n, h, Kept, Meant) /\ \A i \in 0 .. n : Begins(h[i].typed, expected)
  BY <1>2 DEF Ahead
<1>8. ASSUME NEW i \in 1 .. n PROVE NoKey(d, i) <=> NoKey(c, i)
  <2>1. d[i] = c[i] /\ (i > 1 => d[i - 1] = c[i - 1])
    <3>1. i > 1 => i - 1 \in 1 .. n
      OBVIOUS
    <3> QED
      BY <1>5, <3>1
  <2> QED
    BY <2>1 DEF NoKey
<1>9. \A i \in 1 .. m : NoKey(d, n + i) <=> NoKey(b, i)
  <2>1. ASSUME NEW i \in 1 .. m, i > 1
        PROVE  d[n + i] = b[i] /\ d[(n + i) - 1] = b[i - 1] /\ n + i > 1
    <3>1. i - 1 \in 1 .. m /\ (n + i) - 1 = n + (i - 1) /\ n + i > 1
      BY <2>1
    <3>2. d[n + (i - 1)] = b[i - 1]
      BY <1>6, <3>1
    <3> QED
      BY <1>6, <3>1, <3>2
  <2>2. d[n + 1] = b[1] /\ (n > 0 => d[n + 1 - 1] # Prefix)
    <3>1. 1 \in 1 .. m
      OBVIOUS
    <3>2. ASSUME n > 0 PROVE c[n] # Prefix /\ d[n] = c[n] /\ n + 1 - 1 = n
      BY <1>2, <1>5, <3>2 DEF Paired
    <3> QED
      BY <1>6, <3>1, <3>2
  <2>3. NoKey(d, n + 1) <=> NoKey(b, 1)
    BY <2>2 DEF NoKey
  <2>4. ASSUME NEW i \in 1 .. m, i > 1 PROVE NoKey(d, n + i) <=> NoKey(b, i)
    <3>1. d[n + i] = b[i] /\ d[(n + i) - 1] = b[i - 1] /\ n + i > 1
      BY <2>1, <2>4
    <3> QED
      BY <2>4, <3>1 DEF NoKey
  <2> QED
    BY <2>3, <2>4
<1>10. Paired(d, n + m)
  <2>1. ASSUME NEW i \in 1 .. n, d[i] = Prefix PROVE i < n + m /\ d[i + 1] # Prefix
    <3>1. c[i] = Prefix
      BY <1>5, <2>1
    <3>2. i < n /\ c[i + 1] # Prefix
      BY <1>2, <3>1 DEF Paired
    <3>3. d[i + 1] = c[i + 1]
      <4>1. i + 1 \in 1 .. n
        BY <3>2
      <4> QED
        BY <1>5, <4>1
    <3> QED
      BY <3>2, <3>3
  <2>2. ASSUME NEW i \in 1 .. m, d[n + i] = Prefix PROVE n + i < n + m /\ d[n + i + 1] # Prefix
    <3>1. b[i] = Prefix /\ i < m /\ b[i + 1] # Prefix
      BY <1>1, <1>6, <2>2 DEF Paired
    <3>2. i + 1 \in 1 .. m /\ n + i + 1 = n + (i + 1)
      BY <3>1
    <3>3. d[n + (i + 1)] = b[i + 1]
      BY <1>6, <3>2
    <3> QED
      BY <3>1, <3>2, <3>3
  <2>3. \A i \in 1 .. n + m : i \in 1 .. n \/ \E j \in 1 .. m : i = n + j
    <3>1. \A i \in 1 .. n + m : i \notin 1 .. n => i - n \in 1 .. m /\ i = n + (i - n)
      OBVIOUS
    <3> QED
      BY <3>1
  <2> QED
    BY <2>1, <2>2, <2>3 DEF Paired
<1>11. PICK g : g = [i \in 0 .. n + m |-> IF i <= n THEN h[i]
                                          ELSE IF i < n + m THEN h[n] ELSE Meant']
  OBVIOUS
<1>12. /\ g \in [0 .. n + m -> Modes] /\ g[n + m] = Meant'
       /\ \A i \in 0 .. n : g[i] = h[i]
       /\ \A i \in n .. n + m - 1 : g[i] = h[n]
  BY <1>11
<1>13. Leads(d, n + m, g, Kept', Meant')
  <2>1. g[0] = Kept'
    BY <1>7, <1>12 DEF Leads
  <2>2. ASSUME NEW i \in 1 .. n PROVE g[i] = Turn(d, i, g[i - 1])
    <3>1. g[i] = h[i] /\ g[i - 1] = h[i - 1] /\ h[i] = Turn(c, i, h[i - 1])
      BY <1>7, <1>12 DEF Leads
    <3> QED
      BY <1>5, <1>8, <3>1 DEF Turn
  <2>3. ASSUME NEW i \in n + 1 .. n + m - 1 PROVE g[i] = Turn(d, i, g[i - 1])
    <3>1. g[i] = h[n] /\ g[i - 1] = h[n]
      BY <1>12
    <3>2. PICK j \in 1 .. m - 1 : i = n + j
      <4>1. i - n \in 1 .. m - 1 /\ i = n + (i - n)
        OBVIOUS
      <4> QED
        BY <4>1
    <3>3. NoKey(d, n + j)
      <4>1. j \in 1 .. m /\ NoKey(b, j)
        BY <1>1
      <4> QED
        BY <1>9, <4>1
    <3> QED
      BY <3>1, <3>2, <3>3 DEF Turn
  <2>4. g[n + m] = Turn(d, n + m, g[n + m - 1])
    <3>1. g[n + m - 1] = h[n] /\ h[n] = Meant
      BY <1>7, <1>12 DEF Leads
    <3>2. ~NoKey(d, n + m) /\ d[n + m] = Byte(k, up)
      BY <1>1, <1>6, <1>9
    <3> QED
      BY <1>12, <3>1, <3>2 DEF Turn
  <2>5. \A i \in 1 .. n + m : i \in 1 .. n \/ i \in n + 1 .. n + m - 1 \/ i = n + m
    OBVIOUS
  <2>6. ASSUME NEW i \in 1 .. n + m PROVE g[i] = Turn(d, i, g[i - 1])
    <3>1. CASE i = n + m
      BY <2>4, <3>1
    <3>2. CASE i # n + m
      BY <2>2, <2>3, <2>5, <3>2
    <3> QED
      BY <3>1, <3>2
  <2> QED
    BY <1>12, <2>1, <2>6 DEF Leads
<1>14. ASSUME NEW i \in 0 .. n + m PROVE Begins(g[i].typed, expected')
  <2>1. CASE i < n + m
    <3>1. PICK j \in 0 .. n : g[i] = h[j]
      <4>1. i \in 0 .. n \/ i \in n .. n + m - 1
        BY <2>1
      <4>2. n \in 0 .. n
        OBVIOUS
      <4> QED
        BY <1>12, <4>1, <4>2
    <3>2. h[j].typed \in Seq(Written)
      BY DEF Modes
    <3> QED
      BY <1>7, <3>1, <3>2
  <2>2. CASE i = n + m
    BY <1>12, <2>2 DEF Meant
  <2> QED
    BY <2>1, <2>2
<1> QED
  <2>1. Len(controller') = n + m /\ controller' = d
    BY <1>3, <1>4
  <2>2. Ahead'
    BY <1>12, <1>13, <1>14, <2>1 DEF Ahead
  <2> QED
    BY <1>10, <2>1, <2>2

(* The handler takes e bytes, which lead to the modes it leaves.           *)
LEMMA Advance ==
  ASSUME Types, Paired(controller, Len(controller)),
         NEW h \in [0 .. Len(controller) -> Modes],
         Leads(controller, Len(controller), h, Kept, Meant),
         \A i \in 0 .. Len(controller) : Begins(h[i].typed, expected),
         NEW e \in 1 .. Len(controller), controller[e] # Prefix, h[e] = Kept',
         controller' \in Seq(Bytes), Len(controller') = Len(controller) - e,
         \A i \in 1 .. Len(controller) - e : controller'[i] = controller[i + e],
         Meant' = Meant, expected' = expected
  PROVE  Paired(controller, Len(controller))' /\ Ahead'
<1>1. PICK c \in Seq(Bytes), n \in Nat : c = controller /\ n = Len(c)
  BY LenProperties DEF Types
<1>2. PICK m \in Nat : n = m + e
  <2>1. n - e \in Nat /\ n = (n - e) + e
    BY <1>1
  <2> QED
    BY <2>1
<1>3. PICK d \in Seq(Bytes) : d = controller' /\ Len(d) = m
  BY <1>1, <1>2
<1>4. ASSUME NEW i \in 1 .. m PROVE d[i] = c[i + e] /\ i + e \in 1 .. n
  BY <1>1, <1>2, <1>3
<1>5. Paired(d, m)
  <2>1. ASSUME NEW i \in 1 .. m, d[i] = Prefix PROVE i < m /\ d[i + 1] # Prefix
    <3>1. c[i + e] = Prefix /\ i + e \in 1 .. n
      BY <1>4, <2>1
    <3>2. i + e < n /\ c[(i + e) + 1] # Prefix
      BY <1>1, <3>1 DEF Paired
    <3>3. i + 1 \in 1 .. m /\ (i + 1) + e = (i + e) + 1
      BY <1>2, <3>2
    <3>4. d[i + 1] = c[(i + 1) + e]
      BY <1>4, <3>3
    <3> QED
      BY <3>2, <3>3, <3>4
  <2> QED
    BY <2>1 DEF Paired
<1>6. ASSUME NEW i \in 1 .. m PROVE NoKey(d, i) <=> NoKey(c, i + e)
  <2>1. CASE i = 1
    <3>1. (i + e) - 1 = e /\ c[(i + e) - 1] # Prefix
      BY <1>1, <2>1
    <3> QED
      BY <1>4, <2>1, <3>1 DEF NoKey
  <2>2. CASE i # 1
    <3>1. i - 1 \in 1 .. m /\ (i - 1) + e = (i + e) - 1 /\ i > 1 /\ i + e > 1
      BY <2>2
    <3>2. d[i - 1] = c[(i + e) - 1]
      BY <1>4, <3>1
    <3> QED
      BY <1>4, <3>1, <3>2 DEF NoKey
  <2> QED
    BY <2>1, <2>2
<1>7. PICK g : g = [i \in 0 .. m |-> h[i + e]]
  OBVIOUS
<1>8. g \in [0 .. m -> Modes] /\ \A i \in 0 .. m : g[i] = h[i + e] /\ i + e \in 0 .. n
  BY <1>1, <1>2, <1>7
<1>9. Leads(d, m, g, Kept', Meant')
  <2>1. g[0] = Kept'
    <3>1. g[0] = h[0 + e] /\ 0 + e = e
      BY <1>8
    <3> QED
      BY <3>1
  <2>2. g[m] = Meant'
    <3>1. g[m] = h[m + e]
      BY <1>8
    <3> QED
      BY <1>1, <1>2, <3>1 DEF Leads
  <2>3. ASSUME NEW i \in 1 .. m PROVE g[i] = Turn(d, i, g[i - 1])
    <3>1. g[i] = h[i + e]
      BY <1>8
    <3>2. g[i - 1] = h[(i - 1) + e] /\ (i - 1) + e = (i + e) - 1
      BY <1>8
    <3>3. h[i + e] = Turn(c, i + e, h[(i + e) - 1])
      BY <1>1, <1>4 DEF Leads
    <3> QED
      BY <1>4, <1>6, <3>1, <3>2, <3>3 DEF Turn
  <2> QED
    BY <2>1, <2>2, <2>3 DEF Leads
<1>10. \A i \in 0 .. m : Begins(g[i].typed, expected')
  BY <1>1, <1>8
<1> QED
  BY <1>3, <1>5, <1>8, <1>9, <1>10 DEF Ahead

-----------------------------------------------------------------------------
(* The steps.                                                              *)

LEMMA BeginsAppend ==
  ASSUME NEW s \in Seq(Written), NEW t \in Seq(Written), NEW x \in Written, Begins(s, t)
  PROVE  Begins(s, Append(t, x))
<1>1. Len(s) \in Nat /\ Len(t) \in Nat /\ Len(s) <= Len(t) /\ Len(Append(t, x)) = Len(t) + 1
  BY DEF Begins
<1>2. \A i \in 1 .. Len(s) : Append(t, x)[i] = t[i] /\ s[i] = t[i]
  BY <1>1 DEF Begins
<1> QED
  BY <1>1, <1>2 DEF Begins

LEMMA BeginsItself ==
  ASSUME NEW s \in Seq(Written)
  PROVE  Begins(s, s)
BY DEF Begins

LEMMA PressKeeps ==
  ASSUME IInv, NEW k \in Keys, NEW fake \in BOOLEAN, Press(k, fake)
  PROVE  IInv'
<1>1. /\ fake => k \in ExtKeys
      /\ controller' = controller \o BytesOf(k, FALSE, fake)
      /\ down' = down \cup {k}
      /\ locked' = IF k = "capslock" THEN ~locked ELSE locked
      /\ left_shift' = left_shift /\ right_shift' = right_shift
      /\ caps_lock' = caps_lock /\ typed' = typed
  BY DEF Press, kbVars
<1>2. PICK lit \in BOOLEAN : lit <=> down \cap Shifts # {} \/ locked
  OBVIOUS
<1>3. expected' = IF k \in OtherKeys THEN Append(expected, Char(k, lit)) ELSE expected
  BY <1>2 DEF Press
<1>4. /\ k \in OtherKeys => Char(k, lit) \in Written
      /\ expected \in Seq(Written)
  BY KeyAssumption DEF Char, Written, IInv, Types
<1>5. /\ expected' \in Seq(Written) /\ locked' \in BOOLEAN /\ down' \subseteq Keys
      /\ Kept' = Kept
  <2>1. expected' \in Seq(Written)
    BY <1>3, <1>4
  <2>2. locked' \in BOOLEAN
    BY <1>1 DEF IInv, Types
  <2>3. down' \subseteq Keys
    BY <1>1 DEF IInv, Types
  <2>4. Kept' = Kept
    BY <1>1 DEF Kept
  <2> QED
    BY <2>1, <2>2, <2>3, <2>4
<1>6. lit <=> Meant.left \/ Meant.right \/ Meant.caps
  BY <1>2 DEF Meant, Shifts, IInv, Types
<1>7. Meant' = Handled(Meant, Byte(k, FALSE))
  <2>1. ("lshift" \in down') = (IF k = "lshift" THEN ~FALSE ELSE "lshift" \in down)
    BY <1>1
  <2>2. ("rshift" \in down') = (IF k = "rshift" THEN ~FALSE ELSE "rshift" \in down)
    BY <1>1
  <2>3. PICK w \in BOOLEAN : w = (Meant.left \/ Meant.right \/ Meant.caps) /\ w = lit
    BY <1>6
  <2>4. expected' = IF k \in OtherKeys /\ ~FALSE THEN Append(Meant.typed, Char(k, w))
                    ELSE Meant.typed
    BY <1>3, <2>3 DEF Meant
  <2>5. Byte(k, FALSE).code = k /\ Byte(k, FALSE).up = FALSE
    BY DEF Byte
  <2> QED
    <3>1. PICK b : b = Byte(k, FALSE)
      OBVIOUS
    <3>2. /\ Handled(Meant, b).left = (IF k = "lshift" THEN ~FALSE ELSE "lshift" \in down)
          /\ Handled(Meant, b).right = (IF k = "rshift" THEN ~FALSE ELSE "rshift" \in down)
          /\ Handled(Meant, b).caps = (IF k = "capslock" /\ ~FALSE THEN ~locked ELSE locked)
      BY <2>5, <3>1 DEF Meant, Handled
    <3>3. Handled(Meant, b).typed = expected'
      BY <2>3, <2>4, <2>5, <3>1 DEF Handled
    <3>4. Handled(Meant, b) = [left |-> Handled(Meant, b).left, right |-> Handled(Meant, b).right,
                               caps |-> Handled(Meant, b).caps, typed |-> Handled(Meant, b).typed]
      BY DEF Handled
    <3>5. locked' = (IF k = "capslock" /\ ~FALSE THEN ~locked ELSE locked)
      BY <1>1
    <3> QED
      BY <2>1, <2>2, <3>1, <3>2, <3>3, <3>4, <3>5 DEF Meant
<1>8. Meant' \in Modes
  BY <1>5 DEF Meant, Modes
<1>9. \A s \in Seq(Written) : Begins(s, expected) => Begins(s, expected')
  BY <1>3, <1>4, BeginsAppend
<1>10. Begins(expected', expected')
  BY <1>5, BeginsItself
<1>11. controller' \in Seq(Bytes) /\ Paired(controller, Len(controller))' /\ Ahead'
  BY <1>1, <1>5, <1>7, <1>8, <1>9, <1>10, Arrive DEF IInv, Types
<1> QED
  BY <1>1, <1>5, <1>11 DEF IInv, Types

LEMMA ReleaseKeeps ==
  ASSUME IInv, NEW k \in Keys, NEW fake \in BOOLEAN, Release(k, fake)
  PROVE  IInv'
<1>1. /\ fake => k \in ExtKeys
      /\ controller' = controller \o BytesOf(k, TRUE, fake)
      /\ down' = down \ {k} /\ locked' = locked /\ expected' = expected
      /\ left_shift' = left_shift /\ right_shift' = right_shift
      /\ caps_lock' = caps_lock /\ typed' = typed
  BY DEF Release, kbVars
<1>2. down' \subseteq Keys /\ Kept' = Kept /\ expected' \in Seq(Written)
  BY <1>1 DEF IInv, Types, Kept
<1>3. Meant' = Handled(Meant, Byte(k, TRUE))
  <2>1. Byte(k, TRUE).code = k /\ Byte(k, TRUE).up = TRUE
    BY DEF Byte
  <2>2. /\ ("lshift" \in down') = (IF k = "lshift" THEN ~TRUE ELSE "lshift" \in down)
        /\ ("rshift" \in down') = (IF k = "rshift" THEN ~TRUE ELSE "rshift" \in down)
    BY <1>1
  <2> QED
    BY <1>1, <2>1, <2>2 DEF Meant, Handled
<1>4. Meant' \in Modes
  BY <1>1, <1>2 DEF Meant, Modes, IInv, Types
<1>5. /\ \A s \in Seq(Written) : Begins(s, expected) => Begins(s, expected')
      /\ Begins(expected', expected')
  BY <1>1, <1>2, BeginsItself
<1>6. controller' \in Seq(Bytes) /\ Paired(controller, Len(controller))' /\ Ahead'
  BY <1>1, <1>2, <1>3, <1>4, <1>5, Arrive DEF IInv, Types
<1> QED
  BY <1>1, <1>2, <1>6 DEF IInv, Types

(* What the handler does to the modifiers and the characters.              *)
LEMMA HandlerStep ==
  ASSUME NEW b, KeyboardHandler(b)
  PROVE  Kept' = Handled(Kept, b)
<1>1. PICK s : s = Kept
  OBVIOUS
<1>2. /\ s.left = left_shift /\ s.right = right_shift /\ s.caps = caps_lock /\ s.typed = typed
  BY <1>1 DEF Kept
<1>3. /\ left_shift' = (IF b.code = "lshift" THEN ~b.up ELSE s.left)
      /\ right_shift' = (IF b.code = "rshift" THEN ~b.up ELSE s.right)
      /\ caps_lock' = (IF b.code = "capslock" /\ ~b.up THEN ~s.caps ELSE s.caps)
  BY <1>2 DEF KeyboardHandler, Toggles
<1>4. typed' = IF b.code \in OtherKeys /\ ~b.up
                 THEN Append(s.typed, Char(b.code, s.left \/ s.right \/ s.caps)) ELSE s.typed
  BY <1>2 DEF KeyboardHandler, Shifted
<1> QED
  BY <1>1, <1>3, <1>4 DEF Kept, Handled

LEMMA ScanKeeps ==
  ASSUME IInv, Scanset1Key
  PROVE  IInv'
<1>1. PICK c \in Seq(Bytes), n \in Nat : c = controller /\ n = Len(c) /\ c # <<>> /\ Paired(c, n)
  BY LenProperties DEF IInv, Types, Scanset1Key
<1>2. n > 0 /\ c[1] \in Bytes /\ Head(c) = c[1]
  BY <1>1
<1>3. PICK h \in [0 .. n -> Modes] :
        Leads(c, n, h, Kept, Meant) /\ \A i \in 0 .. n : Begins(h[i].typed, expected)
  BY <1>1 DEF IInv, Ahead
<1>4. /\ down' = down /\ locked' = locked /\ expected' = expected /\ Meant' = Meant
  BY DEF Scanset1Key, Meant
<1>5. \E e \in 1 .. n :
        /\ c[e] # Prefix /\ h[e] = Kept'
        /\ controller' \in Seq(Bytes) /\ Len(controller') = n - e
        /\ \A i \in 1 .. n - e : controller'[i] = c[i + e]
  <2>1. CASE c[1] # Prefix
    <3>1. controller' = Tail(c) /\ KeyboardHandler(c[1])
      BY <1>1, <1>2, <2>1 DEF Scanset1Key
    <3>2. /\ Tail(c) \in Seq(Bytes) /\ Len(Tail(c)) = n - 1
          /\ \A i \in 1 .. n - 1 : Tail(c)[i] = c[i + 1]
      BY <1>1, <1>2
    <3>3. h[1] = Turn(c, 1, h[1 - 1]) /\ h[1 - 1] = Kept
      BY <1>2, <1>3 DEF Leads
    <3>4. ~NoKey(c, 1)
      BY <2>1 DEF NoKey
    <3>5. h[1] = Kept'
      BY <3>1, <3>3, <3>4, HandlerStep DEF Turn
    <3> QED
      BY <1>2, <2>1, <3>1, <3>2, <3>5
  <2>2. CASE c[1] = Prefix
    <3>1. 1 < n /\ c[2] # Prefix
      BY <1>1, <1>2, <2>2 DEF Paired
    <3>2. PICK d \in Seq(Bytes) : /\ d = Tail(c) /\ Len(d) = n - 1
                                  /\ \A i \in 1 .. n - 1 : d[i] = c[i + 1]
      <4>1. /\ Tail(c) \in Seq(Bytes) /\ Len(Tail(c)) = n - 1
            /\ \A i \in 1 .. n - 1 : Tail(c)[i] = c[i + 1]
        BY <1>1, <1>2
      <4> QED
        BY <4>1
    <3>3. /\ Tail(d) \in Seq(Bytes) /\ Len(Tail(d)) = (n - 1) - 1
          /\ \A i \in 1 .. (n - 1) - 1 : Tail(d)[i] = d[i + 1]
      BY <3>1, <3>2
    <3>4. controller' = Tail(d)
      BY <1>1, <1>2, <2>2, <3>2 DEF Scanset1Key
    <3>5. ASSUME NEW i \in 1 .. n - 2 PROVE controller'[i] = c[i + 2]
      <4>1. Tail(d)[i] = d[i + 1] /\ d[i + 1] = c[(i + 1) + 1] /\ (i + 1) + 1 = i + 2
        BY <3>2, <3>3
      <4> QED
        BY <3>4, <4>1
    <3>6. h[1] = Turn(c, 1, h[1 - 1]) /\ h[1 - 1] = Kept /\ h[2] = Turn(c, 2, h[2 - 1])
      BY <1>2, <1>3, <3>1 DEF Leads
    <3>7. h[1] = Kept
      BY <2>2, <3>6 DEF Turn, NoKey
    <3>8. NoKey(c, 2) <=> c[2].code \in Shifts
      BY <2>2, <3>1 DEF NoKey
    <3>9. h[2] = Kept'
      <4>1. CASE c[2].code \in Shifts
        <5>1. UNCHANGED kbVars
          BY <1>1, <1>2, <2>2, <4>1 DEF Scanset1Key, Ignored
        <5> QED
          BY <3>6, <3>7, <3>8, <4>1, <5>1 DEF kbVars, Kept, Turn
      <4>2. CASE c[2].code \notin Shifts
        <5>1. KeyboardHandler(c[2])
          BY <1>1, <1>2, <2>2, <4>2 DEF Scanset1Key, Ignored
        <5> QED
          BY <3>6, <3>7, <3>8, <4>2, <5>1, HandlerStep DEF Turn
      <4> QED
        BY <4>1, <4>2
    <3> QED
      BY <3>1, <3>3, <3>4, <3>5, <3>9
  <2> QED
    BY <2>1, <2>2
<1>6. PICK e \in 1 .. n :
        /\ c[e] # Prefix /\ h[e] = Kept'
        /\ controller' \in Seq(Bytes) /\ Len(controller') = n - e
        /\ \A i \in 1 .. n - e : controller'[i] = c[i + e]
  BY <1>5
<1>7. Paired(controller, Len(controller))' /\ Ahead'
  BY <1>1, <1>3, <1>4, <1>6, Advance DEF IInv
<1>8. Kept' \in Modes
  BY <1>6
<1>9. /\ left_shift' \in BOOLEAN /\ right_shift' \in BOOLEAN /\ caps_lock' \in BOOLEAN
      /\ typed' \in Seq(Written)
  BY <1>8 DEF Kept, Modes
<1> QED
  BY <1>4, <1>6, <1>7, <1>9 DEF IInv, Types

LEMMA Begin == KeyboardInit => IInv
<1> SUFFICES ASSUME KeyboardInit PROVE IInv
  OBVIOUS
<1>1. controller = <<>> /\ Len(controller) = 0
  BY DEF KeyboardInit
<1>2. Types
  <2>1. <<>> \in Seq(Bytes) /\ <<>> \in Seq(Written)
    OBVIOUS
  <2> QED
    BY <2>1 DEF KeyboardInit, Types
<1>3. Kept = Meant /\ Kept \in Modes /\ Kept.typed = <<>> /\ expected = <<>>
  <2>1. Kept = Meant /\ Kept.typed = <<>> /\ expected = <<>>
    <3>1. /\ ("lshift" \in down) = FALSE /\ ("rshift" \in down) = FALSE
          /\ left_shift = FALSE /\ right_shift = FALSE /\ caps_lock = FALSE /\ locked = FALSE
          /\ typed = <<>> /\ expected = <<>>
      BY DEF KeyboardInit
    <3> QED
      BY <3>1 DEF Kept, Meant
  <2> QED
    BY <1>2, <2>1 DEF Kept, Modes, Types
<1>4. PICK h : h = [i \in 0 .. 0 |-> Kept]
  OBVIOUS
<1>5. h \in [0 .. Len(controller) -> Modes] /\ h[0] = Kept
  BY <1>1, <1>3, <1>4
<1>6. Leads(controller, Len(controller), h, Kept, Meant)
  BY <1>1, <1>3, <1>5 DEF Leads
<1>7. \A i \in 0 .. Len(controller) : Begins(h[i].typed, expected)
  BY <1>1, <1>3, <1>5 DEF Begins
<1>8. Paired(controller, Len(controller))
  BY <1>1 DEF Paired
<1> QED
  BY <1>2, <1>5, <1>6, <1>7, <1>8 DEF IInv, Ahead

LEMMA Invariance == KeyboardSpec => []IInv
<1>1. IInv /\ [KeyboardNext]_keyboardVars => IInv'
  <2> SUFFICES ASSUME IInv, [KeyboardNext]_keyboardVars PROVE IInv'
    OBVIOUS
  <2>1. ASSUME NEW k \in Keys, NEW fake \in BOOLEAN, Press(k, fake) \/ Release(k, fake)
        PROVE  IInv'
    BY <2>1, PressKeeps, ReleaseKeeps
  <2>2. CASE Scanset1Key
    BY <2>2, ScanKeeps
  <2>3. CASE UNCHANGED keyboardVars
    BY <2>3 DEF keyboardVars, kbVars, IInv, Types, Paired, Ahead, Kept, Meant
  <2> QED
    BY <2>1, <2>2, <2>3 DEF KeyboardNext
<1> QED
  BY <1>1, Begin, PTL DEF KeyboardSpec

(* k_PS2_Scanset1Key and k_dev_kb_KeyboardHandler give the focused process *)
(* one byte for every press of a key that is no modifier, in order and out *)
(* of the table that the keys held choose, a zero for a key without a      *)
(* character, however many bytes have piled up in the controller, and      *)
(* leave no modifier set that nobody holds.                                *)
THEOREM TypedAsMeant == KeyboardSpec => []KeysAsMeant
<1>1. ASSUME IInv PROVE KeysAsMeant
  <2>1. PICK h \in [0 .. Len(controller) -> Modes] :
          /\ Leads(controller, Len(controller), h, Kept, Meant)
          /\ \A i \in 0 .. Len(controller) : Begins(h[i].typed, expected)
    BY <1>1 DEF IInv, Ahead
  <2>2. Len(controller) \in Nat
    BY <1>1 DEF IInv, Types
  <2>3. h[0] = Kept /\ Begins(typed, expected)
    <3>1. h[0] = Kept /\ Begins(h[0].typed, expected)
      BY <2>1, <2>2 DEF Leads
    <3> QED
      BY <3>1 DEF Kept
  <2>4. IsPrefix(typed, expected)
    BY <1>1, <2>3 DEF IInv, Types, Begins, IsPrefix
  <2>5. ASSUME controller = <<>> PROVE Kept = Meant
    <3>1. Len(controller) = 0
      BY <2>5
    <3> QED
      BY <2>1, <3>1 DEF Leads
  <2>6. controller = <<>> =>
          /\ typed = expected /\ caps_lock = locked
          /\ left_shift = ("lshift" \in down) /\ right_shift = ("rshift" \in down)
    BY <2>5 DEF Kept, Meant
  <2> QED
    BY <2>4, <2>6 DEF KeysAsMeant, CharsAsTyped, ModifiersAsHeld
<1> QED
  BY <1>1, Invariance, PTL

=============================================================================
