----------------------------- MODULE SchedProofs -----------------------------
(***************************************************************************)
(* Proofs about Sched for any number of threads and any set of timer       *)
(* points that leaves out the one in the middle of DetachThread.           *)
(***************************************************************************)
EXTENDS Sched, SequenceTheorems, TLAPS

-----------------------------------------------------------------------------
(* The values of the variable list. *)
Families == [ListNames -> Seq(Threads)]

(* The thread x is on none of the lists of L. *)
Off(L, x) == \A m \in ListNames : ~In(L, m, x)

(* M is a family of lists that are still exclusive, and every list but l   *)
(* is the same in M as in L.                                               *)
Only(L, M, l) ==
  /\ M \in Families
  /\ Exclusive(M)
  /\ \A m \in ListNames : m # l => M[m] = L[m]

(* M is L with x added to l, with the head of l removed, with the list a   *)
(* moved to b, and with the list b joined to a.                            *)
Pushed(L, M, l, x) ==
  /\ Only(L, M, l)
  /\ M[l] # <<>>
  /\ \A m \in ListNames, t \in Threads :
       In(M, m, t) <=> (In(L, m, t) \/ (m = l /\ t = x))

Popped(L, M, l, x) ==
  /\ Only(L, M, l)
  /\ x \in Threads
  /\ In(L, l, x)
  /\ \A m \in ListNames, t \in Threads :
       In(M, m, t) <=> (In(L, m, t) /\ t # x)

Moved(L, M, a, b) ==
  /\ M \in Families
  /\ Exclusive(M)
  /\ \A m \in ListNames \ {a, b} : M[m] = L[m]
  /\ \A m \in ListNames, t \in Threads :
       In(M, m, t) <=> \/ m = b /\ In(L, a, t)
                       \/ m \notin {a, b} /\ In(L, m, t)

Joined(L, M, a, b) ==
  /\ M \in Families
  /\ Exclusive(M)
  /\ M[b] = <<>>
  /\ \A m \in ListNames \ {a, b} : M[m] = L[m]
  /\ \A m \in ListNames, t \in Threads :
       In(M, m, t) <=> \/ m = a /\ (In(L, a, t) \/ In(L, b, t))
                       \/ m \notin {a, b} /\ In(L, m, t)

(* Putting a thread that is on no list in front of one of them, or at its  *)
(* end, keeps the lists exclusive.                                         *)
LEMMA PushFront ==
  ASSUME NEW L \in Families, NEW l \in ListNames, NEW x \in Threads,
         Exclusive(L), Off(L, x)
  PROVE  Pushed(L, [L EXCEPT ![l] = <<x>> \o L[l]], l, x)
<1> DEFINE s == <<x>> \o L[l]
           M == [L EXCEPT ![l] = s]
<1>1. L[l] \in Seq(Threads)
  BY DEF Families
<1>2. /\ s \in Seq(Threads)
      /\ Len(s) = Len(L[l]) + 1
      /\ s[1] = x
      /\ \A i \in 2..Len(s) : s[i] = L[l][i - 1]
  BY <1>1
<1>3. /\ M \in Families
      /\ M[l] = s
      /\ \A m \in ListNames : m # l => M[m] = L[m]
  BY <1>2 DEF Families
<1> HIDE DEF M, s
<1>4. \A m \in ListNames : \A i \in DOMAIN L[m] : L[m][i] # x
  BY DEF In, Off
<1>5. \A m \in ListNames : L[m] \in Seq(Threads) /\ DOMAIN L[m] = 1..Len(L[m]) /\ Len(L[m]) \in Nat
  BY DEF Families
<1>6. DOMAIN s = 1..Len(s)
  BY <1>2
<1>7. ASSUME NEW a \in ListNames, NEW b \in ListNames,
             NEW i \in DOMAIN M[a], NEW j \in DOMAIN M[b], M[a][i] = M[b][j]
      PROVE  a = b /\ i = j
  <2>1. CASE a = l /\ b = l
    <3>1. i \in 1..(Len(L[l]) + 1) /\ j \in 1..(Len(L[l]) + 1) /\ s[i] = s[j]
      BY <2>1, <1>7, <1>3, <1>2, <1>6
    <3>2. CASE i = 1 \/ j = 1
      BY <2>1, <3>1, <3>2, <1>2, <1>4, <1>5
    <3>3. CASE i # 1 /\ j # 1
      <4>1. i - 1 \in DOMAIN L[l] /\ j - 1 \in DOMAIN L[l] /\ L[l][i - 1] = L[l][j - 1]
        BY <3>1, <3>3, <1>2, <1>5
      <4>2. i - 1 = j - 1
        BY <4>1 DEF Exclusive
      <4>3. i \in Int /\ j \in Int
        BY <3>1
      <4> QED BY <4>2, <4>3, <2>1
    <3> QED BY <3>2, <3>3
  <2>2. CASE a = l /\ b # l
    <3>1. i \in 1..(Len(L[l]) + 1) /\ j \in DOMAIN L[b] /\ s[i] = L[b][j]
      BY <2>2, <1>7, <1>3, <1>2, <1>6
    <3>2. i # 1
      BY <3>1, <1>2, <1>4
    <3>3. i - 1 \in DOMAIN L[l] /\ L[l][i - 1] = L[b][j]
      BY <3>1, <3>2, <1>2, <1>5
    <3> QED BY <3>1, <3>3, <2>2 DEF Exclusive
  <2>3. CASE a # l /\ b = l
    <3>1. j \in 1..(Len(L[l]) + 1) /\ i \in DOMAIN L[a] /\ s[j] = L[a][i]
      BY <2>3, <1>7, <1>3, <1>2, <1>6
    <3>2. j # 1
      BY <3>1, <1>2, <1>4
    <3>3. j - 1 \in DOMAIN L[l] /\ L[l][j - 1] = L[a][i]
      BY <3>1, <3>2, <1>2, <1>5
    <3> QED BY <3>1, <3>3, <2>3 DEF Exclusive
  <2>4. CASE a # l /\ b # l
    BY <2>4, <1>7, <1>3 DEF Exclusive
  <2> QED BY <2>1, <2>2, <2>3, <2>4
<1>8. Exclusive(M)
  BY <1>7 DEF Exclusive
<1>9. ASSUME NEW t \in Threads
      PROVE  In(M, l, t) <=> (In(L, l, t) \/ t = x)
  <2>1. ASSUME NEW i \in DOMAIN s, s[i] = t, t # x PROVE In(L, l, t)
    <3>1. i - 1 \in DOMAIN L[l] /\ L[l][i - 1] = t
      BY <2>1, <1>2, <1>5, <1>6
    <3> QED BY <3>1 DEF In
  <2>2. ASSUME NEW i \in DOMAIN L[l], L[l][i] = t PROVE In(M, l, t)
    <3>1. i + 1 \in DOMAIN s /\ s[i + 1] = t
      BY <2>2, <1>2, <1>5, <1>6
    <3> QED BY <3>1, <1>3 DEF In
  <2>3. 1 \in DOMAIN s /\ s[1] = x
    BY <1>2, <1>5, <1>6
  <2> QED BY <2>1, <2>2, <2>3, <1>3 DEF In
<1>10. \A m \in ListNames, t \in Threads : m # l => (In(M, m, t) <=> In(L, m, t))
  BY <1>3 DEF In
<1>11. M[l] # <<>>
  BY <1>2, <1>3, <1>5
<1> QED
  BY <1>3, <1>8, <1>9, <1>10, <1>11 DEF M, s, Pushed, Only

LEMMA PushBack ==
  ASSUME NEW L \in Families, NEW l \in ListNames, NEW x \in Threads,
         Exclusive(L), Off(L, x)
  PROVE  Pushed(L, [L EXCEPT ![l] = Append(L[l], x)], l, x)
<1> DEFINE s == Append(L[l], x)
           M == [L EXCEPT ![l] = s]
           n == Len(L[l])
<1>1. L[l] \in Seq(Threads)
  BY DEF Families
<1>2. /\ s \in Seq(Threads)
      /\ Len(s) = n + 1
      /\ n \in Nat
      /\ s[n + 1] = x
      /\ \A i \in 1..n : s[i] = L[l][i]
      /\ DOMAIN s = 1..(n + 1)
  BY <1>1
<1>3. /\ M \in Families
      /\ M[l] = s
      /\ \A m \in ListNames : m # l => M[m] = L[m]
  BY <1>2 DEF Families
<1>5. DOMAIN L[l] = 1..n
  BY <1>1
<1> HIDE DEF M, s, n
<1>4. \A m \in ListNames : \A i \in DOMAIN L[m] : L[m][i] # x
  BY DEF In, Off
<1>6. \A i \in DOMAIN s : i = n + 1 \/ (i \in DOMAIN L[l] /\ s[i] = L[l][i])
  BY <1>2, <1>5
<1>7. ASSUME NEW a \in ListNames, NEW b \in ListNames,
             NEW i \in DOMAIN M[a], NEW j \in DOMAIN M[b], M[a][i] = M[b][j]
      PROVE  a = b /\ i = j
  <2>1. CASE a = l /\ b = l
    BY <2>1, <1>7, <1>3, <1>6, <1>4, <1>2 DEF Exclusive
  <2>2. CASE a = l /\ b # l
    BY <2>2, <1>7, <1>3, <1>6, <1>4, <1>2 DEF Exclusive
  <2>3. CASE a # l /\ b = l
    BY <2>3, <1>7, <1>3, <1>6, <1>4, <1>2 DEF Exclusive
  <2>4. CASE a # l /\ b # l
    BY <2>4, <1>7, <1>3 DEF Exclusive
  <2> QED BY <2>1, <2>2, <2>3, <2>4
<1>8. Exclusive(M)
  BY <1>7 DEF Exclusive
<1>9. ASSUME NEW t \in Threads
      PROVE  In(M, l, t) <=> (In(L, l, t) \/ t = x)
  <2>1. \A i \in DOMAIN L[l] : i \in DOMAIN s /\ s[i] = L[l][i]
    BY <1>2, <1>5
  <2>2. n + 1 \in DOMAIN s
    BY <1>2
  <2> QED BY <2>1, <2>2, <1>2, <1>3, <1>6 DEF In
<1>10. \A m \in ListNames, t \in Threads : m # l => (In(M, m, t) <=> In(L, m, t))
  BY <1>3 DEF In
<1>11. M[l] # <<>>
  BY <1>2, <1>3
<1> QED
  BY <1>3, <1>8, <1>9, <1>10, <1>11 DEF M, s, Pushed, Only

(* Removing the head of a list leaves every other thread where it was. *)
LEMMA PopHead ==
  ASSUME NEW L \in Families, NEW l \in ListNames, L[l] # <<>>, Exclusive(L)
  PROVE  Popped(L, [L EXCEPT ![l] = Tail(L[l])], l, Head(L[l]))
<1> DEFINE s == Tail(L[l])
           M == [L EXCEPT ![l] = s]
           n == Len(L[l])
           x == Head(L[l])
<1>1. L[l] \in Seq(Threads)
  BY DEF Families
<1>2. /\ s \in Seq(Threads)
      /\ n \in Nat \ {0}
      /\ DOMAIN L[l] = 1..n
      /\ DOMAIN s = 1..(n - 1)
      /\ \A i \in 1..(n - 1) : s[i] = L[l][i + 1]
      /\ x = L[l][1]
      /\ x \in Threads
  BY <1>1
<1>3. /\ M \in Families
      /\ M[l] = s
      /\ \A m \in ListNames : m # l => M[m] = L[m]
  BY <1>2 DEF Families
<1> HIDE DEF M, s, n, x
<1>4. \A i \in DOMAIN s : i \in Int /\ i + 1 \in DOMAIN L[l] /\ s[i] = L[l][i + 1]
  BY <1>2
<1>5. ASSUME NEW a \in ListNames, NEW b \in ListNames,
             NEW i \in DOMAIN M[a], NEW j \in DOMAIN M[b], M[a][i] = M[b][j]
      PROVE  a = b /\ i = j
  <2>1. CASE a = l /\ b = l
    <3>1. /\ i \in Int /\ i + 1 \in DOMAIN L[l] /\ s[i] = L[l][i + 1]
          /\ j \in Int /\ j + 1 \in DOMAIN L[l] /\ s[j] = L[l][j + 1]
          /\ s[i] = s[j]
      BY <2>1, <1>5, <1>3, <1>4
    <3>2. \A p, q \in DOMAIN L[l] : L[l][p] = L[l][q] => p = q
      BY DEF Exclusive
    <3>3. L[l][i + 1] = L[l][j + 1]
      BY <3>1
    <3>4. i + 1 = j + 1
      BY <3>1, <3>2, <3>3, Zenon
    <3> QED BY <3>1, <3>4, <2>1
  <2>2. CASE a = l /\ b # l
    BY <2>2, <1>5, <1>3, <1>4 DEF Exclusive
  <2>3. CASE a # l /\ b = l
    BY <2>3, <1>5, <1>3, <1>4 DEF Exclusive
  <2>4. CASE a # l /\ b # l
    BY <2>4, <1>5, <1>3 DEF Exclusive
  <2> QED BY <2>1, <2>2, <2>3, <2>4
<1>6. Exclusive(M)
  BY <1>5 DEF Exclusive
<1>7. 1 \in DOMAIN L[l] /\ L[l][1] = x
  BY <1>2
<1>8. ASSUME NEW t \in Threads
      PROVE  In(M, l, t) <=> (In(L, l, t) /\ t # x)
  <2>1. ASSUME NEW i \in DOMAIN s, s[i] = t PROVE In(L, l, t) /\ t # x
    <3>1. i \in Int /\ i + 1 \in DOMAIN L[l] /\ L[l][i + 1] = t /\ i + 1 # 1
      BY <2>1, <1>4, <1>2
    <3> QED BY <3>1, <1>7 DEF In, Exclusive
  <2>2. ASSUME NEW i \in DOMAIN L[l], L[l][i] = t, t # x PROVE In(M, l, t)
    <3>1. i - 1 \in DOMAIN s /\ s[i - 1] = t
      BY <2>2, <1>2
    <3> QED BY <3>1, <1>3 DEF In
  <2> QED BY <2>1, <2>2, <1>3 DEF In
<1>9. ASSUME NEW m \in ListNames, NEW t \in Threads, m # l
      PROVE  In(M, m, t) <=> (In(L, m, t) /\ t # x)
  <2>1. In(L, m, t) => t # x
    BY <1>7, <1>9 DEF In, Exclusive
  <2> QED BY <2>1, <1>3, <1>9 DEF In
<1>10. In(L, l, x)
  BY <1>7 DEF In
<1> QED
  BY <1>2, <1>3, <1>6, <1>8, <1>9, <1>10 DEF M, s, x, Popped, Only

(* Moving a whole list to an empty one. *)
LEMMA TakeList ==
  ASSUME NEW L \in Families, NEW a \in ListNames, NEW b \in ListNames, a # b,
         L[b] = <<>>, Exclusive(L)
  PROVE  Moved(L, [L EXCEPT ![b] = L[a], ![a] = <<>>], a, b)
<1> DEFINE M == [L EXCEPT ![b] = L[a], ![a] = <<>>]
<1>1. /\ M \in Families
      /\ M[b] = L[a]
      /\ M[a] = <<>>
      /\ \A m \in ListNames \ {a, b} : M[m] = L[m]
  BY DEF Families
<1> HIDE DEF M
<1>2. DOMAIN <<>> = {}
  OBVIOUS
<1>3. Exclusive(M)
  BY <1>1, <1>2 DEF Exclusive
<1>4. \A m \in ListNames, t \in Threads :
        In(M, m, t) <=> \/ m = b /\ In(L, a, t)
                        \/ m \notin {a, b} /\ In(L, m, t)
  BY <1>1, <1>2 DEF In
<1> QED
  BY <1>1, <1>3, <1>4 DEF M, Moved

(* Moving a whole list to the end of another one. *)
LEMMA ConcatList ==
  ASSUME NEW L \in Families, NEW a \in ListNames, NEW b \in ListNames, a # b,
         Exclusive(L)
  PROVE  Joined(L, [L EXCEPT ![a] = L[a] \o L[b], ![b] = <<>>], a, b)
<1> DEFINE s == L[a] \o L[b]
           M == [L EXCEPT ![a] = s, ![b] = <<>>]
           n == Len(L[a])
           k == Len(L[b])
<1>1. L[a] \in Seq(Threads) /\ L[b] \in Seq(Threads)
  BY DEF Families
<1>2. /\ s \in Seq(Threads)
      /\ n \in Nat /\ k \in Nat
      /\ DOMAIN L[a] = 1..n /\ DOMAIN L[b] = 1..k
      /\ DOMAIN s = 1..(n + k)
      /\ \A i \in 1..(n + k) : s[i] = IF i <= n THEN L[a][i] ELSE L[b][i - n]
  <2>1. /\ n \in Nat /\ k \in Nat
        /\ DOMAIN L[a] = 1..n /\ DOMAIN L[b] = 1..k
    BY <1>1
  <2>2. s \in Seq(Threads) /\ Len(s) = n + k
    BY <1>1, ConcatProperties
  <2>3. DOMAIN s = 1..(n + k)
    BY <2>2
  <2>4. \A i \in 1..(n + k) : s[i] = IF i <= n THEN L[a][i] ELSE L[b][i - n]
    BY <1>1, <2>2, ConcatProperties
  <2> QED BY <2>1, <2>2, <2>3, <2>4
<1>3. /\ M \in Families
      /\ M[a] = s
      /\ M[b] = <<>>
      /\ \A m \in ListNames \ {a, b} : M[m] = L[m]
  <2>1. s \in Seq(Threads) /\ <<>> \in Seq(Threads)
    BY <1>2
  <2> HIDE DEF s
  <2> QED BY <2>1 DEF Families
<1>4. DOMAIN <<>> = {}
  OBVIOUS
<1> HIDE DEF M, s, n, k
<1>5. \A i \in DOMAIN s :
        \/ i <= n /\ i \in DOMAIN L[a] /\ s[i] = L[a][i]
        \/ i > n /\ i - n \in DOMAIN L[b] /\ s[i] = L[b][i - n]
  BY <1>2
<1>6. \A i \in DOMAIN s : i \in Int
  BY <1>2
<1>7. \A p \in DOMAIN L[a], q \in DOMAIN L[b] : L[a][p] # L[b][q]
  BY DEF Exclusive
<1>8. \A p, q \in DOMAIN L[a] : L[a][p] = L[a][q] => p = q
  BY DEF Exclusive
<1>9. \A p, q \in DOMAIN L[b] : L[b][p] = L[b][q] => p = q
  BY DEF Exclusive
<1>10. ASSUME NEW i \in DOMAIN s, NEW j \in DOMAIN s, s[i] = s[j] PROVE i = j
  <2>1. CASE i <= n /\ j <= n
    BY <2>1, <1>10, <1>5, <1>6, <1>8, <1>2
  <2>2. CASE i > n /\ j > n
    <3>1. i - n \in DOMAIN L[b] /\ j - n \in DOMAIN L[b] /\ L[b][i - n] = L[b][j - n]
      BY <2>2, <1>10, <1>5, <1>6, <1>2
    <3>2. i - n = j - n
      BY <3>1, <1>9, Zenon
    <3> QED BY <3>2, <1>6, <1>2
  <2>3. CASE (i <= n /\ j > n) \/ (i > n /\ j <= n)
    <3>1. \A p \in DOMAIN s, q \in DOMAIN s : p <= n /\ q > n => s[p] # s[q]
      <4> SUFFICES ASSUME NEW p \in DOMAIN s, NEW q \in DOMAIN s, p <= n, q > n
                   PROVE  s[p] # s[q]
        OBVIOUS
      <4>1. p \in DOMAIN L[a] /\ s[p] = L[a][p]
        BY <1>5, <1>6, <1>2
      <4>2. q - n \in DOMAIN L[b] /\ s[q] = L[b][q - n]
        BY <1>5, <1>6, <1>2
      <4>3. L[a][p] # L[b][q - n]
        BY <4>1, <4>2, <1>7, Zenon
      <4> QED BY <4>1, <4>2, <4>3
    <3> QED BY <3>1, <2>3, <1>10
  <2> QED BY <2>1, <2>2, <2>3, <1>6, <1>2
<1>11. ASSUME NEW m \in ListNames \ {a, b}, NEW i \in DOMAIN s, NEW j \in DOMAIN L[m]
       PROVE  s[i] # L[m][j]
  BY <1>5 DEF Exclusive
<1>12. Exclusive(M)
  <2> SUFFICES ASSUME NEW c \in ListNames, NEW d \in ListNames,
                      NEW i \in DOMAIN M[c], NEW j \in DOMAIN M[d], M[c][i] = M[d][j]
               PROVE  c = d /\ i = j
    BY DEF Exclusive
  <2>1. c # b /\ d # b
    BY <1>3, <1>4
  <2>2. CASE c = a /\ d = a
    BY <2>2, <1>3, <1>10
  <2>3. CASE c # a /\ d # a
    BY <2>1, <2>3, <1>3 DEF Exclusive
  <2>4. CASE c = a /\ d # a
    BY <2>1, <2>4, <1>3, <1>11
  <2>5. CASE c # a /\ d = a
    BY <2>1, <2>5, <1>3, <1>11
  <2> QED BY <2>2, <2>3, <2>4, <2>5
<1>13. ASSUME NEW t \in Threads
       PROVE  In(M, a, t) <=> In(L, a, t) \/ In(L, b, t)
  <2>1. \A i \in DOMAIN L[a] : i \in DOMAIN s /\ s[i] = L[a][i]
    BY <1>2
  <2>2. \A i \in DOMAIN L[b] : i + n \in DOMAIN s /\ s[i + n] = L[b][i]
    BY <1>2
  <2> QED BY <2>1, <2>2, <1>3, <1>5 DEF In
<1>14. \A m \in ListNames, t \in Threads :
        In(M, m, t) <=> \/ m = a /\ (In(L, a, t) \/ In(L, b, t))
                        \/ m \notin {a, b} /\ In(L, m, t)
  <2>1. ASSUME NEW t \in Threads PROVE ~In(M, b, t)
    BY <1>3, <1>4 DEF In
  <2>2. \A m \in ListNames \ {a, b}, t \in Threads : In(M, m, t) <=> In(L, m, t)
    BY <1>3 DEF In
  <2> QED BY <2>1, <2>2, <1>13
<1> QED
  BY <1>3, <1>12, <1>14 DEF M, s, Joined

-----------------------------------------------------------------------------
(***************************************************************************)
(* The inductive invariant.  OneList and ListsMatchStates do not carry     *)
(* themselves: an insertion is safe only because of who performs it.       *)
(***************************************************************************)

(* Who has the processor, and what that says about the thread run last. *)
Processor ==
  /\ cur \in Threads =>
       /\ spc = "requeue" /\ ran = cur
       /\ state[cur] = "COND_WAIT" => pc[cur] = "wait_yield"
  /\ cur = Cleaner => spc = "pick"
  /\ spc = "requeue" =>
       /\ state[ran] \in {"RUNNING", "COND_WAIT", "TERMINATED", "DETACHED"}
       /\ \A l \in ListNames : ~On(l, ran)

(* A thread that is over is in no operation but TerminateThread. *)
Ending == {"term_return", "term_signal", "term_yield"}

Finished ==
  \A t \in Threads :
    /\ state[t] \in {"TERMINATED", "DETACHED"} => pc[t] \in Ending
    /\ state[t] = "INVALID" => pc[t] \in Ending \cup {"user"}

(* The lists that are local variables are empty outside their loops. *)
LocalLists ==
  /\ spc # "scan" => list["scan"] = <<>> /\ list["resume"] = <<>>
  /\ cpc \notin {"clean_unlock", "clean_destroy"} => list["doomed"] = <<>>

(* Who holds the pool's lock; its holder finds a slot in the pool. *)
PoolLock ==
  /\ cpc # "clean_try" => lock["pool"] = Cleaner
  /\ \A t \in Threads : pc[t] = "create_pop" => lock["pool"] = t /\ list["pool"] # <<>>

(* The operand of an operation is a thread. *)
Operands ==
  \A t \in Threads :
    /\ pc[t] \in {"wait_cond", "wait_block", "wait_yield"} => arg[t] \in Threads \cup Conds
    /\ pc[t] \in {"wait_read", "detach", "detach_check", "detach_mark", "detach_push",
                  "create_queue"} => arg[t] \in Threads

(* A thread that is being created is known to its creator alone. *)
Creators ==
  \A t \in Threads :
    pc[t] = "create_queue" =>
      /\ state[arg[t]] = "CREATED"
      /\ \A u \in Threads : pc[u] = "create_queue" /\ arg[u] = arg[t] => u = t

(* The flag lets one DetachThread through, and what that one found to be   *)
(* TERMINATED stays so until it is marked, and off the lists until queued. *)
Detaching == {"detach_check", "detach_mark", "detach_push"}

Detachers ==
  \A t \in Threads :
    /\ pc[t] \in Detaching =>
         /\ detached[arg[t]]
         /\ \A u \in Threads : pc[u] \in Detaching /\ arg[u] = arg[t] => u = t
    /\ pc[t] = "detach_check" => cur = t
    /\ pc[t] = "detach_mark" =>
         state[arg[t]] = "TERMINATED" /\ ~(spc = "requeue" /\ ran = arg[t])
    /\ pc[t] = "detach_push" =>
         /\ state[arg[t]] = "DETACHED" /\ ~(spc = "requeue" /\ ran = arg[t])
         /\ \A l \in ListNames : ~On(l, arg[t])

(* ListsMatchStates, list by list. *)
Matches ==
  \A t \in Threads :
    /\ On("ready", t) => state[t] = "READY"
    /\ On("waiting", t) \/ On("scan", t) \/ On("resume", t) => state[t] = "COND_WAIT"
    /\ On("deletes", t) \/ On("doomed", t) => state[t] = "DETACHED"
    /\ On("pool", t) => state[t] = "INVALID"
    /\ ~InTransit(t) =>
         /\ state[t] = "READY" => On("ready", t)
         /\ state[t] = "COND_WAIT" => On("waiting", t) \/ On("scan", t) \/ On("resume", t)
         /\ state[t] = "DETACHED" => On("deletes", t) \/ On("doomed", t)
         /\ state[t] = "INVALID" => On("pool", t)

IInv ==
  /\ TypeOK
  /\ OneList
  /\ Matches
  /\ Processor
  /\ Finished
  /\ LocalLists
  /\ PoolLock
  /\ Operands
  /\ Creators
  /\ Detachers

(* The two forms say the same. *)
LEMMA MatchTable == ASSUME TypeOK, Matches PROVE ListsMatchStates
<1> SUFFICES ASSUME NEW t \in Threads
             PROVE  /\ \A l \in ListNames : On(l, t) => l \in ListsOf(state[t])
                    /\ ListsOf(state[t]) # {} /\ ~InTransit(t)
                         => \E l \in ListsOf(state[t]) : On(l, t)
  BY DEF ListsMatchStates
<1>1. state[t] \in States
  BY DEF TypeOK
<1>2. /\ \A l \in ListNames : On(l, t) => l \in ListsOf(state[t])
  BY <1>1 DEF Matches, ListNames, ListsOf, States
<1>3. ASSUME ListsOf(state[t]) # {}, ~InTransit(t)
      PROVE  \E l \in ListsOf(state[t]) : On(l, t)
  BY <1>1, <1>3 DEF Matches, ListsOf, States
<1> QED BY <1>2, <1>3

(* The lists as a value the lemmas above speak of. *)
LEMMA ListFamily == ASSUME TypeOK, OneList PROVE list \in Families /\ Exclusive(list)
BY DEF TypeOK, OneList, Families

LEMMA CreateThreadStep ==
  ASSUME IInv, NEW t \in Threads, CreateThread(t)
  PROVE  IInv'
<1> USE ThreadsAssumption DEF CreateThread, Running, Goto, Free
<1> USE DEF IInv, TypeOK, On
<1>1. TypeOK'
  BY DEF ThreadPoints, Operands, States
<1>2. OneList' /\ LocalLists'
  BY DEF OneList, LocalLists
<1>3. Matches'
  BY DEF Matches, InTransit, Processor, Finished, Ending, Operands, Detachers, Detaching
<1>4. Processor' /\ Finished'
  BY DEF Processor, Finished, Ending, Operands, Detachers
<1>5. PoolLock'
  BY DEF PoolLock
<1>6. Operands'
  BY DEF Operands
<1>7. Creators'
  BY DEF Creators, Operands, Processor, Finished, Ending
<1>8. Detachers'
  BY DEF Detachers, Detaching, Operands, Processor, Finished, Ending, OneList
<1> QED BY <1>1, <1>2, <1>3, <1>4, <1>5, <1>6, <1>7, <1>8 DEF IInv

LEMMA CreateUnlockStep ==
  ASSUME IInv, NEW t \in Threads, CreateUnlock(t)
  PROVE  IInv'
<1> USE ThreadsAssumption DEF CreateUnlock, Running, Goto
<1> USE DEF IInv, TypeOK, On
<1>1. TypeOK'
  BY DEF ThreadPoints, Operands, States
<1>2. OneList' /\ LocalLists'
  BY DEF OneList, LocalLists
<1>3. Matches'
  BY DEF Matches, InTransit, Processor, Finished, Ending, Operands, Detachers, Detaching
<1>4. Processor' /\ Finished'
  BY DEF Processor, Finished, Ending, Operands, Detachers
<1>5. PoolLock'
  BY DEF PoolLock
<1>6. Operands'
  BY DEF Operands
<1>7. Creators'
  BY DEF Creators, Operands, Processor, Finished, Ending
<1>8. Detachers'
  BY DEF Detachers, Detaching, Operands, Processor, Finished, Ending, OneList
<1> QED BY <1>1, <1>2, <1>3, <1>4, <1>5, <1>6, <1>7, <1>8 DEF IInv

LEMMA WaitThreadStep ==
  ASSUME IInv, NEW t \in Threads, NEW u \in Threads, WaitThread(t, u)
  PROVE  IInv'
<1> USE ThreadsAssumption DEF WaitThread, Running, Goto
<1> USE DEF IInv, TypeOK, On
<1>1. TypeOK'
  BY DEF ThreadPoints, Operands, States
<1>2. OneList' /\ LocalLists'
  BY DEF OneList, LocalLists
<1>3. Matches'
  BY DEF Matches, InTransit, Processor, Finished, Ending, Operands, Detachers, Detaching
<1>4. Processor' /\ Finished'
  BY DEF Processor, Finished, Ending, Operands, Detachers
<1>5. PoolLock'
  BY DEF PoolLock
<1>6. Operands'
  BY DEF Operands
<1>7. Creators'
  BY DEF Creators, Operands, Processor, Finished, Ending
<1>8. Detachers'
  BY DEF Detachers, Detaching, Operands, Processor, Finished, Ending, OneList
<1> QED BY <1>1, <1>2, <1>3, <1>4, <1>5, <1>6, <1>7, <1>8 DEF IInv

LEMMA WaitConditionStep ==
  ASSUME IInv, NEW t \in Threads, NEW c \in Conds, WaitCondition(t, c)
  PROVE  IInv'
<1> USE ThreadsAssumption DEF WaitCondition, Running, Goto
<1> USE DEF IInv, TypeOK, On
<1>1. TypeOK'
  BY DEF ThreadPoints, Operands, States
<1>2. OneList' /\ LocalLists'
  BY DEF OneList, LocalLists
<1>3. Matches'
  BY DEF Matches, InTransit, Processor, Finished, Ending, Operands, Detachers, Detaching
<1>4. Processor' /\ Finished'
  BY DEF Processor, Finished, Ending, Operands, Detachers
<1>5. PoolLock'
  BY DEF PoolLock
<1>6. Operands'
  BY DEF Operands
<1>7. Creators'
  BY DEF Creators, Operands, Processor, Finished, Ending
<1>8. Detachers'
  BY DEF Detachers, Detaching, Operands, Processor, Finished, Ending, OneList
<1> QED BY <1>1, <1>2, <1>3, <1>4, <1>5, <1>6, <1>7, <1>8 DEF IInv

LEMMA WaitTestStep ==
  ASSUME IInv, NEW t \in Threads, WaitTest(t)
  PROVE  IInv'
<1> USE ThreadsAssumption DEF WaitTest, Running, Goto, AfterWait
<1> USE DEF IInv, TypeOK, On
<1>1. TypeOK'
  BY DEF ThreadPoints, Operands, States
<1>2. OneList' /\ LocalLists'
  BY DEF OneList, LocalLists
<1>3. Matches'
  BY DEF Matches, InTransit, Processor, Finished, Ending, Operands, Detachers, Detaching
<1>4. Processor' /\ Finished'
  BY DEF Processor, Finished, Ending, Operands, Detachers
<1>5. PoolLock'
  BY DEF PoolLock
<1>6. Operands'
  BY DEF Operands
<1>7. Creators'
  BY DEF Creators, Operands, Processor, Finished, Ending
<1>8. Detachers'
  BY DEF Detachers, Detaching, Operands, Processor, Finished, Ending, OneList
<1> QED BY <1>1, <1>2, <1>3, <1>4, <1>5, <1>6, <1>7, <1>8 DEF IInv

LEMMA WaitYieldStep ==
  ASSUME IInv, NEW t \in Threads, WaitYield(t)
  PROVE  IInv'
<1> USE ThreadsAssumption DEF WaitYield, Running, Goto, SwitchToScheduler, AfterWait
<1> USE DEF IInv, TypeOK, On
<1>1. TypeOK'
  BY DEF ThreadPoints, Operands, States
<1>2. OneList' /\ LocalLists'
  BY DEF OneList, LocalLists
<1>3. Matches'
  BY DEF Matches, InTransit, Processor, Finished, Ending, Operands, Detachers, Detaching
<1>4. Processor' /\ Finished'
  BY DEF Processor, Finished, Ending, Operands, Detachers
<1>5. PoolLock'
  BY DEF PoolLock
<1>6. Operands'
  BY DEF Operands
<1>7. Creators'
  BY DEF Creators, Operands, Processor, Finished, Ending
<1>8. Detachers'
  BY DEF Detachers, Detaching, Operands, Processor, Finished, Ending, OneList
<1> QED BY <1>1, <1>2, <1>3, <1>4, <1>5, <1>6, <1>7, <1>8 DEF IInv

LEMMA WaitReadStep ==
  ASSUME IInv, NEW t \in Threads, WaitRead(t)
  PROVE  IInv'
<1> USE ThreadsAssumption DEF WaitRead, Running, Goto
<1> USE DEF IInv, TypeOK, On
<1>1. TypeOK'
  BY DEF ThreadPoints, Operands, States
<1>2. OneList' /\ LocalLists'
  BY DEF OneList, LocalLists
<1>3. Matches'
  BY DEF Matches, InTransit, Processor, Finished, Ending, Operands, Detachers, Detaching
<1>4. Processor' /\ Finished'
  BY DEF Processor, Finished, Ending, Operands, Detachers
<1>5. PoolLock'
  BY DEF PoolLock
<1>6. Operands'
  BY DEF Operands
<1>7. Creators'
  BY DEF Creators, Operands, Processor, Finished, Ending
<1>8. Detachers'
  BY DEF Detachers, Detaching, Operands, Processor, Finished, Ending, OneList
<1> QED BY <1>1, <1>2, <1>3, <1>4, <1>5, <1>6, <1>7, <1>8 DEF IInv

LEMMA DetachThreadStep ==
  ASSUME IInv, NEW t \in Threads, NEW u \in Threads, DetachThread(t, u)
  PROVE  IInv'
<1> USE ThreadsAssumption DEF DetachThread, Running, Goto
<1> USE DEF IInv, TypeOK, On
<1>1. TypeOK'
  BY DEF ThreadPoints, Operands, States
<1>2. OneList' /\ LocalLists'
  BY DEF OneList, LocalLists
<1>3. Matches'
  BY DEF Matches, InTransit, Processor, Finished, Ending, Operands, Detachers, Detaching
<1>4. Processor' /\ Finished'
  BY DEF Processor, Finished, Ending, Operands, Detachers
<1>5. PoolLock'
  BY DEF PoolLock
<1>6. Operands'
  BY DEF Operands
<1>7. Creators'
  BY DEF Creators, Operands, Processor, Finished, Ending
<1>8. Detachers'
  BY DEF Detachers, Detaching, Operands, Processor, Finished, Ending, OneList
<1> QED BY <1>1, <1>2, <1>3, <1>4, <1>5, <1>6, <1>7, <1>8 DEF IInv

LEMMA DetachFlagStep ==
  ASSUME IInv, NEW t \in Threads, DetachFlag(t)
  PROVE  IInv'
<1> USE ThreadsAssumption DEF DetachFlag, Running, Goto, DropHandle
<1> USE DEF IInv, TypeOK, On
<1>0. arg[t] \in Threads
  BY DEF Operands
<1>1. TypeOK'
  <2>1. CASE detached[arg[t]]
    BY <1>0, <2>1 DEF ThreadPoints
  <2>2. CASE ~(detached[arg[t]])
    BY <1>0, <2>2 DEF ThreadPoints
  <2> QED BY <2>1, <2>2
<1>2. OneList' /\ LocalLists'
  BY DEF OneList, LocalLists
<1>3. Matches'
  BY DEF Matches, InTransit, Processor, Finished, Ending, Operands, Detachers, Detaching
<1>4. Processor' /\ Finished'
  BY DEF Processor, Finished, Ending, Operands, Detachers
<1>5. PoolLock'
  BY DEF PoolLock
<1>6. Operands'
  BY DEF Operands
<1>7. Creators'
  BY DEF Creators, Operands, Processor, Finished, Ending
<1>8. Detachers'
  <2>1. CASE detached[arg[t]]
    BY <1>0, <2>1 DEF Detachers, Detaching
  <2>2. CASE ~detached[arg[t]]
    <3>1. \A u \in Threads : pc[u] \in Detaching => arg[u] # arg[t]
      BY <2>2 DEF Detachers
    <3> QED BY <1>0, <2>2, <3>1 DEF Detachers, Detaching, Operands
  <2> QED BY <2>1, <2>2
<1> QED BY <1>1, <1>2, <1>3, <1>4, <1>5, <1>6, <1>7, <1>8 DEF IInv

LEMMA DetachCheckStep ==
  ASSUME IInv, NEW t \in Threads, DetachCheck(t)
  PROVE  IInv'
<1> USE ThreadsAssumption DEF DetachCheck, Running, Goto, DropHandle
<1> USE DEF IInv, TypeOK, On
<1>0. arg[t] \in Threads
  BY DEF Operands
<1>1. TypeOK'
  <2>1. CASE state[arg[t]] = "TERMINATED"
    BY <1>0, <2>1 DEF ThreadPoints
  <2>2. CASE ~(state[arg[t]] = "TERMINATED")
    BY <1>0, <2>2 DEF ThreadPoints
  <2> QED BY <2>1, <2>2
<1>2. OneList' /\ LocalLists'
  BY DEF OneList, LocalLists
<1>3. Matches'
  BY DEF Matches, InTransit, Processor, Finished, Ending, Operands, Detachers, Detaching
<1>4. Processor' /\ Finished'
  BY DEF Processor, Finished, Ending, Operands, Detachers
<1>5. PoolLock'
  BY DEF PoolLock
<1>6. Operands'
  BY DEF Operands
<1>7. Creators'
  BY DEF Creators, Operands, Processor, Finished, Ending
<1>8. Detachers'
  BY DEF Detachers, Detaching, Operands, Processor, Finished, Ending, OneList
<1> QED BY <1>1, <1>2, <1>3, <1>4, <1>5, <1>6, <1>7, <1>8 DEF IInv

LEMMA DetachUnlockStep ==
  ASSUME IInv, NEW t \in Threads, DetachUnlock(t)
  PROVE  IInv'
<1> USE ThreadsAssumption DEF DetachUnlock, Running, Goto, DropHandle
<1> USE DEF IInv, TypeOK, On
<1>1. TypeOK'
  BY DEF ThreadPoints, Operands, States
<1>2. OneList' /\ LocalLists'
  BY DEF OneList, LocalLists
<1>3. Matches'
  BY DEF Matches, InTransit, Processor, Finished, Ending, Operands, Detachers, Detaching
<1>4. Processor' /\ Finished'
  BY DEF Processor, Finished, Ending, Operands, Detachers
<1>5. PoolLock'
  BY DEF PoolLock
<1>6. Operands'
  BY DEF Operands
<1>7. Creators'
  BY DEF Creators, Operands, Processor, Finished, Ending
<1>8. Detachers'
  BY DEF Detachers, Detaching, Operands, Processor, Finished, Ending, OneList
<1> QED BY <1>1, <1>2, <1>3, <1>4, <1>5, <1>6, <1>7, <1>8 DEF IInv

LEMMA TerminateThreadStep ==
  ASSUME IInv, NEW t \in Threads, TerminateThread(t)
  PROVE  IInv'
<1> USE ThreadsAssumption DEF TerminateThread, Running, Goto
<1> USE DEF IInv, TypeOK, On
<1>1. TypeOK'
  BY DEF ThreadPoints, Operands, States
<1>2. OneList' /\ LocalLists'
  BY DEF OneList, LocalLists
<1>3. Matches'
  BY DEF Matches, InTransit, Processor, Finished, Ending, Operands, Detachers, Detaching
<1>4. Processor' /\ Finished'
  BY DEF Processor, Finished, Ending, Operands, Detachers
<1>5. PoolLock'
  BY DEF PoolLock
<1>6. Operands'
  BY DEF Operands
<1>7. Creators'
  BY DEF Creators, Operands, Processor, Finished, Ending
<1>8. Detachers'
  BY DEF Detachers, Detaching, Operands, Processor, Finished, Ending, OneList
<1> QED BY <1>1, <1>2, <1>3, <1>4, <1>5, <1>6, <1>7, <1>8 DEF IInv

LEMMA TermReturnStep ==
  ASSUME IInv, NEW t \in Threads, TermReturn(t)
  PROVE  IInv'
<1> USE ThreadsAssumption DEF TermReturn, Running, Goto
<1> USE DEF IInv, TypeOK, On
<1>1. TypeOK'
  BY DEF ThreadPoints, Operands, States
<1>2. OneList' /\ LocalLists'
  BY DEF OneList, LocalLists
<1>3. Matches'
  BY DEF Matches, InTransit, Processor, Finished, Ending, Operands, Detachers, Detaching
<1>4. Processor' /\ Finished'
  BY DEF Processor, Finished, Ending, Operands, Detachers
<1>5. PoolLock'
  BY DEF PoolLock
<1>6. Operands'
  BY DEF Operands
<1>7. Creators'
  BY DEF Creators, Operands, Processor, Finished, Ending
<1>8. Detachers'
  BY DEF Detachers, Detaching, Operands, Processor, Finished, Ending, OneList
<1> QED BY <1>1, <1>2, <1>3, <1>4, <1>5, <1>6, <1>7, <1>8 DEF IInv

LEMMA TermSignalStep ==
  ASSUME IInv, NEW t \in Threads, TermSignal(t)
  PROVE  IInv'
<1> USE ThreadsAssumption DEF TermSignal, Running, Goto
<1> USE DEF IInv, TypeOK, On
<1>1. TypeOK'
  BY DEF ThreadPoints, Operands, States
<1>2. OneList' /\ LocalLists'
  BY DEF OneList, LocalLists
<1>3. Matches'
  BY DEF Matches, InTransit, Processor, Finished, Ending, Operands, Detachers, Detaching
<1>4. Processor' /\ Finished'
  BY DEF Processor, Finished, Ending, Operands, Detachers
<1>5. PoolLock'
  BY DEF PoolLock
<1>6. Operands'
  BY DEF Operands
<1>7. Creators'
  BY DEF Creators, Operands, Processor, Finished, Ending
<1>8. Detachers'
  BY DEF Detachers, Detaching, Operands, Processor, Finished, Ending, OneList
<1> QED BY <1>1, <1>2, <1>3, <1>4, <1>5, <1>6, <1>7, <1>8 DEF IInv

LEMMA TermYieldStep ==
  ASSUME IInv, NEW t \in Threads, TermYield(t)
  PROVE  IInv'
<1> USE ThreadsAssumption DEF TermYield, Running, Goto, SwitchToScheduler
<1> USE DEF IInv, TypeOK, On
<1>1. TypeOK'
  BY DEF ThreadPoints, Operands, States
<1>2. OneList' /\ LocalLists'
  BY DEF OneList, LocalLists
<1>3. Matches'
  BY DEF Matches, InTransit, Processor, Finished, Ending, Operands, Detachers, Detaching
<1>4. Processor' /\ Finished'
  BY DEF Processor, Finished, Ending, Operands, Detachers
<1>5. PoolLock'
  BY DEF PoolLock
<1>6. Operands'
  BY DEF Operands
<1>7. Creators'
  BY DEF Creators, Operands, Processor, Finished, Ending
<1>8. Detachers'
  BY DEF Detachers, Detaching, Operands, Processor, Finished, Ending, OneList
<1> QED BY <1>1, <1>2, <1>3, <1>4, <1>5, <1>6, <1>7, <1>8 DEF IInv

LEMMA YieldThreadStep ==
  ASSUME IInv, NEW t \in Threads, YieldThread(t)
  PROVE  IInv'
<1> USE ThreadsAssumption DEF YieldThread, Running, Goto, SwitchToScheduler
<1> USE DEF IInv, TypeOK, On
<1>1. TypeOK'
  BY DEF ThreadPoints, Operands, States
<1>2. OneList' /\ LocalLists'
  BY DEF OneList, LocalLists
<1>3. Matches'
  BY DEF Matches, InTransit, Processor, Finished, Ending, Operands, Detachers, Detaching
<1>4. Processor' /\ Finished'
  BY DEF Processor, Finished, Ending, Operands, Detachers
<1>5. PoolLock'
  BY DEF PoolLock
<1>6. Operands'
  BY DEF Operands
<1>7. Creators'
  BY DEF Creators, Operands, Processor, Finished, Ending
<1>8. Detachers'
  BY DEF Detachers, Detaching, Operands, Processor, Finished, Ending, OneList
<1> QED BY <1>1, <1>2, <1>3, <1>4, <1>5, <1>6, <1>7, <1>8 DEF IInv

LEMMA ClearConditionStep ==
  ASSUME IInv, NEW t \in Threads, NEW c \in Conds, ClearCondition(t, c)
  PROVE  IInv'
<1> USE ThreadsAssumption DEF ClearCondition, Running, Goto
<1> USE DEF IInv, TypeOK, On
<1>1. TypeOK'
  BY DEF ThreadPoints, Operands, States
<1>2. OneList' /\ LocalLists'
  BY DEF OneList, LocalLists
<1>3. Matches'
  BY DEF Matches, InTransit, Processor, Finished, Ending, Operands, Detachers, Detaching
<1>4. Processor' /\ Finished'
  BY DEF Processor, Finished, Ending, Operands, Detachers
<1>5. PoolLock'
  BY DEF PoolLock
<1>6. Operands'
  BY DEF Operands
<1>7. Creators'
  BY DEF Creators, Operands, Processor, Finished, Ending
<1>8. Detachers'
  BY DEF Detachers, Detaching, Operands, Processor, Finished, Ending, OneList
<1> QED BY <1>1, <1>2, <1>3, <1>4, <1>5, <1>6, <1>7, <1>8 DEF IInv

LEMMA WaitBlockStep ==
  ASSUME IInv, NEW t \in Threads, WaitBlock(t)
  PROVE  IInv'
<1> USE ThreadsAssumption DEF WaitBlock, Running, Goto
<1> USE DEF IInv, TypeOK, On
<1>1. TypeOK'
  BY DEF ThreadPoints, Operands, States
<1>2. OneList' /\ LocalLists'
  BY DEF OneList, LocalLists
<1>3. Matches'
  BY DEF Matches, InTransit, Processor, Finished, Ending, ListNames
<1>4. Processor' /\ Finished'
  BY DEF Processor, Finished, Ending, Operands, Detachers
<1>5. PoolLock'
  BY DEF PoolLock
<1>6. Operands'
  BY DEF Operands
<1>7. Creators'
  BY DEF Creators, Operands, Processor, Finished, Ending
<1>8. Detachers'
  BY DEF Detachers, Detaching, Operands, Processor, Finished, Ending, OneList
<1> QED BY <1>1, <1>2, <1>3, <1>4, <1>5, <1>6, <1>7, <1>8 DEF IInv

LEMMA DetachMarkStep ==
  ASSUME IInv, NEW t \in Threads, DetachMark(t)
  PROVE  IInv'
<1> USE ThreadsAssumption DEF DetachMark, Running, Goto
<1> USE DEF IInv, TypeOK, On
<1>0. /\ arg[t] \in Threads /\ state[arg[t]] = "TERMINATED" /\ detached[arg[t]]
      /\ ~(spc = "requeue" /\ ran = arg[t])
      /\ \A u \in Threads : pc[u] \in Detaching /\ arg[u] = arg[t] => u = t
  BY DEF Operands, Detachers, Detaching
<1>1. TypeOK'
  BY DEF ThreadPoints, Operands, States
<1>2. OneList' /\ LocalLists'
  BY DEF OneList, LocalLists
<1>3. Matches'
  BY DEF Matches, InTransit, Processor, Finished, Ending, Operands, Detachers, Detaching
<1>4. Processor' /\ Finished'
  BY DEF Processor, Finished, Ending, Operands, Detachers
<1>5. PoolLock'
  BY DEF PoolLock
<1>6. Operands'
  BY DEF Operands
<1>7. Creators'
  BY <1>0 DEF Creators, Operands
<1>8. Detachers'
  <2>1. \A l \in ListNames : ~On(l, arg[t])
    BY <1>0 DEF Matches, ListNames
  <2> QED BY <1>0, <2>1 DEF Detachers, Detaching, Operands
<1> QED BY <1>1, <1>2, <1>3, <1>4, <1>5, <1>6, <1>7, <1>8 DEF IInv

LEMMA TermDetachedStep ==
  ASSUME IInv, NEW t \in Threads, TermDetached(t)
  PROVE  IInv'
<1> USE ThreadsAssumption DEF TermDetached, Running, Goto
<1> USE DEF IInv, TypeOK, On
<1>1. TypeOK'
  BY DEF ThreadPoints, Operands, States
<1>2. OneList' /\ LocalLists'
  BY DEF OneList, LocalLists
<1>3. Matches'
  BY DEF Matches, InTransit, Processor, Finished, Ending, ListNames
<1>4. Processor' /\ Finished'
  BY DEF Processor, Finished, Ending, Operands, Detachers
<1>5. PoolLock'
  BY DEF PoolLock
<1>6. Operands'
  BY DEF Operands
<1>7. Creators'
  BY DEF Creators, Operands, Processor, Finished, Ending
<1>8. Detachers'
  BY DEF Detachers, Detaching, Operands, Processor, Finished, Ending, OneList
<1> QED BY <1>1, <1>2, <1>3, <1>4, <1>5, <1>6, <1>7, <1>8 DEF IInv

LEMMA TermMarkStep ==
  ASSUME IInv, NEW t \in Threads, TermMark(t)
  PROVE  IInv'
<1> USE ThreadsAssumption DEF TermMark, Running, Goto
<1> USE DEF IInv, TypeOK, On
<1>1. TypeOK'
  BY DEF ThreadPoints, Operands, States
<1>2. OneList' /\ LocalLists'
  BY DEF OneList, LocalLists
<1>3. Matches'
  BY DEF Matches, InTransit, Processor, Finished, Ending, ListNames
<1>4. Processor' /\ Finished'
  BY DEF Processor, Finished, Ending, Operands, Detachers
<1>5. PoolLock'
  BY DEF PoolLock
<1>6. Operands'
  BY DEF Operands
<1>7. Creators'
  BY DEF Creators, Operands, Processor, Finished, Ending
<1>8. Detachers'
  BY DEF Detachers, Detaching, Operands, Processor, Finished, Ending, OneList
<1> QED BY <1>1, <1>2, <1>3, <1>4, <1>5, <1>6, <1>7, <1>8 DEF IInv

LEMMA SignalConditionStep ==
  ASSUME IInv, NEW c \in Conds, SignalCondition(c)
  PROVE  IInv'
<1> USE ThreadsAssumption DEF SignalCondition
<1> USE DEF IInv, TypeOK, On
<1>1. TypeOK'
  BY DEF CleanerPoints
<1>2. OneList' /\ LocalLists'
  BY DEF OneList, LocalLists
<1>3. Matches'
  BY DEF Matches, InTransit
<1>4. Processor' /\ Finished'
  BY DEF Processor, Finished, Ending
<1>5. PoolLock'
  BY DEF PoolLock
<1>6. Operands' /\ Creators'
  BY DEF Operands, Creators
<1>7. Detachers'
  BY DEF Detachers, Detaching
<1> QED BY <1>1, <1>2, <1>3, <1>4, <1>5, <1>6, <1>7 DEF IInv

LEMMA CleanTryStep ==
  ASSUME IInv, CleanTry
  PROVE  IInv'
<1> USE ThreadsAssumption DEF CleanTry, SwitchToScheduler, Free
<1> USE DEF IInv, TypeOK, On
<1>1. TypeOK'
  BY DEF CleanerPoints
<1>2. OneList' /\ LocalLists'
  BY DEF OneList, LocalLists
<1>3. Matches'
  BY DEF Matches, InTransit
<1>4. Processor' /\ Finished'
  BY DEF Processor, Finished, Ending
<1>5. PoolLock'
  BY DEF PoolLock
<1>6. Operands' /\ Creators'
  BY DEF Operands, Creators
<1>7. Detachers'
  BY DEF Detachers, Detaching
<1> QED BY <1>1, <1>2, <1>3, <1>4, <1>5, <1>6, <1>7 DEF IInv

LEMMA CleanUnlockStep ==
  ASSUME IInv, CleanUnlock
  PROVE  IInv'
<1> USE ThreadsAssumption DEF CleanUnlock
<1> USE DEF IInv, TypeOK, On
<1>1. TypeOK'
  BY DEF CleanerPoints
<1>2. OneList' /\ LocalLists'
  BY DEF OneList, LocalLists
<1>3. Matches'
  BY DEF Matches, InTransit
<1>4. Processor' /\ Finished'
  BY DEF Processor, Finished, Ending
<1>5. PoolLock'
  BY DEF PoolLock
<1>6. Operands' /\ Creators'
  BY DEF Operands, Creators
<1>7. Detachers'
  BY DEF Detachers, Detaching
<1> QED BY <1>1, <1>2, <1>3, <1>4, <1>5, <1>6, <1>7 DEF IInv

LEMMA CleanDoneStep ==
  ASSUME IInv, CleanDone
  PROVE  IInv'
<1> USE ThreadsAssumption DEF CleanDone, SwitchToScheduler
<1> USE DEF IInv, TypeOK, On
<1>1. TypeOK'
  BY DEF CleanerPoints
<1>2. OneList' /\ LocalLists'
  BY DEF OneList, LocalLists
<1>3. Matches'
  BY DEF Matches, InTransit
<1>4. Processor' /\ Finished'
  BY DEF Processor, Finished, Ending
<1>5. PoolLock'
  BY DEF PoolLock
<1>6. Operands' /\ Creators'
  BY DEF Operands, Creators
<1>7. Detachers'
  BY DEF Detachers, Detaching
<1> QED BY <1>1, <1>2, <1>3, <1>4, <1>5, <1>6, <1>7 DEF IInv

LEMMA TimerStep ==
  ASSUME IInv, "detach_check" \notin TimerPoints, Timer
  PROVE  IInv'
<1> USE ThreadsAssumption DEF Timer, SwitchToScheduler
<1> USE DEF IInv, TypeOK, On
<1>1. TypeOK'
  BY DEF CleanerPoints
<1>2. OneList' /\ LocalLists'
  BY DEF OneList, LocalLists
<1>3. Matches'
  BY DEF Matches, InTransit
<1>4. Processor' /\ Finished'
  BY DEF Processor, Finished, Ending
<1>5. PoolLock'
  BY DEF PoolLock
<1>6. Operands' /\ Creators'
  BY DEF Operands, Creators
<1>7. Detachers'
  BY DEF Detachers, Detaching
<1> QED BY <1>1, <1>2, <1>3, <1>4, <1>5, <1>6, <1>7 DEF IInv

LEMMA DetachPushStep ==
  ASSUME IInv, NEW t \in Threads, DetachPush(t)
  PROVE  IInv'
<1> USE ThreadsAssumption DEF IInv
<1>0. /\ cur = t /\ spc = "requeue" /\ ran = t
      /\ arg[t] \in Threads /\ state[arg[t]] = "DETACHED" /\ arg[t] # t
      /\ \A l \in ListNames : ~In(list, l, arg[t])
      /\ pc[t] = "detach_push"
  BY DEF DetachPush, Processor, Finished, Ending, Operands, Detachers, Running, On
<1>1. /\ lock' = [lock EXCEPT !["deletes"] = t]
      /\ list' = [list EXCEPT !["deletes"] = <<arg[t]>> \o list["deletes"]]
      /\ pc' = [pc EXCEPT ![t] = "detach_unlock"]
      /\ UNCHANGED <<cur, ran, spc, cpc, arg, state, detached, cond, wait, ret, owner>>
  BY <1>0 DEF DetachPush, Queued, Goto
<1>2. Pushed(list, list', "deletes", arg[t])
  <2>1. Off(list, arg[t]) /\ "deletes" \in ListNames
    BY <1>0 DEF Off, ListNames
  <2> HIDE DEF IInv
  <2>2. list \in Families /\ Exclusive(list)
    BY ListFamily DEF IInv
  <2> QED BY <1>0, <1>1, <2>1, <2>2, PushFront
<1>2a. \A m \in ListNames, u \in Threads : On(m, u)' <=> (On(m, u) \/ (m = "deletes" /\ u = arg[t]))
  BY <1>2 DEF On, In, Pushed
<1>2b. \A u \in Threads : InTransit(u)' <=> (InTransit(u) /\ u # arg[t])
  BY <1>0, <1>1 DEF InTransit, TypeOK, Detachers, Detaching
<1>3. TypeOK' /\ OneList'
  BY <1>1, <1>2 DEF TypeOK, Families, ThreadPoints, OneList, Pushed, Only
<1>4. Matches'
  BY <1>0, <1>1, <1>2a, <1>2b DEF Matches, ListNames
<1>5. Processor' /\ Finished'
  BY <1>0, <1>1, <1>2a DEF Processor, Finished, Ending, TypeOK
<1>6. LocalLists' /\ PoolLock'
  BY <1>0, <1>1, <1>2 DEF LocalLists, PoolLock, ListNames, TypeOK, Pushed, Only
<1>7. Operands' /\ Creators'
  BY <1>0, <1>1, <1>2 DEF Operands, Creators, TypeOK
<1>8. Detachers'
  BY <1>0, <1>1, <1>2a DEF Detachers, Detaching, TypeOK, Operands
<1> QED BY <1>3, <1>4, <1>5, <1>6, <1>7, <1>8 DEF IInv

LEMMA CreateQueueStep ==
  ASSUME IInv, NEW t \in Threads, CreateQueue(t)
  PROVE  IInv'
<1> USE ThreadsAssumption DEF IInv
<1>0. /\ cur = t /\ spc = "requeue" /\ ran = t /\ pc[t] = "create_queue"
      /\ arg[t] \in Threads /\ state[arg[t]] = "CREATED" /\ arg[t] # t
      /\ \A u \in Threads : pc[u] = "create_queue" /\ arg[u] = arg[t] => u = t
  BY DEF CreateQueue, Processor, Finished, Ending, Operands, Creators, Running
<1>1. /\ lock' = [lock EXCEPT !["ready"] = t]
      /\ list' = [list EXCEPT !["ready"] = Append(list["ready"], arg[t])]
      /\ state' = [state EXCEPT ![arg[t]] = "READY"]
      /\ pc' = [pc EXCEPT ![t] = "create_unlock"]
      /\ UNCHANGED <<cur, ran, spc, cpc, arg, detached, cond, wait, ret, owner>>
  BY DEF CreateQueue, Queued, Goto
<1>2. Pushed(list, list', "ready", arg[t])
  <2>1. Off(list, arg[t]) /\ "ready" \in ListNames
    BY <1>0 DEF Off, ListNames, Matches, On
  <2> HIDE DEF IInv
  <2>2. list \in Families /\ Exclusive(list)
    BY ListFamily DEF IInv
  <2> QED BY <1>0, <1>1, <2>1, <2>2, PushBack
<1>3. \A m \in ListNames, u \in Threads : On(m, u)' <=> (On(m, u) \/ (m = "ready" /\ u = arg[t]))
  BY <1>2 DEF On, In, Pushed
<1>4. \A u \in Threads : InTransit(u)' <=> InTransit(u)
  BY <1>0, <1>1 DEF InTransit, TypeOK
<1>5. TypeOK' /\ OneList'
  BY <1>0, <1>1, <1>2 DEF TypeOK, Families, ThreadPoints, States, OneList, Pushed, Only
<1>6. Matches'
  BY <1>0, <1>1, <1>3, <1>4 DEF Matches, ListNames, TypeOK
<1>7. Processor' /\ Finished'
  BY <1>0, <1>1, <1>3 DEF Processor, Finished, Ending, TypeOK
<1>8. LocalLists' /\ PoolLock'
  BY <1>0, <1>1, <1>2 DEF LocalLists, PoolLock, ListNames, TypeOK, Pushed, Only
<1>9. Operands' /\ Creators'
  BY <1>0, <1>1 DEF Operands, Creators, TypeOK
<1>10. Detachers'
  BY <1>0, <1>1, <1>3 DEF Detachers, Detaching, TypeOK, Operands
<1> QED BY <1>5, <1>6, <1>7, <1>8, <1>9, <1>10 DEF IInv

LEMMA SchedTakeWaitingStep ==
  ASSUME IInv, SchedTakeWaiting
  PROVE  IInv'
<1> USE ThreadsAssumption DEF IInv
<1>1. /\ cur = Scheduler /\ spc = "wake" /\ spc' = "scan"
      /\ list' = [list EXCEPT !["scan"] = list["waiting"], !["waiting"] = <<>>]
      /\ list["scan"] = <<>> /\ list["resume"] = <<>>
      /\ UNCHANGED <<cur, ran, lock, pc, cpc, arg, state, detached, cond, wait, ret, owner>>
  BY DEF SchedTakeWaiting, LocalLists
<1>2. Moved(list, list', "waiting", "scan")
  <2>1. "waiting" \in ListNames /\ "scan" \in ListNames /\ "waiting" # "scan"
    BY DEF ListNames
  <2> HIDE DEF IInv
  <2>2. list \in Families /\ Exclusive(list)
    BY ListFamily DEF IInv
  <2> QED BY <1>1, <2>1, <2>2, TakeList
<1>3. \A m \in ListNames, u \in Threads :
        On(m, u)' <=> \/ m = "scan" /\ On("waiting", u)
                      \/ m \notin {"waiting", "scan"} /\ On(m, u)
  BY <1>2 DEF On, In, Moved
<1>4. \A u \in Threads : ~On("scan", u)
  BY <1>1 DEF On, In
<1>5. TypeOK' /\ OneList'
  BY <1>1, <1>2 DEF TypeOK, Families, OneList, Moved
<1>6. Matches'
  BY <1>1, <1>3, <1>4 DEF Matches, ListNames, InTransit
<1>7. Processor' /\ Finished'
  BY <1>1 DEF Processor, Finished, Ending, TypeOK
<1>8. LocalLists' /\ PoolLock'
  BY <1>1, <1>2 DEF LocalLists, PoolLock, ListNames, Moved
<1>9. Operands' /\ Creators'
  BY <1>1 DEF Operands, Creators
<1>10. Detachers'
  <2>1. \A u \in Threads : (\A l \in ListNames : ~On(l, u)) => (\A l \in ListNames : ~On(l, u)')
    BY <1>3 DEF ListNames
  <2> QED BY <1>1, <2>1 DEF Detachers, Detaching, Operands
<1> QED BY <1>5, <1>6, <1>7, <1>8, <1>9, <1>10 DEF IInv

LEMMA CleanTakeStep ==
  ASSUME IInv, CleanTake
  PROVE  IInv'
<1> USE ThreadsAssumption DEF IInv
<1>1. /\ cur = Cleaner /\ cpc = "clean_take" /\ cpc' = "clean_unlock"
      /\ list' = [list EXCEPT !["doomed"] = list["deletes"], !["deletes"] = <<>>]
      /\ lock' = [lock EXCEPT !["deletes"] = Cleaner]
      /\ list["doomed"] = <<>>
      /\ UNCHANGED <<cur, ran, spc, pc, arg, state, detached, cond, wait, ret, owner>>
  BY DEF CleanTake, LocalLists
<1>2. Moved(list, list', "deletes", "doomed")
  <2>1. "deletes" \in ListNames /\ "doomed" \in ListNames /\ "deletes" # "doomed"
    BY DEF ListNames
  <2> HIDE DEF IInv
  <2>2. list \in Families /\ Exclusive(list)
    BY ListFamily DEF IInv
  <2> QED BY <1>1, <2>1, <2>2, TakeList
<1>3. \A m \in ListNames, u \in Threads :
        On(m, u)' <=> \/ m = "doomed" /\ On("deletes", u)
                      \/ m \notin {"deletes", "doomed"} /\ On(m, u)
  BY <1>2 DEF On, In, Moved
<1>4. \A u \in Threads : ~On("doomed", u)
  BY <1>1 DEF On, In
<1>5. TypeOK' /\ OneList'
  BY <1>1, <1>2 DEF TypeOK, Families, OneList, Moved, CleanerPoints
<1>6. Matches'
  BY <1>1, <1>3, <1>4 DEF Matches, ListNames, InTransit
<1>7. Processor' /\ Finished'
  BY <1>1 DEF Processor, Finished, Ending, TypeOK
<1>8. LocalLists' /\ PoolLock'
  BY <1>1, <1>2 DEF LocalLists, PoolLock, ListNames, Moved, TypeOK
<1>9. Operands' /\ Creators'
  BY <1>1 DEF Operands, Creators
<1>10. Detachers'
  <2>1. \A u \in Threads : (\A l \in ListNames : ~On(l, u)) => (\A l \in ListNames : ~On(l, u)')
    BY <1>3 DEF ListNames
  <2> QED BY <1>1, <2>1 DEF Detachers, Detaching, Operands
<1> QED BY <1>5, <1>6, <1>7, <1>8, <1>9, <1>10 DEF IInv

LEMMA SchedResumeStep ==
  ASSUME IInv, SchedResume
  PROVE  IInv'
<1> USE ThreadsAssumption DEF IInv
<1>1. /\ cur = Scheduler /\ spc = "scan" /\ spc' = "pick" /\ cur' = Cleaner
      /\ list' = [list EXCEPT !["ready"] = list["ready"] \o list["resume"], !["resume"] = <<>>]
      /\ state' = [t \in Threads |-> IF On("resume", t) THEN "READY" ELSE state[t]]
      /\ list["scan"] = <<>>
      /\ UNCHANGED <<ran, lock, pc, cpc, arg, detached, cond, wait, ret, owner>>
  BY DEF SchedResume, TypeOK, ListNames
<1>2. Joined(list, list', "ready", "resume")
  <2>1. "ready" \in ListNames /\ "resume" \in ListNames /\ "ready" # "resume"
    BY DEF ListNames
  <2> HIDE DEF IInv
  <2>2. list \in Families /\ Exclusive(list)
    BY ListFamily DEF IInv
  <2> QED BY <1>1, <2>1, <2>2, ConcatList
<1>3. \A m \in ListNames, u \in Threads :
        On(m, u)' <=> \/ m = "ready" /\ (On("ready", u) \/ On("resume", u))
                      \/ m \notin {"ready", "resume"} /\ On(m, u)
  BY <1>2 DEF On, In, Joined
<1>4. \A u \in Threads : On("resume", u) => state[u] = "COND_WAIT"
  BY DEF Matches
<1>5. TypeOK' /\ OneList'
  BY <1>1, <1>2 DEF TypeOK, Families, OneList, Joined, States
<1>6. Matches'
  <2>1. \A u \in Threads : InTransit(u)' <=> InTransit(u)
    BY <1>1 DEF InTransit
  <2>2. \A u \in Threads :
          /\ On("resume", u) => state'[u] = "READY"
          /\ ~On("resume", u) => state'[u] = state[u]
    BY <1>1
  <2>3. \A u \in Threads :
          /\ On("ready", u)' <=> On("ready", u) \/ On("resume", u)
          /\ ~On("resume", u)'
          /\ On("waiting", u)' <=> On("waiting", u)
          /\ On("scan", u)' <=> On("scan", u)
          /\ On("deletes", u)' <=> On("deletes", u)
          /\ On("doomed", u)' <=> On("doomed", u)
          /\ On("pool", u)' <=> On("pool", u)
    BY <1>3 DEF ListNames
  <2>4. \A u \in Threads : ~On("scan", u)
    BY <1>1 DEF On, In
  <2>5. \A u \in Threads : On("resume", u) => ~On("waiting", u)
    BY DEF OneList, Exclusive, On, In, ListNames
  <2>6. Matches
    BY DEF IInv
  <2> HIDE DEF IInv
  <2>7. ASSUME NEW u \in Threads, On("resume", u)
        PROVE  /\ state'[u] = "READY"
               /\ On("ready", u)'
               /\ ~(On("waiting", u)' \/ On("scan", u)' \/ On("resume", u)')
               /\ ~(On("deletes", u)' \/ On("doomed", u)' \/ On("pool", u)')
    BY <1>4, <2>2, <2>3, <2>4, <2>5, <2>6, <2>7 DEF Matches
  <2> QED BY <2>1, <2>2, <2>3, <2>6, <2>7 DEF Matches
<1>7. Processor' /\ Finished'
  BY <1>1 DEF Processor, Finished, Ending, TypeOK
<1>8. LocalLists' /\ PoolLock'
  BY <1>1, <1>2 DEF LocalLists, PoolLock, ListNames, Joined
<1>9. Operands' /\ Creators'
  BY <1>1, <1>4 DEF Operands, Creators
<1>10. Detachers'
  BY <1>1, <1>3, <1>4 DEF Detachers, Detaching, ListNames, Operands
<1> QED BY <1>5, <1>6, <1>7, <1>8, <1>9, <1>10 DEF IInv

LEMMA SchedPickStep ==
  ASSUME IInv, SchedPick
  PROVE  IInv'
<1> USE ThreadsAssumption DEF IInv
<1>1. CASE list["ready"] = <<>>
  <2>1. /\ cur = Scheduler /\ spc = "pick" /\ spc' = "wake"
        /\ UNCHANGED <<cur, ran, list, state, lock, pc, cpc, arg, detached, cond, wait, ret, owner>>
    BY <1>1 DEF SchedPick
  <2>2. TypeOK' /\ OneList'
    BY <2>1 DEF TypeOK, OneList
  <2>3. Matches'
    BY <2>1 DEF Matches, InTransit, On
  <2>4. Processor' /\ Finished' /\ LocalLists' /\ PoolLock'
    BY <2>1 DEF Processor, Finished, Ending, LocalLists, PoolLock, On
  <2>5. Operands' /\ Creators' /\ Detachers'
    BY <2>1 DEF Operands, Creators, Detachers, Detaching, On
  <2> QED BY <2>2, <2>3, <2>4, <2>5 DEF IInv
<1>2. CASE list["ready"] # <<>>
  <2> DEFINE t == Head(list["ready"])
  <2>1. /\ cur = Scheduler /\ spc = "pick" /\ spc' = "requeue" /\ cur' = t /\ ran' = t
        /\ list' = [list EXCEPT !["ready"] = Tail(list["ready"])]
        /\ state' = [state EXCEPT ![t] = "RUNNING"]
        /\ UNCHANGED <<lock, pc, cpc, arg, detached, cond, wait, ret, owner>>
    BY <1>2 DEF SchedPick
  <2>2. Popped(list, list', "ready", t)
    <3>1. "ready" \in ListNames
      BY DEF ListNames
    <3> HIDE DEF IInv
    <3>2. list \in Families /\ Exclusive(list)
      BY ListFamily DEF IInv
    <3> QED BY <1>2, <2>1, <3>1, <3>2, PopHead
  <2> HIDE DEF t
  <2>3. t \in Threads /\ On("ready", t) /\ state[t] = "READY"
    BY <2>2 DEF Popped, On, Matches
  <2>4. \A m \in ListNames, u \in Threads : On(m, u)' <=> (On(m, u) /\ u # t)
    BY <2>2 DEF On, In, Popped
  <2>5. TypeOK' /\ OneList'
    BY <2>1, <2>2, <2>3 DEF TypeOK, OneList, Popped, Only, Families, States
  <2>6. Matches'
    <3>1. \A u \in Threads : u # t => (InTransit(u)' <=> InTransit(u))
      BY <2>1 DEF InTransit
    <3> QED BY <2>1, <2>3, <2>4, <3>1 DEF Matches, ListNames, TypeOK, InTransit
  <2>7. Processor' /\ Finished'
    BY <2>1, <2>3, <2>4 DEF Processor, Finished, Ending, TypeOK
  <2>8. LocalLists' /\ PoolLock'
    BY <2>1, <2>2 DEF LocalLists, PoolLock, ListNames, Popped, Only
  <2>9. Operands' /\ Creators'
    BY <2>1, <2>3 DEF Operands, Creators, TypeOK
  <2>10. Detachers'
    BY <2>1, <2>3, <2>4 DEF Detachers, Detaching, Operands, TypeOK
  <2> QED BY <2>5, <2>6, <2>7, <2>8, <2>9, <2>10 DEF IInv
<1> QED BY <1>1, <1>2

LEMMA CreatePopStep ==
  ASSUME IInv, NEW t \in Threads, CreatePop(t)
  PROVE  IInv'
<1> USE ThreadsAssumption DEF IInv
<1> DEFINE u == Head(list["pool"])
<1>0. /\ cur = t /\ spc = "requeue" /\ ran = t /\ pc[t] = "create_pop"
      /\ lock["pool"] = t /\ list["pool"] # <<>>
      /\ cpc = "clean_try"
  BY DEF CreatePop, Processor, Finished, Ending, PoolLock, Running
<1>1. /\ list' = [list EXCEPT !["pool"] = Tail(list["pool"])]
      /\ state' = [state EXCEPT ![u] = "CREATED"]
      /\ detached' = [detached EXCEPT ![u] = FALSE]
      /\ cond' = [cond EXCEPT ![u] = FALSE]
      /\ wait' = [wait EXCEPT ![u] = None]
      /\ ret' = [ret EXCEPT ![u] = FALSE]
      /\ arg' = [arg EXCEPT ![t] = u, ![u] = None]
      /\ pc' = [pc EXCEPT ![t] = "create_queue", ![u] = "user"]
      /\ owner' = [owner EXCEPT ![u] = None]
      /\ lock' = [lock EXCEPT !["pool"] = None]
      /\ UNCHANGED <<cur, ran, spc, cpc>>
  BY DEF CreatePop
<1>2. Popped(list, list', "pool", u)
  <2>1. "pool" \in ListNames
    BY DEF ListNames
  <2> HIDE DEF IInv
  <2>2. list \in Families /\ Exclusive(list)
    BY ListFamily DEF IInv
  <2> QED BY <1>0, <1>1, <2>1, <2>2, PopHead
<1> HIDE DEF u
<1>3. u \in Threads /\ On("pool", u) /\ state[u] = "INVALID" /\ u # t
  BY <1>0, <1>2 DEF Popped, On, Matches, Processor, Finished, Ending
<1>4. \A m \in ListNames, v \in Threads : On(m, v)' <=> (On(m, v) /\ v # u)
  BY <1>2 DEF On, In, Popped
<1>5. /\ pc'[t] = "create_queue" /\ arg'[t] = u
      /\ pc'[u] = "user" /\ arg'[u] = None
      /\ \A v \in Threads \ {t, u} : pc'[v] = pc[v] /\ arg'[v] = arg[v]
  BY <1>1, <1>3 DEF TypeOK
<1>6. TypeOK' /\ OneList'
  BY <1>1, <1>2, <1>3 DEF TypeOK, OneList, Popped, Only, Families, States, ThreadPoints
<1>7. \A v \in Threads : pc[v] \in Detaching => arg[v] # u /\ v # u
  BY <1>0, <1>3 DEF Detachers, Detaching, Operands, Finished, Ending
<1>8. Matches'
  <2>1. \A v \in Threads : v # u => (InTransit(v)' <=> InTransit(v))
    BY ZenonT(40), <1>0, <1>1, <1>3, <1>5, <1>7 DEF InTransit, Detaching
  <2> QED BY <1>0, <1>1, <1>3, <1>4, <2>1 DEF Matches, ListNames, TypeOK
<1>9. Processor' /\ Finished'
  BY ZenonT(40), <1>0, <1>1, <1>3, <1>4, <1>5 DEF Processor, Finished, Ending, TypeOK
<1>10. LocalLists' /\ PoolLock'
  BY <1>0, <1>1, <1>2, <1>5 DEF LocalLists, PoolLock, ListNames, Popped, Only
<1>11. /\ state'[u] = "CREATED"
       /\ \A v \in Threads \ {u} : state'[v] = state[v] /\ detached'[v] = detached[v]
  BY <1>1, <1>3 DEF TypeOK
<1>12. Operands'
  BY <1>3, <1>5 DEF Operands, TypeOK
<1>13. Creators'
  <2>1. \A v \in Threads : pc[v] = "create_queue" => arg[v] \in Threads /\ arg[v] # u
    BY <1>3 DEF Creators, Operands
  <2> QED BY <1>0, <1>3, <1>5, <1>11, <2>1 DEF Creators
<1>14. Detachers'
  <2>1. \A v \in Threads : pc'[v] \in Detaching => /\ pc[v] = pc'[v] /\ arg[v] = arg'[v]
                                                   /\ arg[v] \in Threads \ {u}
    BY <1>5, <1>7 DEF Operands, Detaching
  <2>2. \A v \in Threads : (\A l \in ListNames : ~On(l, v)) => (\A l \in ListNames : ~On(l, v)')
    BY <1>4
  <2>3. ASSUME NEW v \in Threads, pc'[v] \in Detaching
        PROVE  /\ detached'[arg'[v]] = detached[arg[v]]
               /\ state'[arg'[v]] = state[arg[v]]
               /\ \A w \in Threads : pc'[w] \in Detaching /\ arg'[w] = arg'[v] => w = v
               /\ (\A l \in ListNames : ~On(l, arg[v])) => (\A l \in ListNames : ~On(l, arg[v])')
    BY <1>11, <2>1, <2>2, <2>3 DEF Detachers, On
  <2>4. \A v \in Threads :
          pc'[v] \in Detaching =>
            /\ detached'[arg'[v]]
            /\ \A w \in Threads : pc'[w] \in Detaching /\ arg'[w] = arg'[v] => w = v
    BY <2>1, <2>3 DEF Detachers
  <2>5. ASSUME NEW v \in Threads, pc'[v] \in Detaching
        PROVE  /\ pc'[v] = "detach_check" => cur' = v
               /\ pc'[v] \in {"detach_mark", "detach_push"} => ~(spc' = "requeue" /\ ran' = arg'[v])
               /\ pc'[v] = "detach_mark" => state'[arg'[v]] = "TERMINATED"
               /\ pc'[v] = "detach_push" => /\ state'[arg'[v]] = "DETACHED"
                                            /\ \A l \in ListNames : ~On(l, arg[v])'
    <3>1. cur' = cur /\ ran' = ran /\ spc' = spc
      BY <1>1
    <3>2. pc'[v] = pc[v] /\ arg'[v] = arg[v] /\ state'[arg'[v]] = state[arg[v]]
      BY <2>1, <2>3, <2>5
    <3>3. (\A l \in ListNames : ~On(l, arg[v])) => (\A l \in ListNames : ~On(l, arg[v])')
      BY <2>3, <2>5
    <3> QED BY <3>1, <3>2, <3>3 DEF Detachers
  <2> QED BY <2>4, <2>5 DEF Detachers, Detaching
<1> QED BY <1>6, <1>8, <1>9, <1>10, <1>12, <1>13, <1>14 DEF IInv

LEMMA SchedRequeueStep ==
  ASSUME IInv, SchedRequeue
  PROVE  IInv'
<1> USE ThreadsAssumption DEF IInv
<1> DEFINE l == RequeueList(state[ran])
<1>0. /\ cur = Scheduler /\ spc = "requeue" /\ spc' = "wake"
      /\ ran \in Threads
      /\ state[ran] \in {"RUNNING", "COND_WAIT", "TERMINATED", "DETACHED"}
      /\ \A m \in ListNames : ~On(m, ran)
      /\ UNCHANGED <<cur, ran, lock, pc, cpc, arg, detached, cond, wait, ret, owner>>
  BY DEF SchedRequeue, Processor, TypeOK
<1>1. \A u \in Threads : u # ran => (InTransit(u)' <=> InTransit(u))
  BY <1>0 DEF InTransit
<1>2. CASE state[ran] = "TERMINATED"
  <2>1. UNCHANGED <<list, state>>
    BY <1>2 DEF SchedRequeue, RequeueList
  <2>2. TypeOK' /\ OneList'
    BY <1>0, <2>1 DEF TypeOK, OneList
  <2>3. Matches'
    BY <1>0, <1>1, <1>2, <2>1 DEF Matches, On, ListNames
  <2>4. Processor' /\ Finished' /\ LocalLists' /\ PoolLock'
    BY <1>0, <2>1 DEF Processor, Finished, Ending, LocalLists, PoolLock, TypeOK
  <2>5. Operands' /\ Creators' /\ Detachers'
    BY <1>0, <2>1 DEF Operands, Creators, Detachers, Detaching, On
  <2> QED BY <2>2, <2>3, <2>4, <2>5 DEF IInv
<1>3. CASE state[ran] # "TERMINATED"
  <2>1. /\ l \in {"deletes", "waiting", "ready"}
        /\ l = "deletes" <=> state[ran] = "DETACHED"
        /\ l = "waiting" <=> state[ran] = "COND_WAIT"
        /\ l = "ready" <=> state[ran] = "RUNNING"
    BY <1>0, <1>3 DEF RequeueList
  <2>2. /\ list' = [list EXCEPT ![l] = Queued(l, ran)]
        /\ state' = [state EXCEPT ![ran] = IF l = "ready" THEN "READY" ELSE state[ran]]
    BY <2>1 DEF SchedRequeue, TypeOK
  <2> HIDE DEF l
  <2>3. Pushed(list, list', l, ran)
    <3>1. Off(list, ran) /\ l \in ListNames
      BY <1>0, <2>1 DEF Off, ListNames, On
    <3> HIDE DEF IInv
    <3>2. list \in Families /\ Exclusive(list)
      BY ListFamily DEF IInv
    <3>3. CASE l = "deletes"
      <4>1. list' = [list EXCEPT ![l] = <<ran>> \o list[l]]
        BY <2>2, <3>3 DEF Queued
      <4> QED BY <1>0, <3>1, <3>2, <4>1, PushFront
    <3>4. CASE l # "deletes"
      <4>1. list' = [list EXCEPT ![l] = Append(list[l], ran)]
        BY <2>2, <3>4 DEF Queued
      <4> QED BY <1>0, <3>1, <3>2, <4>1, PushBack
    <3> QED BY <3>3, <3>4
  <2>4. \A m \in ListNames, u \in Threads : On(m, u)' <=> (On(m, u) \/ (m = l /\ u = ran))
    BY <1>0, <2>3 DEF On, In, Pushed
  <2>5. /\ \A u \in Threads \ {ran} : state'[u] = state[u]
        /\ state'[ran] = IF l = "ready" THEN "READY" ELSE state[ran]
    BY <1>0, <2>2 DEF TypeOK
  <2>6. TypeOK' /\ OneList'
    BY <1>0, <2>2, <2>3 DEF TypeOK, OneList, Pushed, Only, Families, States
  <2>7. Matches'
    BY <1>0, <1>1, <2>1, <2>4, <2>5 DEF Matches, ListNames
  <2>8. Processor' /\ Finished'
    BY <1>0, <2>5 DEF Processor, Finished, TypeOK
  <2>9. LocalLists' /\ PoolLock'
    BY <1>0, <2>1, <2>3 DEF LocalLists, PoolLock, ListNames, Pushed, Only
  <2>10. Operands' /\ Creators'
    BY <1>0, <2>5 DEF Operands, Creators
  <2>11. Detachers'
    BY <1>0, <2>4, <2>5 DEF Detachers, Detaching, Operands
  <2> QED BY <2>6, <2>7, <2>8, <2>9, <2>10, <2>11 DEF IInv
<1> QED BY <1>2, <1>3

LEMMA SchedTestWaitingStep ==
  ASSUME IInv, SchedTestWaiting
  PROVE  IInv'
<1> USE ThreadsAssumption DEF IInv
<1> DEFINE t == Head(list["scan"])
           L == [list EXCEPT !["scan"] = Tail(list["scan"])]
<1>1. /\ cur = Scheduler /\ spc = "scan" /\ list["scan"] # <<>>
      /\ UNCHANGED <<cur, ran, spc, lock, pc, cpc, arg, state, detached, cond, wait, ret, owner>>
  BY DEF SchedTestWaiting
<1>2. PICK l \in {"resume", "waiting"} :
        list' = [L EXCEPT ![l] = IF l = "resume" THEN <<t>> \o L[l] ELSE Append(L[l], t)]
  BY DEF SchedTestWaiting, Queued, TypeOK, ListNames
<1>3. list \in Families /\ Exclusive(list)
  BY ListFamily
<1>4. Popped(list, L, "scan", t)
  <2>1. "scan" \in ListNames
    BY DEF ListNames
  <2> HIDE DEF IInv
  <2> QED BY <1>1, <1>3, <2>1, PopHead
<1> HIDE DEF t, L
<1>5. Pushed(L, list', l, t)
  <2>1. /\ Off(L, t) /\ l \in ListNames /\ t \in Threads
        /\ L \in Families /\ Exclusive(L)
    BY <1>4 DEF Off, Popped, Only, ListNames
  <2> HIDE DEF IInv
  <2>2. CASE l = "resume"
    <3>1. list' = [L EXCEPT ![l] = <<t>> \o L[l]]
      BY <1>2, <2>2
    <3> QED BY <2>1, <3>1, PushFront
  <2>3. CASE l # "resume"
    <3>1. list' = [L EXCEPT ![l] = Append(L[l], t)]
      BY <1>2, <2>3
    <3> QED BY <2>1, <3>1, PushBack
  <2> QED BY <2>2, <2>3
<1>6. /\ t \in Threads /\ On("scan", t)
      /\ \A m \in ListNames, u \in Threads :
           On(m, u)' <=> \/ On(m, u) /\ u # t
                         \/ m = l /\ u = t
  BY <1>4, <1>5 DEF On, In, Popped, Pushed
<1>7. TypeOK' /\ OneList'
  BY <1>1, <1>5 DEF TypeOK, OneList, Pushed, Only, Families
<1>8. Matches'
  <2>1. \A u \in Threads : InTransit(u)' <=> InTransit(u)
    BY <1>1 DEF InTransit
  <2> QED BY <1>1, <1>2, <1>6, <2>1 DEF Matches, ListNames
<1>9. Processor' /\ Finished'
  BY <1>1 DEF Processor, Finished, TypeOK
<1>10. LocalLists' /\ PoolLock'
  BY <1>1, <1>2, <1>4, <1>5 DEF LocalLists, PoolLock, ListNames, Popped, Pushed, Only
<1>11. Operands' /\ Creators'
  BY <1>1 DEF Operands, Creators
<1>12. Detachers'
  <2>1. \A u \in Threads : (\A m \in ListNames : ~On(m, u)) => (\A m \in ListNames : ~On(m, u)')
    BY <1>6 DEF ListNames
  <2> QED BY <1>1, <2>1 DEF Detachers, Detaching, Operands
<1> QED BY <1>7, <1>8, <1>9, <1>10, <1>11, <1>12 DEF IInv

LEMMA DestroyThreadStep ==
  ASSUME IInv, DestroyThread
  PROVE  IInv'
<1> USE ThreadsAssumption DEF IInv
<1> DEFINE t == Head(list["doomed"])
           L == [list EXCEPT !["doomed"] = Tail(list["doomed"])]
<1>1. /\ cur = Cleaner /\ cpc = "clean_destroy" /\ list["doomed"] # <<>>
      /\ lock["pool"] = Cleaner
      /\ state' = [state EXCEPT ![t] = "INVALID"]
      /\ UNCHANGED <<cur, ran, spc, lock, pc, cpc, arg, detached, cond, wait, ret, owner>>
  BY DEF DestroyThread, PoolLock
<1>2. list' = [L EXCEPT !["pool"] = <<t>> \o L["pool"]]
  BY DEF DestroyThread, TypeOK, ListNames
<1>3. list \in Families /\ Exclusive(list)
  BY ListFamily
<1>4. Popped(list, L, "doomed", t)
  <2>1. "doomed" \in ListNames
    BY DEF ListNames
  <2> HIDE DEF IInv
  <2> QED BY <1>1, <1>3, <2>1, PopHead
<1> HIDE DEF t, L
<1>5. Pushed(L, list', "pool", t)
  <2>1. /\ Off(L, t) /\ "pool" \in ListNames /\ t \in Threads
        /\ L \in Families /\ Exclusive(L)
    BY <1>4 DEF Off, Popped, Only, ListNames
  <2> HIDE DEF IInv
  <2> QED BY <1>2, <2>1, PushFront
<1>6. /\ t \in Threads /\ On("doomed", t) /\ state[t] = "DETACHED"
      /\ \A m \in ListNames, u \in Threads :
           On(m, u)' <=> \/ On(m, u) /\ u # t
                         \/ m = "pool" /\ u = t
  BY <1>4, <1>5 DEF On, In, Popped, Pushed, Matches
<1>7. /\ state'[t] = "INVALID"
      /\ \A u \in Threads \ {t} : state'[u] = state[u]
  BY <1>1, <1>6 DEF TypeOK
<1>8. TypeOK' /\ OneList'
  BY <1>1, <1>5, <1>6 DEF TypeOK, OneList, Pushed, Only, Families, States
<1>9. Matches'
  <2>1. \A u \in Threads : InTransit(u)' <=> InTransit(u)
    BY <1>1 DEF InTransit
  <2> QED BY <1>1, <1>6, <1>7, <2>1 DEF Matches, ListNames
<1>10. Processor' /\ Finished'
  BY <1>1, <1>6, <1>7 DEF Processor, Finished, TypeOK, ListNames
<1>11. LocalLists' /\ PoolLock'
  BY <1>1, <1>4, <1>5 DEF LocalLists, PoolLock, ListNames, Popped, Pushed, Only
<1>12. Operands' /\ Creators'
  BY <1>1, <1>6, <1>7 DEF Operands, Creators
<1>13. Detachers'
  <2>1. \A u \in Threads : (\A m \in ListNames : ~On(m, u))
                              => u # t /\ (\A m \in ListNames : ~On(m, u)')
    BY <1>6 DEF ListNames
  <2> QED BY <1>1, <1>6, <1>7, <2>1 DEF Detachers, Detaching, Operands
<1> QED BY <1>8, <1>9, <1>10, <1>11, <1>12, <1>13 DEF IInv

-----------------------------------------------------------------------------
LEMMA InitIInv ==
  ASSUME Init PROVE IInv
<1> USE ThreadsAssumption DEF Init
<1>1. /\ FreeThreads \in Seq(Threads)
      /\ \A i \in DOMAIN FreeThreads : FreeThreads[i] # Main
      /\ DOMAIN <<Main>> = {1} /\ <<Main>>[1] = Main /\ <<Main>> \in Seq(Threads)
      /\ DOMAIN <<>> = {} /\ <<>> \in Seq(Threads)
  BY PoolAssumption
<1>2. /\ list["ready"] = <<Main>>
      /\ list["pool"] = FreeThreads
      /\ \A l \in ListNames : l \notin {"ready", "pool"} => list[l] = <<>>
  BY DEF ListNames
<1>3. \A u \in Threads :
        /\ On("ready", u) <=> u = Main
        /\ On("pool", u) <=> u # Main
        /\ \A l \in ListNames : l \notin {"ready", "pool"} => ~On(l, u)
  BY <1>1, <1>2, PoolAssumption DEF On, In
<1>4. TypeOK
  BY <1>1 DEF TypeOK, ThreadPoints, CleanerPoints, States, ListNames
<1>5. OneList
  BY <1>1, <1>2, PoolAssumption DEF OneList, Exclusive
<1>6. Matches
  BY <1>3 DEF Matches, ListNames
<1>7. Processor /\ Finished /\ LocalLists /\ PoolLock
  BY <1>2 DEF Processor, Finished, LocalLists, PoolLock, ListNames
<1>8. Operands /\ Creators /\ Detachers
  BY DEF Operands, Creators, Detachers, Detaching
<1> QED BY <1>4, <1>5, <1>6, <1>7, <1>8 DEF IInv

(* Every step keeps the invariant, provided the timer cannot fire between  *)
(* the flag and the test of DetachThread.                                  *)
LEMMA StepIInv ==
  ASSUME "detach_check" \notin TimerPoints, IInv, [Next]_vars
  PROVE  IInv'
<1>1. CASE SchedStep
  BY <1>1, SchedTakeWaitingStep, SchedTestWaitingStep, SchedResumeStep, SchedPickStep,
     SchedRequeueStep DEF SchedStep
<1>2. CASE CleanStep
  BY <1>2, CleanTryStep, CleanTakeStep, CleanUnlockStep, DestroyThreadStep, CleanDoneStep
     DEF CleanStep
<1>3. ASSUME NEW t \in Threads, KernelStep(t) PROVE IInv'
  <2>1. CASE CreatePop(t) \/ CreateQueue(t) \/ CreateUnlock(t)
    BY <2>1, CreatePopStep, CreateQueueStep, CreateUnlockStep
  <2>2. CASE WaitTest(t) \/ WaitBlock(t) \/ WaitYield(t) \/ WaitRead(t)
    BY <2>2, WaitTestStep, WaitBlockStep, WaitYieldStep, WaitReadStep
  <2>3. CASE DetachFlag(t) \/ DetachCheck(t) \/ DetachMark(t) \/ DetachPush(t) \/ DetachUnlock(t)
    BY <2>3, DetachFlagStep, DetachCheckStep, DetachMarkStep, DetachPushStep, DetachUnlockStep
  <2>4. CASE TermDetached(t) \/ TermMark(t) \/ TermReturn(t) \/ TermSignal(t) \/ TermYield(t)
    BY <2>4, TermDetachedStep, TermMarkStep, TermReturnStep, TermSignalStep, TermYieldStep
  <2> QED BY <1>3, <2>1, <2>2, <2>3, <2>4 DEF KernelStep
<1>4. ASSUME NEW t \in Threads, Call(t) PROVE IInv'
  BY <1>4, CreateThreadStep, WaitThreadStep, DetachThreadStep, WaitConditionStep,
     ClearConditionStep, TerminateThreadStep, YieldThreadStep DEF Call
<1>5. ASSUME NEW c \in Conds, SignalCondition(c) PROVE IInv'
  BY <1>5, SignalConditionStep
<1>6. CASE Timer
  BY <1>6, TimerStep
<1>7. CASE UNCHANGED vars
  BY <1>7 DEF vars, IInv, TypeOK, OneList, Matches, Processor, Finished, LocalLists, PoolLock,
              Operands, Creators, Detachers, InTransit, On
<1> QED BY <1>1, <1>2, <1>3, <1>4, <1>5, <1>6, <1>7 DEF Next

(* The inductive invariant holds in every reachable state. *)
THEOREM Invariance == ASSUME "detach_check" \notin TimerPoints PROVE Spec => []IInv
<1>1. Init => IInv
  BY InitIInv
<1>2. IInv /\ [Next]_vars => IInv'
  BY StepIInv
<1> QED BY <1>1, <1>2, PTL DEF Spec

(* Every variable keeps its type: in particular the processor is always    *)
(* given to a thread, to the cleanup thread or to the scheduler, never to  *)
(* the NULL next_thread of the timer's vector.                             *)
THEOREM TypeCorrect == ASSUME "detach_check" \notin TimerPoints PROVE Spec => []TypeOK
<1>1. IInv => TypeOK
  BY DEF IInv
<1> QED BY <1>1, Invariance, PTL

(* However many threads create, wait for and detach each other, queue_next *)
(* never ties two lists together.                                          *)
THEOREM OneListAlways == ASSUME "detach_check" \notin TimerPoints PROVE Spec => []OneList
<1>1. IInv => OneList
  BY DEF IInv
<1> QED BY <1>1, Invariance, PTL

(* No thread that is ready, waiting or to be destroyed is ever lost, and   *)
(* none is on a list its state forbids.                                    *)
THEOREM ListsMatchAlways ==
  ASSUME "detach_check" \notin TimerPoints PROVE Spec => []ListsMatchStates
<1>1. IInv => ListsMatchStates
  BY MatchTable DEF IInv
<1> QED BY <1>1, Invariance, PTL

-----------------------------------------------------------------------------
(***************************************************************************)
(* The life of a thread: whoever changes a thread's state takes it along   *)
(* one of the edges of NextStates.                                         *)
(***************************************************************************)
Edges == \A t \in Threads : state'[t] # state[t] => state'[t] \in NextStates(state[t])

LEMMA StepEdges ==
  ASSUME IInv, Next
  PROVE  Edges
<1> USE ThreadsAssumption DEF NextStates
<1>1. CASE SchedStep
  <2>1. CASE SchedTakeWaiting \/ SchedTestWaiting
    BY <2>1 DEF SchedTakeWaiting, SchedTestWaiting, Edges
  <2>2. CASE SchedResume
    BY <2>2 DEF SchedResume, Edges, IInv, Matches
  <2>3. CASE SchedPick
    <3>1. CASE list["ready"] = <<>>
      BY <2>3, <3>1 DEF SchedPick, Edges
    <3>2. CASE list["ready"] # <<>>
      <4> DEFINE t == Head(list["ready"])
      <4>1. state' = [state EXCEPT ![t] = "RUNNING"]
        BY <2>3, <3>2 DEF SchedPick
      <4>2. t \in Threads /\ On("ready", t)
        <5>1. list["ready"] \in Seq(Threads)
          BY DEF IInv, TypeOK, ListNames
        <5>2. t \in Threads /\ 1 \in DOMAIN list["ready"] /\ t = list["ready"][1]
          BY <3>2, <5>1
        <5> QED BY <5>2 DEF On, In
      <4> HIDE DEF t
      <4> QED BY <4>1, <4>2 DEF Edges, IInv, TypeOK, Matches
    <3> QED BY <3>1, <3>2
  <2>4. CASE SchedRequeue
    BY <2>4 DEF SchedRequeue, RequeueList, Edges, IInv, TypeOK, Processor
  <2> QED BY <1>1, <2>1, <2>2, <2>3, <2>4 DEF SchedStep
<1>2. CASE CleanStep
  <2>1. CASE CleanTry \/ CleanTake \/ CleanUnlock \/ CleanDone
    BY <2>1 DEF CleanTry, CleanTake, CleanUnlock, CleanDone, Edges
  <2>2. CASE DestroyThread
    <3> DEFINE t == Head(list["doomed"])
    <3>1. state' = [state EXCEPT ![t] = "INVALID"] /\ list["doomed"] # <<>>
      BY <2>2 DEF DestroyThread
    <3>2. t \in Threads /\ On("doomed", t)
      <4>1. list["doomed"] \in Seq(Threads)
        BY DEF IInv, TypeOK, ListNames
      <4>2. t \in Threads /\ 1 \in DOMAIN list["doomed"] /\ t = list["doomed"][1]
        BY <3>1, <4>1
      <4> QED BY <4>2 DEF On, In
    <3> HIDE DEF t
    <3> QED BY <3>1, <3>2 DEF Edges, IInv, TypeOK, Matches
  <2> QED BY <1>2, <2>1, <2>2 DEF CleanStep
<1>3. ASSUME NEW t \in Threads, KernelStep(t) PROVE Edges
  <2>1. CASE CreatePop(t)
    <3> DEFINE u == Head(list["pool"])
    <3>1. state' = [state EXCEPT ![u] = "CREATED"] /\ list["pool"] # <<>>
      BY <2>1 DEF CreatePop, Running, IInv, PoolLock
    <3>2. u \in Threads /\ On("pool", u)
      <4>1. list["pool"] \in Seq(Threads)
        BY DEF IInv, TypeOK, ListNames
      <4>2. u \in Threads /\ 1 \in DOMAIN list["pool"] /\ u = list["pool"][1]
        BY <3>1, <4>1
      <4> QED BY <4>2 DEF On, In
    <3> HIDE DEF u
    <3> QED BY <3>1, <3>2 DEF Edges, IInv, TypeOK, Matches
  <2>2. CASE CreateQueue(t)
    BY <2>2 DEF CreateQueue, Running, Edges, IInv, TypeOK, Creators, Operands
  <2>3. CASE WaitBlock(t) \/ TermDetached(t) \/ TermMark(t)
    <3>1. state[t] = "RUNNING"
      BY <2>3 DEF WaitBlock, TermDetached, TermMark, Running, IInv, TypeOK, Processor,
                  Finished, Ending
    <3> QED BY <2>3, <3>1 DEF WaitBlock, TermDetached, TermMark, Edges, IInv, TypeOK
  <2>4. CASE DetachMark(t)
    BY <2>4 DEF DetachMark, Running, Edges, IInv, TypeOK, Detachers, Operands
  <2>5. CASE state' = state
    BY <2>5 DEF Edges
  <2> QED BY <1>3, <2>1, <2>2, <2>3, <2>4, <2>5 DEF KernelStep, CreateUnlock, WaitTest,
             WaitYield, WaitRead, DetachFlag, DetachCheck, DetachPush, DetachUnlock,
             TermReturn, TermSignal, TermYield
<1>4. CASE state' = state
  BY <1>4 DEF Edges
<1>5. ASSUME NEW t \in Threads, Call(t) PROVE state' = state
  BY <1>5 DEF Call, CreateThread, WaitThread, DetachThread, WaitCondition, ClearCondition,
              TerminateThread, YieldThread
<1>6. ASSUME NEW c \in Conds, SignalCondition(c) PROVE state' = state
  BY <1>6 DEF SignalCondition
<1>7. CASE Timer
  BY <1>7, <1>4 DEF Timer
<1> QED BY <1>1, <1>2, <1>3, <1>4, <1>5, <1>6, <1>7 DEF Next

(* A thread that has TERMINATED never runs again, a slot is given out      *)
(* again only after it was DETACHED and destroyed, and no other change of  *)
(* thread->state happens that the life of a thread does not allow.         *)
THEOREM LifecycleAlways ==
  ASSUME "detach_check" \notin TimerPoints PROVE Spec => Lifecycle
<1>1. IInv /\ [Next]_vars => [Edges]_vars
  BY StepEdges
<1> QED BY <1>1, Invariance, PTL DEF Spec, Lifecycle, Edges

-----------------------------------------------------------------------------
(* Waiting for threads: who holds a thread's handle, and what that keeps   *)
(* others from doing to the thread.                                        *)

Waiting == {"wait_cond", "wait_block", "wait_yield", "wait_read"}
Detach == {"detach", "detach_check", "detach_mark", "detach_push", "detach_unlock"}
Creating == {"create_queue", "create_unlock"}
Over == {"term_detached", "term_mark", "term_return", "term_signal", "term_yield"}

(* A thread that waits for another one, or detaches it, holds its handle,  *)
(* and waits only while nobody has begun to detach it.                     *)
Holders ==
  \A t \in Threads : arg[t] \in Threads =>
    /\ pc[t] \in Waiting \cup Detach => owner[arg[t]] = t
    /\ pc[t] \in Waiting => ~detached[arg[t]]

(* Threads reach the delete list through the flag only. *)
Flagged ==
  \A t \in Threads : state[t] = "DETACHED" \/ pc[t] = "term_detached" => detached[t]

(* What is queued under a spinlock stays in its queue until the lock is    *)
(* released.                                                               *)
UnderLock ==
  /\ cpc = "clean_unlock" => lock["deletes"] = Cleaner
  /\ \A t \in Threads :
       /\ pc[t] = "create_unlock" =>
            lock["ready"] = t /\ arg[t] \in Threads /\ state[arg[t]] = "READY"
       /\ pc[t] = "detach_unlock" =>
            lock["deletes"] = t /\ arg[t] \in Threads /\ On("deletes", arg[t])

(* Nobody holds the handle of a thread before its creator has it. *)
Fresh ==
  \A t \in Threads : pc[t] \in Creating => owner[arg[t]] = None /\ ~detached[arg[t]]

(* A thread whose handle is held exists, its holder is not over, and only  *)
(* the holder may be detaching it.                                         *)
Held ==
  \A u \in Threads : owner[u] # None =>
    /\ state[u] \notin {"INVALID", "CREATED"}
    /\ state[owner[u]] # "INVALID" /\ pc[owner[u]] \notin Over
    /\ detached[u] => pc[owner[u]] \in Detach \ {"detach"} /\ arg[owner[u]] = u

(* A blocked thread waits for its operand. *)
Blocked ==
  \A t \in Threads :
    /\ pc[t] \in {"wait_block", "wait_yield"} => wait[t] = arg[t]
    /\ state[t] = "COND_WAIT" =>
         /\ wait[t] = arg[t]
         /\ arg[t] \in Threads => pc[t] \in {"wait_yield", "wait_read"}

HInv == Holders /\ Flagged /\ UnderLock /\ Fresh /\ Held /\ Blocked

(* The value of a thread is there when its end can be seen: by having been *)
(* resumed, from its condition, or from its state.                         *)
Delivered ==
  \A t \in Threads :
    pc[t] \in {"wait_yield", "wait_read"} /\ arg[t] \in Threads /\ state[t] # "COND_WAIT"
      => ret[arg[t]]

Resumed == \A t \in Threads : On("resume", t) => cond[wait[t]]

Announced ==
  \A t \in Threads : cond[t] \/ pc[t] = "term_signal" => ret[t] \/ detached[t]

Ended ==
  \A t \in Threads :
    /\ state[t] = "TERMINATED" => ret[t] \/ pc[t] = "term_return"
    /\ pc[t] = "term_return" => cur = t

Values == Delivered /\ Resumed /\ Announced /\ Ended

-----------------------------------------------------------------------------
(* The actions that leave the lists as they are. *)
LEMMA CreateThreadHolds ==
  ASSUME IInv, HInv, NEW t \in Threads, CreateThread(t)
  PROVE  HInv'
<1> USE ThreadsAssumption DEF CreateThread, Running, Goto, Free
<1> USE DEF IInv, TypeOK, HInv
<1>1. Holders'
  BY DEF Holders, Waiting, Detach
<1>2. Flagged'
  BY DEF Flagged
<1>3. UnderLock'
  BY DEF UnderLock, On
<1>4. Fresh'
  BY DEF Fresh, Creating
<1>5. Held'
  BY DEF Held, Over, Detach
<1>6. Blocked'
  BY DEF Blocked
<1> QED
  BY <1>1, <1>2, <1>3, <1>4, <1>5, <1>6 DEF HInv

LEMMA CreateUnlockHolds ==
  ASSUME IInv, HInv, NEW t \in Threads, CreateUnlock(t)
  PROVE  HInv'
<1> USE ThreadsAssumption DEF CreateUnlock, Running, Goto
<1> USE DEF IInv, TypeOK, HInv
<1>1. Holders'
  BY DEF Holders, Fresh, Creating
<1>2. Flagged'
  BY DEF Flagged
<1>3. UnderLock'
  BY DEF UnderLock, On
<1>4. Fresh'
  <2> SUFFICES ASSUME NEW v \in Threads, pc'[v] \in Creating
               PROVE  owner'[arg[v]] = None /\ ~detached[arg[v]]
    BY DEF Fresh
  <2>1. v # t /\ pc[v] \in Creating
    BY DEF Creating
  <2>2. pc[v] = "create_queue" /\ arg[v] # arg[t]
    BY <2>1 DEF Creating, UnderLock, Creators
  <2>3. owner[arg[v]] = None /\ ~detached[arg[v]] /\ arg[v] \in Threads
    BY <2>1, <2>2 DEF Fresh, Operands
  <2> QED
    BY <2>2, <2>3
<1>5. Held'
  BY DEF Held, Over, UnderLock, Fresh, Creating, Processor
<1>6. Blocked'
  BY DEF Blocked
<1> QED
  BY <1>1, <1>2, <1>3, <1>4, <1>5, <1>6 DEF HInv

LEMMA WaitThreadHolds ==
  ASSUME IInv, HInv, NEW t \in Threads, NEW u \in Threads, WaitThread(t, u)
  PROVE  HInv'
<1> USE ThreadsAssumption DEF WaitThread, Running, Goto
<1> USE DEF IInv, TypeOK, HInv
<1>1. Holders'
  BY DEF Holders
<1>2. Flagged'
  BY DEF Flagged
<1>3. UnderLock'
  BY DEF UnderLock, On
<1>4. Fresh'
  BY DEF Fresh, Creating
<1>5. Held'
  BY DEF Held, Over, Detach
<1>6. Blocked'
  BY DEF Blocked, Processor
<1> QED
  BY <1>1, <1>2, <1>3, <1>4, <1>5, <1>6 DEF HInv

LEMMA WaitConditionHolds ==
  ASSUME IInv, HInv, NEW t \in Threads, NEW c \in Conds, WaitCondition(t, c)
  PROVE  HInv'
<1> USE ThreadsAssumption DEF WaitCondition, Running, Goto
<1> USE DEF IInv, TypeOK, HInv
<1>1. Holders'
  BY DEF Holders
<1>2. Flagged'
  BY DEF Flagged
<1>3. UnderLock'
  BY DEF UnderLock, On
<1>4. Fresh'
  BY DEF Fresh, Creating
<1>5. Held'
  BY DEF Held, Over, Detach
<1>6. Blocked'
  BY DEF Blocked, Processor
<1> QED
  BY <1>1, <1>2, <1>3, <1>4, <1>5, <1>6 DEF HInv

LEMMA WaitTestHolds ==
  ASSUME IInv, HInv, NEW t \in Threads, WaitTest(t)
  PROVE  HInv'
<1> USE ThreadsAssumption DEF WaitTest, Running, Goto, AfterWait
<1> USE DEF IInv, TypeOK, HInv
<1>1. Holders'
  BY DEF Holders, Waiting
<1>2. Flagged'
  BY DEF Flagged
<1>3. UnderLock'
  BY DEF UnderLock, On
<1>4. Fresh'
  BY DEF Fresh, Creating
<1>5. Held'
  BY DEF Held, Over, Detach
<1>6. Blocked'
  BY DEF Blocked
<1> QED
  BY <1>1, <1>2, <1>3, <1>4, <1>5, <1>6 DEF HInv

LEMMA WaitBlockHolds ==
  ASSUME IInv, HInv, NEW t \in Threads, WaitBlock(t)
  PROVE  HInv'
<1> USE ThreadsAssumption DEF WaitBlock, Running, Goto
<1> USE DEF IInv, TypeOK, HInv
<1>1. Holders'
  BY DEF Holders, Waiting
<1>2. Flagged'
  BY DEF Flagged
<1>3. UnderLock'
  BY DEF UnderLock, On, Processor
<1>4. Fresh'
  BY DEF Fresh, Creating
<1>5. Held'
  BY DEF Held, Over, Detach
<1>6. Blocked'
  BY DEF Blocked
<1> QED
  BY <1>1, <1>2, <1>3, <1>4, <1>5, <1>6 DEF HInv

LEMMA WaitYieldHolds ==
  ASSUME IInv, HInv, NEW t \in Threads, WaitYield(t)
  PROVE  HInv'
<1> USE ThreadsAssumption DEF WaitYield, Running, Goto, AfterWait
<1> USE DEF IInv, TypeOK, HInv, SwitchToScheduler
<1>1. Holders'
  BY DEF Holders, Waiting
<1>2. Flagged'
  BY DEF Flagged
<1>3. UnderLock'
  BY DEF UnderLock, On
<1>4. Fresh'
  BY DEF Fresh, Creating
<1>5. Held'
  BY DEF Held, Over, Detach
<1>6. Blocked'
  BY DEF Blocked
<1> QED
  BY <1>1, <1>2, <1>3, <1>4, <1>5, <1>6 DEF HInv

LEMMA WaitReadHolds ==
  ASSUME IInv, HInv, NEW t \in Threads, WaitRead(t)
  PROVE  HInv'
<1> USE ThreadsAssumption DEF WaitRead, Running, Goto
<1> USE DEF IInv, TypeOK, HInv
<1>1. Holders'
  BY DEF Holders, Waiting
<1>2. Flagged'
  BY DEF Flagged
<1>3. UnderLock'
  BY DEF UnderLock, On
<1>4. Fresh'
  BY DEF Fresh, Creating
<1>5. Held'
  BY DEF Held, Over, Detach
<1>6. Blocked'
  BY DEF Blocked, Processor
<1> QED
  BY <1>1, <1>2, <1>3, <1>4, <1>5, <1>6 DEF HInv

LEMMA DetachThreadHolds ==
  ASSUME IInv, HInv, NEW t \in Threads, NEW u \in Threads, DetachThread(t, u)
  PROVE  HInv'
<1> USE ThreadsAssumption DEF DetachThread, Running, Goto
<1> USE DEF IInv, TypeOK, HInv
<1>1. Holders'
  BY DEF Holders, Waiting
<1>2. Flagged'
  BY DEF Flagged
<1>3. UnderLock'
  BY DEF UnderLock, On
<1>4. Fresh'
  BY DEF Fresh, Creating
<1>5. Held'
  BY DEF Held, Over, Detach
<1>6. Blocked'
  BY DEF Blocked, Processor
<1> QED
  BY <1>1, <1>2, <1>3, <1>4, <1>5, <1>6 DEF HInv

LEMMA DetachFlagHolds ==
  ASSUME IInv, HInv, NEW t \in Threads, DetachFlag(t)
  PROVE  HInv'
<1> USE ThreadsAssumption DEF DetachFlag, Running, Goto, DropHandle
<1> USE DEF IInv, TypeOK, HInv
<1>1. Holders'
  BY DEF Holders, Waiting, Detach
<1>2. Flagged'
  BY DEF Flagged
<1>3. UnderLock'
  BY DEF UnderLock, On
<1>4. Fresh'
  <2> SUFFICES ASSUME NEW v \in Threads, pc'[v] \in Creating
               PROVE  owner'[arg[v]] = None /\ ~detached'[arg[v]]
    BY DEF Fresh
  <2>1. v # t /\ pc[v] \in Creating
    BY DEF Creating
  <2>2. owner[arg[t]] = t /\ arg[t] \in Threads
    BY DEF Holders, Detach, Operands
  <2>3. owner[arg[v]] = None /\ ~detached[arg[v]] /\ arg[v] \in Threads
    BY <2>1 DEF Fresh, Operands, Creating, UnderLock
  <2> QED
    BY <2>1, <2>2, <2>3
<1>5. Held'
  BY DEF Held, Over, Detach, Holders, Waiting, Creating, Detaching, Finished, Ending
<1>6. Blocked'
  BY DEF Blocked
<1> QED
  BY <1>1, <1>2, <1>3, <1>4, <1>5, <1>6 DEF HInv

LEMMA DetachCheckHolds ==
  ASSUME IInv, HInv, NEW t \in Threads, DetachCheck(t)
  PROVE  HInv'
<1> USE ThreadsAssumption DEF DetachCheck, Running, Goto, DropHandle
<1> USE DEF IInv, TypeOK, HInv
<1>1. Holders'
  BY DEF Holders, Waiting, Detach
<1>2. Flagged'
  BY DEF Flagged
<1>3. UnderLock'
  BY DEF UnderLock, On
<1>4. Fresh'
  BY DEF Fresh, Creating, Operands, UnderLock
<1>5. Held'
  BY DEF Held, Over, Detach, Creating
<1>6. Blocked'
  BY DEF Blocked
<1> QED
  BY <1>1, <1>2, <1>3, <1>4, <1>5, <1>6 DEF HInv

LEMMA DetachMarkHolds ==
  ASSUME IInv, HInv, NEW t \in Threads, DetachMark(t)
  PROVE  HInv'
<1> USE ThreadsAssumption DEF DetachMark, Running, Goto
<1> USE DEF IInv, TypeOK, HInv
<1>1. Holders'
  BY DEF Holders, Waiting, Detach
<1>2. Flagged'
  BY DEF Flagged, Detachers, Detaching
<1>3. UnderLock'
  BY DEF UnderLock, On, Detachers
<1>4. Fresh'
  BY DEF Fresh, Creating
<1>5. Held'
  BY DEF Held, Over, Detach
<1>6. Blocked'
  BY DEF Blocked
<1> QED
  BY <1>1, <1>2, <1>3, <1>4, <1>5, <1>6 DEF HInv

LEMMA DetachUnlockHolds ==
  ASSUME IInv, HInv, NEW t \in Threads, DetachUnlock(t)
  PROVE  HInv'
<1> USE ThreadsAssumption DEF DetachUnlock, Running, Goto, DropHandle
<1> USE DEF IInv, TypeOK, HInv
<1>1. Holders'
  BY DEF Holders, Waiting, Detach
<1>2. Flagged'
  BY DEF Flagged
<1>3. UnderLock'
  BY DEF UnderLock
<1>4. Fresh'
  BY DEF Fresh, Creating
<1>5. Held'
  BY DEF Held, Over
<1>6. Blocked'
  BY DEF Blocked
<1> QED
  BY <1>1, <1>2, <1>3, <1>4, <1>5, <1>6 DEF HInv

LEMMA TerminateThreadHolds ==
  ASSUME IInv, HInv, NEW t \in Threads, TerminateThread(t)
  PROVE  HInv'
<1> USE ThreadsAssumption DEF TerminateThread, Running, Goto
<1> USE DEF IInv, TypeOK, HInv
<1>1. Holders'
  BY DEF Holders, Waiting, Detach
<1>2. Flagged'
  BY DEF Flagged
<1>3. UnderLock'
  BY DEF UnderLock, On
<1>4. Fresh'
  BY DEF Fresh, Creating, Operands, UnderLock
<1>5. Held'
  BY DEF Held, Over
<1>6. Blocked'
  BY DEF Blocked
<1> QED
  BY <1>1, <1>2, <1>3, <1>4, <1>5, <1>6 DEF HInv

LEMMA TermDetachedHolds ==
  ASSUME IInv, HInv, NEW t \in Threads, TermDetached(t)
  PROVE  HInv'
<1> USE ThreadsAssumption DEF TermDetached, Running, Goto
<1> USE DEF IInv, TypeOK, HInv
<1>1. Holders'
  BY DEF Holders, Waiting, Detach
<1>2. Flagged'
  BY DEF Flagged
<1>3. UnderLock'
  BY DEF UnderLock, On, Processor
<1>4. Fresh'
  BY DEF Fresh, Creating
<1>5. Held'
  BY DEF Held, Over
<1>6. Blocked'
  BY DEF Blocked
<1> QED
  BY <1>1, <1>2, <1>3, <1>4, <1>5, <1>6 DEF HInv

LEMMA TermMarkHolds ==
  ASSUME IInv, HInv, NEW t \in Threads, TermMark(t)
  PROVE  HInv'
<1> USE ThreadsAssumption DEF TermMark, Running, Goto
<1> USE DEF IInv, TypeOK, HInv
<1>1. Holders'
  BY DEF Holders, Waiting, Detach
<1>2. Flagged'
  BY DEF Flagged
<1>3. UnderLock'
  BY DEF UnderLock, On, Processor
<1>4. Fresh'
  BY DEF Fresh, Creating
<1>5. Held'
  BY DEF Held, Over
<1>6. Blocked'
  BY DEF Blocked
<1> QED
  BY <1>1, <1>2, <1>3, <1>4, <1>5, <1>6 DEF HInv

LEMMA TermReturnHolds ==
  ASSUME IInv, HInv, NEW t \in Threads, TermReturn(t)
  PROVE  HInv'
<1> USE ThreadsAssumption DEF TermReturn, Running, Goto
<1> USE DEF IInv, TypeOK, HInv
<1>1. Holders'
  BY DEF Holders, Waiting, Detach
<1>2. Flagged'
  BY DEF Flagged
<1>3. UnderLock'
  BY DEF UnderLock, On
<1>4. Fresh'
  BY DEF Fresh, Creating
<1>5. Held'
  BY DEF Held, Over
<1>6. Blocked'
  BY DEF Blocked
<1> QED
  BY <1>1, <1>2, <1>3, <1>4, <1>5, <1>6 DEF HInv

LEMMA TermSignalHolds ==
  ASSUME IInv, HInv, NEW t \in Threads, TermSignal(t)
  PROVE  HInv'
<1> USE ThreadsAssumption DEF TermSignal, Running, Goto
<1> USE DEF IInv, TypeOK, HInv
<1>1. Holders'
  BY DEF Holders, Waiting, Detach
<1>2. Flagged'
  BY DEF Flagged
<1>3. UnderLock'
  BY DEF UnderLock, On
<1>4. Fresh'
  BY DEF Fresh, Creating
<1>5. Held'
  BY DEF Held, Over
<1>6. Blocked'
  BY DEF Blocked
<1> QED
  BY <1>1, <1>2, <1>3, <1>4, <1>5, <1>6 DEF HInv

LEMMA TermYieldHolds ==
  ASSUME IInv, HInv, NEW t \in Threads, TermYield(t)
  PROVE  HInv'
<1> USE ThreadsAssumption DEF TermYield, Running
<1> USE DEF IInv, TypeOK, HInv, SwitchToScheduler
<1>1. Holders'
  BY DEF Holders
<1>2. Flagged'
  BY DEF Flagged
<1>3. UnderLock'
  BY DEF UnderLock, On
<1>4. Fresh'
  BY DEF Fresh
<1>5. Held'
  BY DEF Held, Over
<1>6. Blocked'
  BY DEF Blocked
<1> QED
  BY <1>1, <1>2, <1>3, <1>4, <1>5, <1>6 DEF HInv

LEMMA YieldThreadHolds ==
  ASSUME IInv, HInv, NEW t \in Threads, YieldThread(t)
  PROVE  HInv'
<1> USE ThreadsAssumption DEF YieldThread, Running
<1> USE DEF IInv, TypeOK, HInv, SwitchToScheduler
<1>1. Holders'
  BY DEF Holders
<1>2. Flagged'
  BY DEF Flagged
<1>3. UnderLock'
  BY DEF UnderLock, On
<1>4. Fresh'
  BY DEF Fresh
<1>5. Held'
  BY DEF Held, Over
<1>6. Blocked'
  BY DEF Blocked
<1> QED
  BY <1>1, <1>2, <1>3, <1>4, <1>5, <1>6 DEF HInv

LEMMA ClearConditionHolds ==
  ASSUME IInv, HInv, NEW t \in Threads, NEW c \in Conds, ClearCondition(t, c)
  PROVE  HInv'
<1> USE ThreadsAssumption DEF ClearCondition, Running
<1> USE DEF IInv, TypeOK, HInv
<1>1. Holders'
  BY DEF Holders
<1>2. Flagged'
  BY DEF Flagged
<1>3. UnderLock'
  BY DEF UnderLock, On
<1>4. Fresh'
  BY DEF Fresh
<1>5. Held'
  BY DEF Held, Over
<1>6. Blocked'
  BY DEF Blocked
<1> QED
  BY <1>1, <1>2, <1>3, <1>4, <1>5, <1>6 DEF HInv

LEMMA SignalConditionHolds ==
  ASSUME IInv, HInv, NEW c \in Conds, SignalCondition(c)
  PROVE  HInv'
<1> USE ThreadsAssumption DEF SignalCondition
<1> USE DEF IInv, TypeOK, HInv
<1>1. Holders'
  BY DEF Holders
<1>2. Flagged'
  BY DEF Flagged
<1>3. UnderLock'
  BY DEF UnderLock, On
<1>4. Fresh'
  BY DEF Fresh
<1>5. Held'
  BY DEF Held, Over
<1>6. Blocked'
  BY DEF Blocked
<1> QED
  BY <1>1, <1>2, <1>3, <1>4, <1>5, <1>6 DEF HInv

LEMMA CleanTryHolds ==
  ASSUME IInv, HInv, CleanTry
  PROVE  HInv'
<1> USE ThreadsAssumption DEF CleanTry, Free
<1> USE DEF IInv, TypeOK, HInv, SwitchToScheduler
<1>1. Holders'
  BY DEF Holders
<1>2. Flagged'
  BY DEF Flagged
<1>3. UnderLock'
  BY DEF UnderLock, On
<1>4. Fresh'
  BY DEF Fresh
<1>5. Held'
  BY DEF Held, Over
<1>6. Blocked'
  BY DEF Blocked
<1> QED
  BY <1>1, <1>2, <1>3, <1>4, <1>5, <1>6 DEF HInv

LEMMA CleanUnlockHolds ==
  ASSUME IInv, HInv, CleanUnlock
  PROVE  HInv'
<1> USE ThreadsAssumption DEF CleanUnlock
<1> USE DEF IInv, TypeOK, HInv
<1>1. Holders'
  BY DEF Holders
<1>2. Flagged'
  BY DEF Flagged
<1>3. UnderLock'
  BY DEF UnderLock
<1>4. Fresh'
  BY DEF Fresh
<1>5. Held'
  BY DEF Held, Over
<1>6. Blocked'
  BY DEF Blocked
<1> QED
  BY <1>1, <1>2, <1>3, <1>4, <1>5, <1>6 DEF HInv

LEMMA CleanDoneHolds ==
  ASSUME IInv, HInv, CleanDone
  PROVE  HInv'
<1> USE ThreadsAssumption DEF CleanDone
<1> USE DEF IInv, TypeOK, HInv, SwitchToScheduler
<1>1. Holders'
  BY DEF Holders
<1>2. Flagged'
  BY DEF Flagged
<1>3. UnderLock'
  BY DEF UnderLock, On
<1>4. Fresh'
  BY DEF Fresh
<1>5. Held'
  BY DEF Held, Over
<1>6. Blocked'
  BY DEF Blocked
<1> QED
  BY <1>1, <1>2, <1>3, <1>4, <1>5, <1>6 DEF HInv

LEMMA TimerHolds ==
  ASSUME IInv, HInv, Timer
  PROVE  HInv'
<1> USE ThreadsAssumption DEF Timer
<1> USE DEF IInv, TypeOK, HInv, SwitchToScheduler
<1>1. Holders'
  BY DEF Holders
<1>2. Flagged'
  BY DEF Flagged
<1>3. UnderLock'
  BY DEF UnderLock, On
<1>4. Fresh'
  BY DEF Fresh
<1>5. Held'
  BY DEF Held, Over
<1>6. Blocked'
  BY DEF Blocked
<1> QED
  BY <1>1, <1>2, <1>3, <1>4, <1>5, <1>6 DEF HInv


-----------------------------------------------------------------------------
(* The actions that change lists.                                          *)

(* The head of a list is a thread on it. *)
LEMMA HeadOn ==
  ASSUME TypeOK, NEW l \in ListNames, list[l] # <<>>
  PROVE  Head(list[l]) \in Threads /\ On(l, Head(list[l]))
<1>1. list[l] \in Seq(Threads)
  BY DEF TypeOK
<1>2. 1 \in DOMAIN list[l] /\ Head(list[l]) = list[l][1] /\ list[l][1] \in Threads
  BY <1>1
<1> QED
  BY <1>2 DEF On, In

(* A step that leaves the delete list, the locks, the flags, the handles   *)
(* and the places of the threads alone, and moves threads only between     *)
(* READY, RUNNING and COND_WAIT.                                           *)
Dispatch ==
  /\ list'["deletes"] = list["deletes"]
  /\ UNCHANGED <<lock, pc, cpc, arg, detached, wait, owner>>
  /\ \A u \in Threads : state'[u] # state[u] =>
       /\ state[u] \notin {"INVALID", "CREATED", "DETACHED"}
       /\ state'[u] \notin {"INVALID", "CREATED", "DETACHED", "COND_WAIT"}
       /\ state[u] = "READY" => Free("ready")

LEMMA DispatchHolds ==
  ASSUME IInv, HInv, Dispatch
  PROVE  HInv'
<1> USE ThreadsAssumption DEF IInv, TypeOK, HInv, Dispatch, Free
<1>1. Holders' /\ Fresh'
  BY DEF Holders, Fresh
<1>2. Flagged'
  BY DEF Flagged
<1>3. UnderLock'
  BY DEF UnderLock, On, In
<1>4. Held'
  BY DEF Held
<1>5. Blocked'
  BY DEF Blocked
<1> QED
  BY <1>1, <1>2, <1>3, <1>4, <1>5 DEF HInv

LEMMA SchedulerHolds ==
  ASSUME IInv, HInv, SchedTakeWaiting \/ SchedTestWaiting \/ SchedResume \/ SchedPick
  PROVE  HInv'
<1> USE ThreadsAssumption DEF IInv
<1>1. ASSUME SchedTakeWaiting \/ SchedTestWaiting
      PROVE  Dispatch
  BY <1>1 DEF SchedTakeWaiting, SchedTestWaiting, Dispatch, TypeOK, ListNames
<1>2. ASSUME SchedResume
      PROVE  Dispatch
  <2>1. \A u \in Threads : On("resume", u) => state[u] = "COND_WAIT"
    BY DEF Matches
  <2>2. list'["deletes"] = list["deletes"]
    BY <1>2 DEF SchedResume, TypeOK, ListNames
  <2> QED
    BY <1>2, <2>1, <2>2 DEF SchedResume, Dispatch
<1>3. ASSUME SchedPick
      PROVE  Dispatch
  <2>1. CASE list["ready"] = <<>>
    BY <1>3, <2>1 DEF SchedPick, Dispatch
  <2>2. ASSUME list["ready"] # <<>>
        PROVE  Dispatch
    <3> DEFINE t == Head(list["ready"])
    <3>1. t \in Threads /\ state[t] = "READY"
      BY <2>2, HeadOn DEF Matches, ListNames
    <3> HIDE DEF t
    <3>2. /\ state' = [state EXCEPT ![t] = "RUNNING"] /\ Free("ready")
          /\ list' = [list EXCEPT !["ready"] = Tail(@)]
          /\ UNCHANGED <<lock, pc, cpc, arg, detached, wait, owner>>
      BY <1>3, <2>2 DEF SchedPick, t
    <3>3. list'["deletes"] = list["deletes"]
      BY <3>2 DEF TypeOK, ListNames
    <3> QED
      BY <3>1, <3>2, <3>3 DEF Dispatch, TypeOK
  <2> QED
    BY <2>1, <2>2
<1> HIDE DEF IInv
<1> QED
  BY <1>1, <1>2, <1>3, DispatchHolds

(* RunThread puts a thread back: on the delete list only when nobody holds *)
(* that list's lock.                                                       *)
LEMMA SchedRequeueHolds ==
  ASSUME IInv, HInv, SchedRequeue
  PROVE  HInv'
<1> USE ThreadsAssumption DEF IInv, TypeOK, HInv
<1>1. /\ UNCHANGED <<lock, pc, cpc, arg, detached, wait, owner>>
      /\ \A u \in Threads : state'[u] # state[u] => state[u] = "RUNNING" /\ state'[u] = "READY"
  BY DEF SchedRequeue, RequeueList
<1>2. list'["deletes"] = list["deletes"] \/ Free("deletes")
  BY DEF SchedRequeue, RequeueList, ListNames
<1>3. Holders' /\ Fresh'
  BY <1>1 DEF Holders, Fresh
<1>4. Flagged'
  BY <1>1 DEF Flagged
<1>5. UnderLock'
  BY <1>1, <1>2 DEF UnderLock, On, In, Free
<1>6. Held'
  BY <1>1 DEF Held
<1>7. Blocked'
  BY <1>1 DEF Blocked
<1> QED
  BY <1>3, <1>4, <1>5, <1>6, <1>7 DEF HInv

(* The cleanup thread takes the delete list when nobody holds its lock.    *)
LEMMA CleanTakeHolds ==
  ASSUME IInv, HInv, CleanTake
  PROVE  HInv'
<1> USE ThreadsAssumption DEF IInv, TypeOK, HInv, CleanTake, Free
<1>1. Holders' /\ Fresh'
  BY DEF Holders, Fresh
<1>2. Flagged'
  BY DEF Flagged
<1>3. UnderLock'
  BY DEF UnderLock
<1>4. Held'
  BY DEF Held
<1>5. Blocked'
  BY DEF Blocked
<1> QED
  BY <1>1, <1>2, <1>3, <1>4, <1>5 DEF HInv

(* A slot goes back to the pool when nobody holds the thread's handle: its *)
(* holder would be in DetachThread, where it is not on the list that was   *)
(* taken.                                                                  *)
LEMMA DestroyThreadHolds ==
  ASSUME IInv, HInv, DestroyThread
  PROVE  HInv'
<1> USE ThreadsAssumption DEF IInv, TypeOK, HInv
<1> DEFINE d == Head(list["doomed"])
<1>1. d \in Threads /\ On("doomed", d) /\ state[d] = "DETACHED"
  BY HeadOn DEF DestroyThread, Matches, ListNames
<1> HIDE DEF d
<1>2. /\ cur = Cleaner /\ state' = [state EXCEPT ![d] = "INVALID"]
      /\ UNCHANGED <<lock, pc, cpc, arg, detached, wait, owner>>
      /\ list'["deletes"] = list["deletes"]
  BY DEF DestroyThread, d, ListNames
<1>3. ~On("deletes", d)
  BY <1>1 DEF OneList, Exclusive, On, In, ListNames
<1>4. owner[d] = None
  <2> SUFFICES ASSUME owner[d] # None
               PROVE  FALSE
    OBVIOUS
  <2> DEFINE v == owner[d]
  <2>1. v \in Threads /\ detached[d] /\ arg[v] = d /\ pc[v] \in Detach \ {"detach"}
    BY <1>1 DEF Held, Flagged
  <2>2. pc[v] \notin {"detach_check", "detach_mark", "detach_push"}
    BY <1>1, <1>2, <2>1 DEF Detachers, ListNames
  <2>3. pc[v] # "detach_unlock"
    BY <1>3, <2>1 DEF UnderLock
  <2> QED
    BY <2>1, <2>2, <2>3 DEF Detach
<1>5. \A w \in Threads : owner[w] # d
  BY <1>1 DEF Held, Finished, Ending, Over
<1>6. Holders' /\ Fresh'
  BY <1>2 DEF Holders, Fresh
<1>7. Flagged'
  BY <1>1, <1>2 DEF Flagged
<1>8. UnderLock'
  BY <1>1, <1>2 DEF UnderLock, On, In
<1>9. Held'
  BY <1>1, <1>2, <1>4, <1>5 DEF Held
<1>10. Blocked'
  BY <1>1, <1>2 DEF Blocked
<1> QED
  BY <1>6, <1>7, <1>8, <1>9, <1>10 DEF HInv

(* The slot that CreateThread takes has no holder, and no thread's operand *)
(* is in it.                                                               *)
LEMMA CreatePopHolds ==
  ASSUME IInv, HInv, NEW t \in Threads, CreatePop(t)
  PROVE  HInv'
<1> USE ThreadsAssumption DEF IInv, TypeOK, HInv
<1> DEFINE u == Head(list["pool"])
<1>1. u \in Threads /\ state[u] = "INVALID" /\ cur = t /\ pc[t] = "create_pop"
  BY HeadOn DEF CreatePop, Running, PoolLock, Matches, ListNames
<1> HIDE DEF u
<1>2. /\ state' = [state EXCEPT ![u] = "CREATED"]
      /\ detached' = [detached EXCEPT ![u] = FALSE]
      /\ wait' = [wait EXCEPT ![u] = None]
      /\ arg' = [arg EXCEPT ![t] = u, ![u] = None]
      /\ pc' = [pc EXCEPT ![t] = "create_queue", ![u] = "user"]
      /\ owner' = [owner EXCEPT ![u] = None]
      /\ lock' = [lock EXCEPT !["pool"] = None]
      /\ list'["deletes"] = list["deletes"]
      /\ UNCHANGED cpc
  BY DEF CreatePop, u, ListNames
<1>3. u # t /\ owner[u] = None /\ (\A w \in Threads : owner[w] # u)
  BY <1>1 DEF Held, Processor
<1>4. \A v \in Threads :
        arg[v] = u => pc[v] \notin Waiting \cup Detach \cup {"create_unlock"}
  BY <1>1, <1>3 DEF Holders, UnderLock
<1>5. Holders'
  BY <1>2, <1>3, <1>4 DEF Holders, Waiting, Detach
<1>6. Flagged'
  BY <1>1, <1>2, <1>3 DEF Flagged
<1>7. UnderLock'
  BY <1>1, <1>2, <1>3, <1>4 DEF UnderLock, On, In
<1>8. Fresh'
  BY <1>1, <1>2, <1>3, <1>4 DEF Fresh, Creating, Operands, UnderLock
<1>9. Held'
  <2> SUFFICES ASSUME NEW w \in Threads, owner'[w] # None
               PROVE  /\ state'[w] \notin {"INVALID", "CREATED"}
                      /\ state'[owner'[w]] # "INVALID" /\ pc'[owner'[w]] \notin Over
                      /\ detached'[w] => /\ pc'[owner'[w]] \in Detach \ {"detach"}
                                         /\ arg'[owner'[w]] = w
    BY DEF Held
  <2>1. PICK v \in Threads : v = owner[w] /\ v = owner'[w] /\ w # u /\ v # u
    BY <1>1, <1>2, <1>3
  <2>2. /\ state'[w] = state[w] /\ state'[v] = state[v] /\ detached'[w] = detached[w]
        /\ v # t => pc'[v] = pc[v] /\ arg'[v] = arg[v]
        /\ pc'[t] = "create_queue"
    BY <1>1, <1>2, <1>3, <2>1
  <2>3. /\ state[w] \notin {"INVALID", "CREATED"}
        /\ state[v] # "INVALID" /\ pc[v] \notin Over
        /\ detached[w] => pc[v] \in Detach \ {"detach"} /\ arg[v] = w
    BY <2>1 DEF Held
  <2>4. v = t => ~detached[w]
    BY <1>1, <2>3 DEF Detach
  <2> QED
    BY <2>1, <2>2, <2>3, <2>4 DEF Over
<1>10. Blocked'
  BY <1>1, <1>2, <1>3 DEF Blocked, Processor
<1> QED
  BY <1>5, <1>6, <1>7, <1>8, <1>9, <1>10 DEF HInv

LEMMA CreateQueueHolds ==
  ASSUME IInv, HInv, NEW t \in Threads, CreateQueue(t)
  PROVE  HInv'
<1> USE ThreadsAssumption DEF IInv, TypeOK, HInv
<1>1. PICK u \in Threads : /\ u = arg[t] /\ state[u] = "CREATED"
                          /\ pc[t] = "create_queue" /\ Free("ready")
  BY DEF CreateQueue, Running, Operands, Creators
<1>2. /\ state' = [state EXCEPT ![u] = "READY"]
      /\ pc' = [pc EXCEPT ![t] = "create_unlock"]
      /\ lock' = [lock EXCEPT !["ready"] = t]
      /\ list'["deletes"] = list["deletes"]
      /\ UNCHANGED <<cpc, arg, detached, wait, owner>>
  BY <1>1 DEF CreateQueue, Goto, ListNames
<1>3. Holders' /\ Fresh'
  BY <1>1, <1>2 DEF Holders, Waiting, Detach, Fresh, Creating
<1>4. Flagged'
  BY <1>1, <1>2 DEF Flagged
<1>5. UnderLock'
  BY <1>1, <1>2 DEF UnderLock, On, In, Free
<1>6. Held'
  BY <1>1, <1>2 DEF Held, Detach, Over
<1>7. Blocked'
  BY <1>1, <1>2 DEF Blocked
<1> QED
  BY <1>3, <1>4, <1>5, <1>6, <1>7 DEF HInv

LEMMA DetachPushHolds ==
  ASSUME IInv, HInv, NEW t \in Threads, DetachPush(t)
  PROVE  HInv'
<1> USE ThreadsAssumption DEF IInv, TypeOK, HInv
<1>1. PICK u \in Threads : state[u] = "DETACHED" /\ pc[t] = "detach_push" /\ u = arg[t]
  BY DEF DetachPush, Running, Operands, Detachers
<1>2. /\ pc' = [pc EXCEPT ![t] = "detach_unlock"]
      /\ lock' = [lock EXCEPT !["deletes"] = t]
      /\ list' = [list EXCEPT !["deletes"] = <<u>> \o list["deletes"]]
      /\ UNCHANGED <<cpc, arg, state, detached, wait, owner>>
      /\ Free("deletes")
  BY <1>1 DEF DetachPush, Goto, Queued
<1>3. On("deletes", u)'
  <2>1. list["deletes"] \in Seq(Threads) /\ list'["deletes"] = <<u>> \o list["deletes"]
    BY <1>2 DEF ListNames
  <2>2. 1 \in DOMAIN (<<u>> \o list["deletes"]) /\ (<<u>> \o list["deletes"])[1] = u
    BY <1>1, <2>1
  <2> QED
    BY <2>1, <2>2 DEF On, In
<1>4. Holders' /\ Fresh'
  BY <1>1, <1>2 DEF Holders, Waiting, Detach, Fresh, Creating
<1>5. Flagged'
  BY <1>1, <1>2 DEF Flagged
<1>6. UnderLock'
  BY <1>1, <1>2, <1>3 DEF UnderLock, Free
<1>7. Held'
  BY <1>1, <1>2 DEF Held, Detach, Over
<1>8. Blocked'
  BY <1>1, <1>2 DEF Blocked
<1> QED
  BY <1>4, <1>5, <1>6, <1>7, <1>8 DEF HInv

-----------------------------------------------------------------------------
LEMMA InitHolds == Init => HInv
<1> USE ThreadsAssumption
<1> SUFFICES ASSUME Init PROVE HInv
  OBVIOUS
<1>1. \A t \in Threads : pc[t] = "user" /\ owner[t] = None /\ arg[t] = None
                           /\ state[t] \in {"READY", "INVALID"}
  BY DEF Init
<1>2. cpc = "clean_try"
  BY DEF Init
<1> QED
  BY <1>1, <1>2 DEF HInv, Holders, Flagged, UnderLock, Fresh, Held, Blocked, Waiting, Detach,
                    Creating

LEMMA StepHolds ==
  ASSUME IInv, HInv, [Next]_vars
  PROVE  HInv'
<1>1. CASE SchedStep
  BY <1>1, SchedulerHolds, SchedRequeueHolds DEF SchedStep
<1>2. CASE CleanStep
  BY <1>2, CleanTryHolds, CleanTakeHolds, CleanUnlockHolds, DestroyThreadHolds, CleanDoneHolds
     DEF CleanStep
<1>3. ASSUME NEW t \in Threads, KernelStep(t) PROVE HInv'
  <2>1. CASE CreatePop(t) \/ CreateQueue(t) \/ CreateUnlock(t)
    BY <2>1, CreatePopHolds, CreateQueueHolds, CreateUnlockHolds
  <2>2. CASE WaitTest(t) \/ WaitBlock(t) \/ WaitYield(t) \/ WaitRead(t)
    BY <2>2, WaitTestHolds, WaitBlockHolds, WaitYieldHolds, WaitReadHolds
  <2>3. CASE DetachFlag(t) \/ DetachCheck(t) \/ DetachMark(t) \/ DetachPush(t) \/ DetachUnlock(t)
    BY <2>3, DetachFlagHolds, DetachCheckHolds, DetachMarkHolds, DetachPushHolds,
       DetachUnlockHolds
  <2>4. CASE TermDetached(t) \/ TermMark(t) \/ TermReturn(t) \/ TermSignal(t) \/ TermYield(t)
    BY <2>4, TermDetachedHolds, TermMarkHolds, TermReturnHolds, TermSignalHolds, TermYieldHolds
  <2> QED BY <1>3, <2>1, <2>2, <2>3, <2>4 DEF KernelStep
<1>4. ASSUME NEW t \in Threads, Call(t) PROVE HInv'
  BY <1>4, CreateThreadHolds, WaitThreadHolds, DetachThreadHolds, WaitConditionHolds,
     ClearConditionHolds, TerminateThreadHolds, YieldThreadHolds DEF Call
<1>5. ASSUME NEW c \in Conds, SignalCondition(c) PROVE HInv'
  BY <1>5, SignalConditionHolds
<1>6. CASE Timer
  BY <1>6, TimerHolds
<1>7. CASE UNCHANGED vars
  BY <1>7 DEF vars, HInv, Holders, Flagged, UnderLock, Fresh, Held, Blocked, On
<1> QED BY <1>1, <1>2, <1>3, <1>4, <1>5, <1>6, <1>7 DEF Next

LEMMA HandlesInvariant ==
  ASSUME "detach_check" \notin TimerPoints PROVE Spec => [](IInv /\ HInv)
<1>1. Spec => []IInv
  BY Invariance
<1>2. IInv /\ HInv /\ [Next]_vars => HInv'
  BY StepHolds
<1> QED BY <1>1, <1>2, InitHolds, PTL DEF Spec

(* The slot of a thread that somebody waits for is neither destroyed nor   *)
(* on its way to be (k_proc_WaitThread, k_proc_DetachThread): whoever      *)
(* could detach it holds its handle, which is the waiting thread.          *)
THEOREM WaitedThreadsLive ==
  ASSUME "detach_check" \notin TimerPoints PROVE Spec => []WaitedThreadLives
<1>1. ASSUME IInv, HInv
      PROVE  WaitedThreadLives
  <2> SUFFICES ASSUME NEW t \in Threads, wait[t] \in Threads,
                      On("waiting", t) \/ On("scan", t) \/ On("resume", t)
               PROVE  state[wait[t]] \notin {"INVALID", "DETACHED", "CREATED"}
    BY DEF WaitedThreadLives
  <2>1. state[t] = "COND_WAIT"
    BY <1>1 DEF IInv, Matches
  <2>2. arg[t] = wait[t] /\ pc[t] \in Waiting
    BY <1>1, <2>1 DEF HInv, Blocked, Waiting
  <2>3. owner[wait[t]] = t /\ ~detached[wait[t]]
    BY <1>1, <2>2 DEF HInv, Holders
  <2>4. owner[wait[t]] # None
    BY <2>3, ThreadsAssumption
  <2> QED
    BY <1>1, <2>3, <2>4 DEF HInv, Held, Flagged
<1> QED BY <1>1, HandlesInvariant, PTL

-----------------------------------------------------------------------------
(***************************************************************************)
(* The value of the thread that was waited for.                            *)
(***************************************************************************)

(* The step delivers, announces and ends nothing: no value, no condition   *)
(* of a thread and no end changes, nobody comes to the end of a wait, and  *)
(* a thread between its end and its value keeps the processor.             *)
Quiet ==
  \A u \in Threads :
    /\ ret'[u] = ret[u] /\ cond'[u] = cond[u]
    /\ detached[u] => detached'[u]
    /\ pc'[u] \in {"wait_yield", "wait_read"} /\ state'[u] # "COND_WAIT" =>
         /\ pc[u] \in {"wait_yield", "wait_read"} /\ state[u] # "COND_WAIT"
         /\ arg'[u] = arg[u]
    /\ pc'[u] = "term_signal" => pc[u] = "term_signal"
    /\ state'[u] = "TERMINATED" => state[u] = "TERMINATED"
    /\ pc'[u] = "term_return" <=> pc[u] = "term_return"
    /\ pc[u] = "term_return" /\ cur = u => cur' = u

LEMMA QuietValues ==
  ASSUME TypeOK, Values, Quiet
  PROVE  Delivered' /\ Announced' /\ Ended'
<1>1. Delivered'
  BY DEF TypeOK, Values, Quiet, Delivered
<1>2. Announced'
  BY DEF Values, Quiet, Announced
<1>3. Ended'
  BY DEF Values, Quiet, Ended
<1> QED
  BY <1>1, <1>2, <1>3

(* The calls that change nothing but where the thread is. *)
LEMMA QuietCalls ==
  ASSUME IInv, NEW t \in Threads, CreateThread(t) \/ TerminateThread(t) \/ YieldThread(t)
  PROVE  Quiet
<1> USE DEF IInv, TypeOK, Running, Goto, SwitchToScheduler, Quiet
<1>1. CASE CreateThread(t)
  BY <1>1 DEF CreateThread
<1>2. CASE TerminateThread(t)
  BY <1>2 DEF TerminateThread
<1>3. CASE YieldThread(t)
  BY <1>3 DEF YieldThread
<1> QED
  BY <1>1, <1>2, <1>3

LEMMA QuietDetachThread ==
  ASSUME IInv, NEW t \in Threads, NEW u \in Threads, DetachThread(t, u)
  PROVE  Quiet
BY DEF IInv, TypeOK, Running, Goto, DetachThread, Quiet

LEMMA QuietConditions ==
  ASSUME IInv, NEW t \in Threads, NEW c \in Conds, WaitCondition(t, c) \/ ClearCondition(t, c)
  PROVE  Quiet
<1> USE ThreadsAssumption DEF IInv, TypeOK, Running, Goto, Quiet
<1>1. CASE WaitCondition(t, c)
  BY <1>1 DEF WaitCondition
<1>2. CASE ClearCondition(t, c)
  BY <1>2 DEF ClearCondition
<1> QED
  BY <1>1, <1>2

LEMMA QuietThreads ==
  ASSUME IInv, HInv, NEW t \in Threads,
         \/ CreateQueue(t) \/ CreateUnlock(t)
         \/ WaitBlock(t) \/ WaitYield(t) \/ WaitRead(t)
         \/ DetachFlag(t) \/ DetachCheck(t) \/ DetachMark(t) \/ DetachPush(t) \/ DetachUnlock(t)
         \/ TermYield(t)
  PROVE  Quiet
<1> USE ThreadsAssumption DEF IInv, TypeOK, HInv, Running, Goto, Free, SwitchToScheduler, Quiet
<1>1. CASE CreateQueue(t)
  BY <1>1 DEF CreateQueue, Operands, Creators
<1>2. CASE CreateUnlock(t)
  BY <1>2 DEF CreateUnlock
<1>3. CASE WaitBlock(t)
  BY <1>3 DEF WaitBlock
<1>4. CASE WaitYield(t)
  BY <1>4 DEF WaitYield, AfterWait, Processor
<1>5. CASE WaitRead(t)
  BY <1>5 DEF WaitRead
<1>6. CASE DetachFlag(t)
  BY <1>6 DEF DetachFlag, DropHandle, Operands
<1>7. CASE DetachCheck(t)
  BY <1>7 DEF DetachCheck, DropHandle
<1>8. CASE DetachMark(t)
  BY <1>8 DEF DetachMark, Operands, Detachers, Finished, Ending
<1>9. CASE DetachPush(t)
  BY <1>9 DEF DetachPush, DropHandle
<1>10. CASE DetachUnlock(t)
  BY <1>10 DEF DetachUnlock, DropHandle
<1>11. CASE TermYield(t)
  BY <1>11 DEF TermYield
<1> QED
  BY <1>1, <1>2, <1>3, <1>4, <1>5, <1>6, <1>7, <1>8, <1>9, <1>10, <1>11

(* The scheduler's steps, but for the one that resumes threads, the        *)
(* cleanup thread's, and the interrupts, of which the timer must not come  *)
(* between a thread's end and its value.                                   *)
LEMMA QuietScheduler ==
  ASSUME IInv, SchedTakeWaiting \/ SchedTestWaiting \/ SchedPick \/ SchedRequeue \/ CleanStep
  PROVE  Quiet
<1> USE ThreadsAssumption DEF IInv, TypeOK, Quiet
<1>1. CASE SchedTakeWaiting \/ SchedTestWaiting
  BY <1>1 DEF SchedTakeWaiting, SchedTestWaiting
<1>2. CASE SchedPick
  <2>1. CASE list["ready"] = <<>>
    BY <1>2, <2>1 DEF SchedPick
  <2>2. ASSUME list["ready"] # <<>> PROVE Quiet
    <3> DEFINE t == Head(list["ready"])
    <3>1. t \in Threads /\ state[t] = "READY"
      BY <2>2, HeadOn DEF Matches, ListNames
    <3> HIDE DEF t
    <3>2. /\ state' = [state EXCEPT ![t] = "RUNNING"] /\ cur = Scheduler
          /\ UNCHANGED <<pc, arg, detached, cond, ret>>
      BY <1>2, <2>2 DEF SchedPick, t
    <3> QED
      BY <3>1, <3>2
  <2> QED
    BY <2>1, <2>2
<1>3. CASE SchedRequeue
  BY <1>3 DEF SchedRequeue, RequeueList
<1>4. CASE CleanTry \/ CleanTake \/ CleanUnlock \/ CleanDone
  BY <1>4 DEF CleanTry, CleanTake, CleanUnlock, CleanDone
<1>5. CASE DestroyThread
  <2> DEFINE d == Head(list["doomed"])
  <2>1. d \in Threads /\ state[d] = "DETACHED"
    BY <1>5, HeadOn DEF DestroyThread, Matches, ListNames
  <2> HIDE DEF d
  <2>2. /\ state' = [state EXCEPT ![d] = "INVALID"]
        /\ UNCHANGED <<cur, pc, arg, detached, cond, ret>>
    BY <1>5 DEF DestroyThread, d
  <2>3. pc[d] \in Ending
    BY <2>1 DEF Finished
  <2> QED
    BY <2>1, <2>2, <2>3 DEF Ending
<1> QED
  BY <1>1, <1>2, <1>3, <1>4, <1>5 DEF CleanStep

LEMMA QuietInterrupts ==
  ASSUME IInv, "term_return" \notin TimerPoints,
         Timer \/ \E c \in Conds : SignalCondition(c)
  PROVE  Quiet
<1> USE ThreadsAssumption DEF IInv, TypeOK, Quiet, SwitchToScheduler
<1>1. CASE Timer
  BY <1>1 DEF Timer
<1>2. ASSUME NEW c \in Conds, SignalCondition(c) PROVE Quiet
  <2>1. c \notin Threads /\ cond' = [cond EXCEPT ![c] = TRUE]
    BY <1>2 DEF SignalCondition
  <2>2. \A u \in Threads : cond'[u] = cond[u]
    BY <2>1
  <2>3. UNCHANGED <<cur, pc, arg, state, detached, ret>>
    BY <1>2 DEF SignalCondition
  <2> QED
    BY <2>2, <2>3
<1> QED
  BY <1>1, <1>2

(* Conditions change while the scheduler is not running, and then nobody   *)
(* is on the resume list.                                                  *)
NobodyResumed == list["resume"] = <<>> /\ list'["resume"] = <<>>

LEMMA OthersResumeNobody ==
  ASSUME IInv, \/ CleanStep
               \/ \E t \in Threads : KernelStep(t) \/ Call(t)
               \/ Timer \/ \E c \in Conds : SignalCondition(c)
  PROVE  NobodyResumed
<1> USE ThreadsAssumption DEF IInv, TypeOK, ListNames, Running
<1>1. ASSUME cur # Scheduler, list'["resume"] = list["resume"]
      PROVE  NobodyResumed
  BY <1>1 DEF Processor, LocalLists, NobodyResumed
<1>2. CASE CleanStep
  <2>1. cur = Cleaner /\ list'["resume"] = list["resume"]
    BY <1>2 DEF CleanStep, CleanTry, CleanTake, CleanUnlock, DestroyThread, CleanDone
  <2> QED
    BY <1>1, <2>1
<1>3. ASSUME NEW t \in Threads, KernelStep(t) PROVE NobodyResumed
  <2>1. cur = t /\ list'["resume"] = list["resume"]
    BY <1>3 DEF KernelStep, CreatePop, CreateQueue, CreateUnlock, WaitTest, WaitBlock, WaitYield,
       WaitRead, DetachFlag, DetachCheck, DetachMark, DetachPush, DetachUnlock, TermDetached,
       TermMark, TermReturn, TermSignal, TermYield
  <2> QED
    BY <1>1, <2>1
<1>4. ASSUME NEW t \in Threads, Call(t) PROVE NobodyResumed
  <2>1. cur = t /\ list'["resume"] = list["resume"]
    BY <1>4 DEF Call, CreateThread, WaitThread, WaitCondition, DetachThread, TerminateThread,
       YieldThread, ClearCondition
  <2> QED
    BY <1>1, <2>1
<1>5. CASE Timer \/ \E c \in Conds : SignalCondition(c)
  <2>1. cur # Scheduler /\ list'["resume"] = list["resume"]
    BY <1>5 DEF Timer, SignalCondition
  <2> QED
    BY <1>1, <2>1
<1> QED
  BY <1>2, <1>3, <1>4, <1>5

(* A thread is resumed for a condition that is signalled, which it stays   *)
(* until the thread is on the ready list.                                  *)
LEMMA ResumedStep ==
  ASSUME IInv, Values, [Next]_vars
  PROVE  Resumed'
<1> USE DEF IInv, TypeOK
<1>1. CASE SchedStep
  <2>1. UNCHANGED <<cond, wait>>
    BY <1>1 DEF SchedStep, SchedTakeWaiting, SchedTestWaiting, SchedResume, SchedPick,
       SchedRequeue
  <2>2. CASE ~SchedTestWaiting
    <3>1. list'["resume"] \in {list["resume"], <<>>}
      BY <1>1, <2>2 DEF SchedStep, SchedTakeWaiting, SchedResume, SchedPick, SchedRequeue,
         RequeueList, ListNames
    <3> QED
      BY <2>1, <3>1 DEF Values, Resumed, On, In
  <2>3. ASSUME SchedTestWaiting PROVE Resumed'
    <3> DEFINE t == Head(list["scan"])
    <3>1. t \in Threads
      BY <2>3, HeadOn DEF SchedTestWaiting, ListNames
    <3>2. list["resume"] \in Seq(Threads)
      BY DEF ListNames
    <3>3. \/ list'["resume"] = list["resume"]
          \/ list'["resume"] = <<t>> \o list["resume"] /\ cond[wait[t]]
      BY <2>3 DEF SchedTestWaiting, ListNames
    <3> HIDE DEF t
    <3>4. \A i \in DOMAIN (<<t>> \o list["resume"]) :
            \/ (<<t>> \o list["resume"])[i] = t
            \/ /\ i - 1 \in DOMAIN list["resume"]
               /\ (<<t>> \o list["resume"])[i] = list["resume"][i - 1]
      BY <3>1, <3>2
    <3>5. CASE list'["resume"] = list["resume"]
      BY <2>1, <3>5 DEF Values, Resumed, On, In
    <3>6. ASSUME list'["resume"] = <<t>> \o list["resume"], cond[wait[t]], NEW u \in Threads,
                 On("resume", u)'
          PROVE  cond[wait[u]]
      <4>1. PICK i \in DOMAIN (<<t>> \o list["resume"]) : (<<t>> \o list["resume"])[i] = u
        BY <3>6 DEF On, In
      <4>2. u = t \/ On("resume", u)
        BY <3>4, <4>1 DEF On, In
      <4> QED
        BY <3>6, <4>2 DEF Values, Resumed
    <3> QED
      BY <2>1, <3>3, <3>5, <3>6 DEF Resumed
  <2> QED
    BY <2>2, <2>3
<1>2. CASE UNCHANGED vars
  BY <1>2 DEF vars, Values, Resumed, On, In
<1>3. ASSUME NobodyResumed PROVE Resumed'
  BY <1>3 DEF NobodyResumed, Resumed, On, In
<1> HIDE DEF IInv
<1> QED
  BY <1>1, <1>2, <1>3, OthersResumeNobody DEF Next

Right == Delivered /\ Announced /\ Ended

(* A thread that has ended has its value, unless it is still running.      *)
LEMMA WaitThreadRight ==
  ASSUME IInv, HInv, Values, NEW t \in Threads, NEW u \in Threads, WaitThread(t, u)
  PROVE  Right'
<1> USE ThreadsAssumption DEF IInv, TypeOK, Values, WaitThread, Running, Goto
<1>1. Delivered'
  BY DEF Delivered, Ended
<1>2. Announced'
  BY DEF Announced
<1>3. Ended'
  BY DEF Ended
<1> QED
  BY <1>1, <1>2, <1>3 DEF Right

(* A condition that is found signalled was signalled by a thread that left *)
(* its value, for nobody has detached it.                                  *)
LEMMA WaitTestRight ==
  ASSUME IInv, HInv, Values, NEW t \in Threads, WaitTest(t)
  PROVE  Right'
<1> USE ThreadsAssumption DEF IInv, TypeOK, Values, WaitTest, Running, Goto, AfterWait
<1>1. Delivered'
  BY DEF Delivered, Announced, HInv, Holders, Waiting, Operands
<1>2. Announced'
  BY DEF Announced
<1>3. Ended'
  BY DEF Ended
<1> QED
  BY <1>1, <1>2, <1>3 DEF Right

(* TerminateThread's steps: only a detached thread signals its end without *)
(* a value.                                                                *)
LEMMA TerminationRight ==
  ASSUME IInv, HInv, Values, NEW t \in Threads,
         TermDetached(t) \/ TermMark(t) \/ TermReturn(t) \/ TermSignal(t)
  PROVE  Right'
<1> USE ThreadsAssumption DEF IInv, TypeOK, Values, Running, Goto
<1>1. Delivered'
  <2>1. /\ \A v \in Threads \ {t} : pc'[v] = pc[v] /\ state'[v] = state[v]
        /\ pc'[t] \notin {"wait_yield", "wait_read"}
        /\ \A v \in Threads : arg'[v] = arg[v] /\ (ret[v] => ret'[v])
    BY DEF TermDetached, TermMark, TermReturn, TermSignal
  <2> QED
    BY <2>1 DEF Delivered
<1>2. Announced'
  BY DEF Announced, TermDetached, TermMark, TermReturn, TermSignal, HInv, Flagged
<1>3. Ended'
  BY DEF Ended, TermDetached, TermMark, TermReturn, TermSignal
<1> QED
  BY <1>1, <1>2, <1>3 DEF Right

(* A new thread's slot is one that nobody waits for. *)
LEMMA CreatePopRight ==
  ASSUME IInv, HInv, Values, NEW t \in Threads, CreatePop(t)
  PROVE  Right'
<1> USE ThreadsAssumption DEF IInv, TypeOK, HInv
<1> DEFINE u == Head(list["pool"])
<1>1. u \in Threads /\ state[u] = "INVALID" /\ cur = t /\ pc[t] = "create_pop"
  BY HeadOn DEF CreatePop, Running, PoolLock, Matches, ListNames
<1> HIDE DEF u
<1>2. /\ state' = [state EXCEPT ![u] = "CREATED"]
      /\ detached' = [detached EXCEPT ![u] = FALSE]
      /\ cond' = [cond EXCEPT ![u] = FALSE]
      /\ ret' = [ret EXCEPT ![u] = FALSE]
      /\ arg' = [arg EXCEPT ![t] = u, ![u] = None]
      /\ pc' = [pc EXCEPT ![t] = "create_queue", ![u] = "user"]
      /\ UNCHANGED cur
  BY DEF CreatePop, u
<1>3. u # t /\ owner[u] = None
  BY <1>1 DEF Held, Processor
<1>4. \A v \in Threads : arg[v] = u => pc[v] \notin Waiting
  BY <1>1, <1>3 DEF Holders
<1>5. Delivered'
  BY <1>1, <1>2, <1>3, <1>4 DEF Delivered, Values, Waiting
<1>6. Announced'
  BY <1>1, <1>2, <1>3 DEF Announced, Values
<1>7. Ended'
  BY <1>1, <1>2, <1>3 DEF Ended, Values
<1> QED
  BY <1>5, <1>6, <1>7 DEF Right

(* The threads that are resumed waited for a condition that is signalled.  *)
LEMMA SchedResumeRight ==
  ASSUME IInv, HInv, Values, SchedResume
  PROVE  Right'
<1> USE ThreadsAssumption DEF IInv, TypeOK
<1>1. /\ state' = [v \in Threads |-> IF On("resume", v) THEN "READY" ELSE state[v]]
      /\ UNCHANGED <<pc, arg, detached, cond, ret>> /\ cur = Scheduler
  BY DEF SchedResume
<1>2. ASSUME NEW t \in Threads, On("resume", t), arg[t] \in Threads
      PROVE  ret[arg[t]]
  <2>1. state[t] = "COND_WAIT" /\ cond[wait[t]]
    BY <1>2 DEF Matches, Values, Resumed
  <2>2. wait[t] = arg[t] /\ pc[t] \in Waiting
    BY <1>2, <2>1 DEF HInv, Blocked, Waiting
  <2>3. ~detached[arg[t]]
    BY <1>2, <2>2 DEF HInv, Holders
  <2> QED
    BY <1>2, <2>1, <2>2, <2>3 DEF Values, Announced
<1>3. Delivered'
  BY <1>1, <1>2 DEF Delivered, Values
<1>4. Announced'
  BY <1>1 DEF Announced, Values
<1>5. Ended'
  BY <1>1 DEF Ended, Values
<1> QED
  BY <1>3, <1>4, <1>5 DEF Right

LEMMA StepRight ==
  ASSUME IInv, HInv, Values, "term_return" \notin TimerPoints, [Next]_vars
  PROVE  Right'
<1>1. ASSUME Quiet PROVE Right'
  BY <1>1, QuietValues DEF IInv, Right
<1>2. CASE SchedStep
  BY <1>1, <1>2, QuietScheduler, SchedResumeRight DEF SchedStep
<1>3. CASE CleanStep
  BY <1>1, <1>3, QuietScheduler
<1>4. ASSUME NEW t \in Threads, KernelStep(t) PROVE Right'
  BY <1>1, <1>4, QuietThreads, CreatePopRight, WaitTestRight, TerminationRight DEF KernelStep
<1>5. ASSUME NEW t \in Threads, Call(t) PROVE Right'
  <2>1. ASSUME NEW u \in Threads, WaitThread(t, u) PROVE Right'
    BY <2>1, WaitThreadRight
  <2>2. ASSUME NEW u \in Threads, DetachThread(t, u) PROVE Right'
    BY <2>2, <1>1, QuietDetachThread
  <2>3. ASSUME NEW c \in Conds, WaitCondition(t, c) \/ ClearCondition(t, c) PROVE Right'
    BY <2>3, <1>1, QuietConditions
  <2>4. CASE CreateThread(t) \/ TerminateThread(t) \/ YieldThread(t)
    BY <2>4, <1>1, QuietCalls
  <2> QED
    BY <1>5, <2>1, <2>2, <2>3, <2>4 DEF Call
<1>6. CASE Timer \/ \E c \in Conds : SignalCondition(c)
  BY <1>1, <1>6, QuietInterrupts
<1>7. CASE UNCHANGED vars
  BY <1>7 DEF vars, Values, Right, Delivered, Announced, Ended
<1> QED
  BY <1>2, <1>3, <1>4, <1>5, <1>6, <1>7 DEF Next

(* WaitThread returns the value that the thread it waited for had stored,  *)
(* unless the timer comes between a thread's end and its value             *)
(* (k_proc_WaitThread, k_proc_TerminateThread).                            *)
THEOREM WaitReturnsRight ==
  ASSUME "detach_check" \notin TimerPoints, "term_return" \notin TimerPoints
  PROVE  Spec => []WaitReturnsValue
<1>1. Init => Values
  BY ThreadsAssumption DEF Init, Values, Delivered, Resumed, Announced, Ended, On, In, ListNames
<1>2. IInv /\ HInv /\ Values /\ [Next]_vars => Values'
  BY StepRight, ResumedStep DEF Values, Right
<1>3. IInv /\ HInv /\ Values => WaitReturnsValue
  BY ThreadsAssumption DEF IInv, Processor, Operands, Values, Delivered, WaitReturnsValue, Running
<1> QED
  BY <1>1, <1>2, <1>3, HandlesInvariant, PTL DEF Spec

=============================================================================
