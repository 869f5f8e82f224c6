----------------------------- MODULE RunqProofs ------------------------------
(***************************************************************************)
(* Proofs about Runq.                                                      *)
(***************************************************************************)
EXTENDS Runq, LeastNumber, SequenceTheorems, TLAPS

-----------------------------------------------------------------------------
(* Priorities as words and bits.                                             *)

\* A number is its word and its bit.
LEMMA WordAndBit ==
    ASSUME NEW b \in Nat \ {0}, NEW n \in Nat
    PROVE  \E w \in Nat, r \in 0..(b - 1) :
                w = n \div b /\ r = n % b /\ n = w * b + r
<1>1. n \div b \in Nat
  OBVIOUS
<1>2. n % b \in 0..(b - 1)
  OBVIOUS
<1>3. PICK w \in Nat, r \in 0..(b - 1) : w = n \div b /\ r = n % b
  BY <1>1, <1>2
<1>4. n = b * w + r
  BY <1>3
<1>5. n = w * b + r
  BY <1>4
<1> QED
  BY <1>3, <1>5

\* The word and the bit of w * b + r.
LEMMA WordOf ==
    ASSUME NEW b \in Nat \ {0}, NEW w \in Nat, NEW r \in 0..(b - 1)
    PROVE  /\ w * b + r \in Nat
           /\ (w * b + r) \div b = w
           /\ (w * b + r) % b = r
OBVIOUS

\* Numbers of a lower word are smaller.
LEMMA WordOrder ==
    ASSUME NEW b \in Nat \ {0}, NEW m \in Nat, NEW n \in Nat, m \div b < n \div b
    PROVE  m < n
OBVIOUS

\* A level has its word in the map.
LEMMA LevelParts ==
    ASSUME NEW l \in Levels
    PROVE  \E w \in Words, r \in 0..(Bits - 1) :
                w = l \div Bits /\ r = l % Bits /\ l = w * Bits + r
<1>1. l \in Nat /\ MaxPrio \in Nat /\ Bits \in Nat \ {0} /\ l <= MaxPrio
  BY RunqAssumption DEF Levels
<1>2. PICK w \in Nat, r \in 0..(Bits - 1) : w = l \div Bits /\ r = l % Bits /\ l = w * Bits + r
  BY <1>1, WordAndBit
<1>3. MaxPrio \div Bits \in Nat
  BY <1>1, WordAndBit
<1>4. ~(MaxPrio \div Bits < l \div Bits)
  BY <1>1, WordOrder
<1> QED
  BY <1>2, <1>3, <1>4 DEF Words

\* A word and a bit make one level.
LEMMA LevelUnique ==
    ASSUME NEW w \in Words, NEW r \in 0..(Bits - 1)
    PROVE  (w * Bits + r) \div Bits = w /\ (w * Bits + r) % Bits = r
<1>1. MaxPrio \in Nat /\ Bits \in Nat \ {0}
  BY RunqAssumption
<1>2. w \in Nat
  BY <1>1, WordAndBit DEF Words
<1> QED
  BY <1>1, <1>2, WordOf

-----------------------------------------------------------------------------
(* The operators on one list.                                                *)

\* The first position of a list at which a schedee of S stands.
LEMMA FirstPlace ==
    ASSUME NEW q \in Seq(Items), NEW S, \E i \in 1..Len(q) : q[i] \in S
    PROVE  \E i \in 1..Len(q) :
                /\ i = Min({k \in 1..Len(q) : q[k] \in S})
                /\ q[i] \in S
                /\ \A j \in 1..(i - 1) : q[j] \notin S
<1> DEFINE I == {k \in 1..Len(q) : q[k] \in S}
<1>1. I # {} /\ I \subseteq Nat
  OBVIOUS
<1>2. PICK x \in I : \A y \in I : x <= y
  <2> HIDE DEF I
  <2> QED
    BY <1>1, LeastNatural
<1>3. Min(I) \in I /\ \A y \in I : Min(I) <= y
  <2> HIDE DEF I
  <2> QED
    BY <1>2 DEF Min
<1>4. PICK i \in I : i = Min(I) /\ \A y \in I : i <= y
  BY <1>3
<1>5. \A j \in 1..(i - 1) : q[j] \notin S
  <2> TAKE j \in 1..(i - 1)
  <2>1. j \in 1..Len(q) /\ ~(i <= j)
    BY <1>4
  <2> QED
    BY <2>1, <1>4
<1> QED
  BY <1>4, <1>5

\* dlist_del() takes the schedee out of the list it is on.
LEMMA RemovedFrom ==
    ASSUME NEW q \in Seq(Items), NEW s, NEW i \in 1..Len(q), q[i] = s,
           \A j \in 1..Len(q) : q[j] = s => j = i
    PROVE  LET r == RemoveFirst(q, s)
           IN  /\ r \in Seq(Items)
               /\ Len(r) = Len(q) - 1
               /\ \A j \in 1..(i - 1) : r[j] = q[j]
               /\ \A j \in i..Len(r) : r[j] = q[j + 1]
<1> DEFINE r == RemoveFirst(q, s)
           a == SubSeq(q, 1, i - 1)
           b == SubSeq(q, i + 1, Len(q))
<1>1. PICK k \in 1..Len(q) : k = Min({n \in 1..Len(q) : q[n] \in {s}}) /\ q[k] \in {s}
  BY FirstPlace
<1>2. k = i
  BY <1>1
<1>3. {n \in 1..Len(q) : q[n] \in {s}} = {n \in 1..Len(q) : q[n] = s}
  OBVIOUS
<1>4. {n \in 1..Len(q) : q[n] = s} # {}
  OBVIOUS
<1>5. r = RemoveAt(q, i)
  BY <1>1, <1>2, <1>3, <1>4 DEF RemoveFirst, SelectInSeq
<1>6. r = a \o b
  BY <1>5 DEF RemoveAt
<1>7. /\ a \in Seq(Items) /\ Len(a) = i - 1
      /\ \A j \in 1..(i - 1) : a[j] = q[j]
  <2>1. \A j \in 1..(i - 1) : q[j] \in Items
    BY ElementOfSeq
  <2>2. i - 1 \in Int
    OBVIOUS
  <2> QED
    BY <2>1, <2>2, SubSeqProperties
<1>8. /\ b \in Seq(Items) /\ Len(b) = Len(q) - i
      /\ \A j \in 1..Len(b) : b[j] = q[i + j]
  <2>1. \A j \in (i + 1)..Len(q) : q[j] \in Items
    BY ElementOfSeq
  <2>2. i + 1 \in Int /\ Len(q) \in Int
    OBVIOUS
  <2> QED
    BY <2>1, <2>2, SubSeqProperties
<1> HIDE DEF a, b, r
<1>9. /\ r \in Seq(Items) /\ Len(r) = Len(a) + Len(b)
      /\ \A j \in 1..(Len(a) + Len(b)) : r[j] = IF j <= Len(a) THEN a[j] ELSE b[j - Len(a)]
  BY <1>6, <1>7, <1>8, ConcatProperties
<1>10. Len(r) = Len(q) - 1
  BY <1>7, <1>8, <1>9
<1>11. ASSUME NEW j \in 1..(i - 1) PROVE r[j] = q[j]
  <2>1. j \in 1..(Len(a) + Len(b)) /\ j <= Len(a)
    BY <1>7, <1>8
  <2> QED
    BY <2>1, <1>7, <1>9
<1>12. ASSUME NEW j \in i..Len(r) PROVE r[j] = q[j + 1]
  <2>1. /\ j \in 1..(Len(a) + Len(b)) /\ ~(j <= Len(a)) /\ j - Len(a) \in 1..Len(b)
        /\ i + (j - Len(a)) = j + 1
    BY <1>7, <1>8, <1>10
  <2> QED
    BY <2>1, <1>8, <1>9
<1> QED
  BY <1>9, <1>10, <1>11, <1>12 DEF r

\* It leaves the other lists alone.
LEMMA RemovedElsewhere ==
    ASSUME NEW q, NEW s, \A i \in 1..Len(q) : q[i] # s
    PROVE  RemoveFirst(q, s) = q
BY DEF RemoveFirst

\* The walk over one list finds the first schedee that may run on c.
LEMMA FirstHereIs ==
    ASSUME NEW q \in Seq(Items), NEW c
    PROVE  \/ /\ FirstHere(c, q) = None
              /\ \A i \in 1..Len(q) : c \notin Affinity[q[i]]
           \/ \E i \in 1..Len(q) :
                /\ FirstHere(c, q) = q[i] /\ q[i] \in Items /\ q[i] # None
                /\ c \in Affinity[q[i]]
                /\ \A j \in 1..(i - 1) : c \notin Affinity[q[j]]
<1> DEFINE S == {s \in Items : c \in Affinity[s]}
           I == {k \in 1..Len(q) : c \in Affinity[q[k]]}
<1>0. \A i \in 1..Len(q) : q[i] \in Items
  BY ElementOfSeq
<1>1. I = {k \in 1..Len(q) : q[k] \in S}
  BY <1>0
<1>2. FirstHere(c, q) = LET i == IF I # {} THEN Min(I) ELSE 0
                        IN  IF i = 0 THEN None ELSE q[i]
  BY DEF FirstHere, SelectInSeq
<1>3. CASE I = {}
  BY <1>2, <1>3
<1>4. CASE I # {}
  <2>1. \E i \in 1..Len(q) : q[i] \in S
    BY <1>1, <1>4
  <2>2. PICK i \in 1..Len(q) : /\ i = Min({k \in 1..Len(q) : q[k] \in S})
                               /\ q[i] \in S
                               /\ \A j \in 1..(i - 1) : q[j] \notin S
    <3> HIDE DEF S
    <3> QED
      BY <2>1, FirstPlace
  <2>3. i = Min(I) /\ i # 0
    <3> HIDE DEF I, S
    <3> QED
      BY <1>1, <2>2
  <2>4. FirstHere(c, q) = q[i]
    <3> HIDE DEF I
    <3> QED
      BY <1>2, <1>4, <2>3
  <2>5. \A j \in 1..(i - 1) : c \notin Affinity[q[j]]
    BY <1>0, <2>2
  <2>6. q[i] \in Items /\ q[i] # None /\ c \in Affinity[q[i]]
    BY <2>2, RunqAssumption
  <2> QED
    BY <2>4, <2>5, <2>6
<1> QED
  BY <1>3, <1>4

-----------------------------------------------------------------------------
(* The invariant.                                                            *)

Typed ==
    /\ list \in [Levels -> Seq(Items)]
    /\ occupied \in [Words -> SUBSET Nat]
    /\ prio \in [Items -> Prios]
    /\ runqPrio \in [Items -> Prios]
    /\ got \in Items \cup {None}

\* A schedee stands in the list of the level it was filed at, once.
AtItsLevel ==
    \A l \in Levels : \A i \in 1..Len(list[l]) : runqPrio[list[l][i]] = l
Once ==
    \A l \in Levels : \A i, j \in 1..Len(list[l]) : list[l][i] = list[l][j] => i = j

\* The bits that are set are those of the levels that are not empty.
BitsTell ==
    \A w \in Words : \A b \in Nat :
        b \in occupied[w] <=>
            b \in 0..(Bits - 1) /\ w * Bits + b \in Levels /\ list[w * Bits + b] # <<>>

RInv == Typed /\ AtItsLevel /\ Once /\ BitsTell

\* The map describes the lists.
LEMMA BitOfLevel ==
    ASSUME RInv, NEW l \in Levels
    PROVE  (l % Bits) \in occupied[l \div Bits] <=> list[l] # <<>>
<1>1. PICK w \in Words, r \in 0..(Bits - 1) : w = l \div Bits /\ r = l % Bits /\ l = w * Bits + r
  BY LevelParts
<1>2. r \in Nat
  BY RunqAssumption
<1>3. r \in occupied[w] <=> w * Bits + r \in Levels /\ list[w * Bits + r] # <<>>
  BY <1>2 DEF RInv, BitsTell
<1> QED
  BY <1>1, <1>3

\* Queued, by positions.
LEMMA QueuedIs ==
    ASSUME RInv, NEW s
    PROVE  s \in Queued <=> \E l \in Levels : \E i \in 1..Len(list[l]) : list[l][i] = s
<1>1. \A l \in Levels : DOMAIN list[l] = 1..Len(list[l])
  BY DEF RInv, Typed
<1> QED
  BY <1>1 DEF Queued, ToSet

\* A queued schedee stands in the list of its runq_prio.
LEMMA QueuedAt ==
    ASSUME RInv, NEW s \in Queued
    PROVE  /\ s \in Items /\ runqPrio[s] \in Levels
           /\ \E i \in 1..Len(list[runqPrio[s]]) : list[runqPrio[s]][i] = s
           /\ \A l \in Levels : l # runqPrio[s] =>
                \A i \in 1..Len(list[l]) : list[l][i] # s
<1>1. PICK l \in Levels : \E i \in 1..Len(list[l]) : list[l][i] = s
  BY QueuedIs
<1>2. PICK i \in 1..Len(list[l]) : list[l][i] = s
  BY <1>1
<1>3. runqPrio[s] = l
  BY <1>2 DEF RInv, AtItsLevel
<1>4. s \in Items
  <2>1. list[l] \in Seq(Items)
    BY DEF RInv, Typed
  <2> QED
    BY <2>1, <1>2, ElementOfSeq
<1>5. \A m \in Levels : m # l => \A j \in 1..Len(list[m]) : list[m][j] # s
  BY <1>3 DEF RInv, AtItsLevel
<1> QED
  BY <1>2, <1>3, <1>4, <1>5

-----------------------------------------------------------------------------
(* Insertion and removal.                                                    *)

LEMMA InsertIs ==
    ASSUME RInv, NEW s \in Items, RunqInsert(s)
    PROVE  /\ prio[s] \in Levels
           /\ list' \in [Levels -> Seq(Items)]
           /\ Len(list'[prio[s]]) = Len(list[prio[s]]) + 1
           /\ \A i \in 1..Len(list[prio[s]]) : list'[prio[s]][i] = list[prio[s]][i]
           /\ list'[prio[s]][Len(list[prio[s]]) + 1] = s
           /\ \A l \in Levels : l # prio[s] => list'[l] = list[l]
           /\ runqPrio' = [runqPrio EXCEPT ![s] = prio[s]]
           /\ occupied' = [occupied EXCEPT ![prio[s] \div Bits] = @ \cup {prio[s] % Bits}]
           /\ prio' = prio /\ got' = got
<1>1. PICK p \in Levels : p = prio[s]
  BY RunqAssumption DEF RInv, Typed
<1>2. list' = [list EXCEPT ![p] = Append(list[p], s)]
  BY <1>1 DEF RunqInsert
<1>3. list \in [Levels -> Seq(Items)] /\ list[p] \in Seq(Items)
  BY DEF RInv, Typed
<1>4. /\ Append(list[p], s) \in Seq(Items)
      /\ Len(Append(list[p], s)) = Len(list[p]) + 1
      /\ \A i \in 1..Len(list[p]) : Append(list[p], s)[i] = list[p][i]
      /\ Append(list[p], s)[Len(list[p]) + 1] = s
  BY <1>3, AppendProperties
<1>5. /\ list' \in [Levels -> Seq(Items)] /\ list'[p] = Append(list[p], s)
      /\ \A l \in Levels : l # p => list'[l] = list[l]
  BY <1>2, <1>3, <1>4
<1>6. /\ runqPrio' = [runqPrio EXCEPT ![s] = prio[s]]
      /\ occupied' = [occupied EXCEPT ![prio[s] \div Bits] = @ \cup {prio[s] % Bits}]
      /\ prio' = prio /\ got' = got
  BY DEF RunqInsert
<1> QED
  BY <1>1, <1>4, <1>5, <1>6

LEMMA InsertKeeps ==
    ASSUME RInv, NEW s \in Items, RunqInsert(s)
    PROVE  RInv'
<1>1. PICK p \in Levels : p = prio[s]
  BY InsertIs
<1>2. /\ list' \in [Levels -> Seq(Items)]
      /\ Len(list'[p]) = Len(list[p]) + 1
      /\ \A i \in 1..Len(list[p]) : list'[p][i] = list[p][i]
      /\ list'[p][Len(list[p]) + 1] = s
      /\ \A l \in Levels : l # p => list'[l] = list[l]
      /\ runqPrio' = [runqPrio EXCEPT ![s] = p]
      /\ occupied' = [occupied EXCEPT ![p \div Bits] = @ \cup {p % Bits}]
      /\ prio' = prio /\ got' = got
  BY <1>1, InsertIs, ZenonT(40)
<1>3. PICK v \in Words, r \in 0..(Bits - 1) : v = p \div Bits /\ r = p % Bits /\ p = v * Bits + r
  BY LevelParts
<1>4. r \in Nat
  BY RunqAssumption
<1>5. Typed'
  BY <1>1, <1>2, <1>3, <1>4 DEF RInv, Typed
<1>6. \A l \in Levels : \A i \in 1..Len(list[l]) : list[l][i] # s
  <2>1. s \notin Queued
    BY DEF RunqInsert
  <2> QED
    BY <2>1, QueuedIs
<1>7. \A l \in Levels : Len(list[l]) \in Nat /\ \A i \in 1..Len(list[l]) : list[l][i] \in Items
  <2> TAKE l \in Levels
  <2>1. list[l] \in Seq(Items)
    BY DEF RInv, Typed
  <2> QED
    BY <2>1, ElementOfSeq
<1>8. ASSUME NEW i \in 1..Len(list'[p])
      PROVE  \/ i = Len(list[p]) + 1
             \/ i \in 1..Len(list[p])
  BY <1>2, <1>7
<1>9. AtItsLevel'
  <2> SUFFICES ASSUME NEW l \in Levels, NEW i \in 1..Len(list'[l])
               PROVE  runqPrio'[list'[l][i]] = l
    BY DEF AtItsLevel
  <2>1. \A m \in Levels : \A j \in 1..Len(list[m]) : runqPrio'[list[m][j]] = m
    BY <1>2, <1>6, <1>7 DEF RInv, Typed, AtItsLevel
  <2>2. CASE l # p
    BY <2>1, <2>2, <1>2
  <2>3. CASE l = p /\ i \in 1..Len(list[p])
    BY <2>1, <2>3, <1>2
  <2>4. CASE l = p /\ i = Len(list[p]) + 1
    BY <2>4, <1>2 DEF RInv, Typed
  <2> QED
    BY <2>2, <2>3, <2>4, <1>8
<1>10. Once'
  <2> SUFFICES ASSUME NEW l \in Levels, NEW i \in 1..Len(list'[l]), NEW j \in 1..Len(list'[l]),
                      list'[l][i] = list'[l][j]
               PROVE  i = j
    BY DEF Once
  <2>1. CASE l # p
    BY <2>1, <1>2 DEF RInv, Once
  <2>2. CASE l = p
    <3>1. (i \in 1..Len(list[p]) \/ i = Len(list[p]) + 1) /\ (j \in 1..Len(list[p]) \/ j = Len(list[p]) + 1)
      BY <2>2, <1>8
    <3>2. CASE i \in 1..Len(list[p]) /\ j \in 1..Len(list[p])
      BY <3>2, <2>2, <1>2 DEF RInv, Once
    <3>3. CASE i = Len(list[p]) + 1 /\ j = Len(list[p]) + 1
      BY <3>3
    <3>4. CASE i \in 1..Len(list[p]) /\ j = Len(list[p]) + 1
      BY <3>4, <2>2, <1>2, <1>6
    <3>5. CASE i = Len(list[p]) + 1 /\ j \in 1..Len(list[p])
      BY <3>5, <2>2, <1>2, <1>6
    <3> QED
      BY <3>1, <3>2, <3>3, <3>4, <3>5
  <2> QED
    BY <2>1, <2>2
<1>11. BitsTell'
  <2> SUFFICES ASSUME NEW w \in Words, NEW b \in Nat
               PROVE  b \in occupied'[w] <=>
                        b \in 0..(Bits - 1) /\ w * Bits + b \in Levels /\ list'[w * Bits + b] # <<>>
    BY DEF BitsTell
  <2>1. b \in occupied[w] <=>
            b \in 0..(Bits - 1) /\ w * Bits + b \in Levels /\ list[w * Bits + b] # <<>>
    BY DEF RInv, BitsTell
  <2>2. list'[p] # <<>>
    <3>1. list'[p] \in Seq(Items) /\ Len(list'[p]) # 0
      BY <1>2, <1>7
    <3> QED
      BY <3>1, EmptySeq
  <2>3. CASE w = v /\ b = r
    BY <2>2, <2>3, <1>2, <1>3 DEF RInv, Typed
  <2>4. CASE ~(w = v /\ b = r)
    <3>1. b \in occupied'[w] <=> b \in occupied[w]
      BY <2>4, <1>2, <1>3 DEF RInv, Typed
    <3>2. b \in 0..(Bits - 1) => w * Bits + b # p
      BY <2>4, <1>3, LevelUnique
    <3> QED
      BY <2>1, <3>1, <3>2, <1>2
  <2> QED
    BY <2>3, <2>4
<1> QED
  BY <1>5, <1>9, <1>10, <1>11 DEF RInv

LEMMA UnlinkIs ==
    ASSUME RInv, NEW s \in Queued, Unlink(s)
    PROVE  \E p \in Levels : \E i \in 1..Len(list[p]) :
           /\ p = runqPrio[s] /\ list[p][i] = s
           /\ list' \in [Levels -> Seq(Items)]
           /\ Len(list'[p]) = Len(list[p]) - 1
           /\ \A j \in 1..(i - 1) : list'[p][j] = list[p][j]
           /\ \A j \in i..Len(list'[p]) : list'[p][j] = list[p][j + 1]
           /\ \A l \in Levels : l # p => list'[l] = list[l]
           /\ occupied' = IF list'[p] # <<>> THEN occupied
                          ELSE [occupied EXCEPT ![p \div Bits] = @ \ {p % Bits}]
           /\ prio' = prio /\ runqPrio' = runqPrio
<1>1. PICK p \in Levels : p = runqPrio[s]
  BY QueuedAt
<1>2. PICK i \in 1..Len(list[p]) : list[p][i] = s
  BY <1>1, QueuedAt
<1>3. \A l \in Levels : l # p => \A j \in 1..Len(list[l]) : list[l][j] # s
  BY <1>1, QueuedAt
<1>4. list' = [l \in Levels |-> RemoveFirst(list[l], s)]
  BY DEF Unlink
<1>5. \A l \in Levels : l # p => list'[l] = list[l]
  BY <1>3, <1>4, RemovedElsewhere
<1>6. /\ list'[p] \in Seq(Items)
      /\ Len(list'[p]) = Len(list[p]) - 1
      /\ \A j \in 1..(i - 1) : list'[p][j] = list[p][j]
      /\ \A j \in i..Len(list'[p]) : list'[p][j] = list[p][j + 1]
  <2>1. list[p] \in Seq(Items)
    BY DEF RInv, Typed
  <2>2. \A j \in 1..Len(list[p]) : list[p][j] = s => j = i
    BY <1>2 DEF RInv, Once
  <2>3. list'[p] = RemoveFirst(list[p], s)
    BY <1>4
  <2>4. PICK q \in Seq(Items) : q = list[p]
    BY <2>1
  <2>5. i \in 1..Len(q) /\ q[i] = s /\ \A j \in 1..Len(q) : q[j] = s => j = i
    BY <2>2, <2>4, <1>2
  <2>6. PICK r : r = RemoveFirst(q, s)
    OBVIOUS
  <2>7. /\ r \in Seq(Items)
        /\ Len(r) = Len(q) - 1
        /\ \A j \in 1..(i - 1) : r[j] = q[j]
        /\ \A j \in i..Len(r) : r[j] = q[j + 1]
    BY <2>5, <2>6, RemovedFrom
  <2> QED
    BY <2>3, <2>4, <2>6, <2>7
<1>7. list' \in [Levels -> Seq(Items)]
  <2>1. \A l \in Levels : list'[l] \in Seq(Items)
    BY <1>5, <1>6 DEF RInv, Typed
  <2> QED
    BY <2>1, <1>4
<1>8. /\ occupied' = IF list'[p] # <<>> THEN occupied
                     ELSE [occupied EXCEPT ![p \div Bits] = @ \ {p % Bits}]
      /\ prio' = prio /\ runqPrio' = runqPrio
  BY <1>1 DEF Unlink
<1> QED
  BY <1>1, <1>2, <1>5, <1>6, <1>7, <1>8

LEMMA UnlinkKeeps ==
    ASSUME RInv, NEW s \in Queued, Unlink(s), got' \in Items \cup {None}
    PROVE  RInv'
<1>1. PICK p \in Levels : \E i \in 1..Len(list[p]) :
           /\ p = runqPrio[s] /\ list[p][i] = s
           /\ list' \in [Levels -> Seq(Items)]
           /\ Len(list'[p]) = Len(list[p]) - 1
           /\ \A j \in 1..(i - 1) : list'[p][j] = list[p][j]
           /\ \A j \in i..Len(list'[p]) : list'[p][j] = list[p][j + 1]
           /\ \A l \in Levels : l # p => list'[l] = list[l]
           /\ occupied' = IF list'[p] # <<>> THEN occupied
                          ELSE [occupied EXCEPT ![p \div Bits] = @ \ {p % Bits}]
           /\ prio' = prio /\ runqPrio' = runqPrio
  BY UnlinkIs
<1>2. PICK i \in 1..Len(list[p]) :
           /\ p = runqPrio[s] /\ list[p][i] = s
           /\ list' \in [Levels -> Seq(Items)]
           /\ Len(list'[p]) = Len(list[p]) - 1
           /\ \A j \in 1..(i - 1) : list'[p][j] = list[p][j]
           /\ \A j \in i..Len(list'[p]) : list'[p][j] = list[p][j + 1]
           /\ \A l \in Levels : l # p => list'[l] = list[l]
           /\ occupied' = IF list'[p] # <<>> THEN occupied
                          ELSE [occupied EXCEPT ![p \div Bits] = @ \ {p % Bits}]
           /\ prio' = prio /\ runqPrio' = runqPrio
  BY <1>1
<1>3. PICK v \in Words, r \in 0..(Bits - 1) : v = p \div Bits /\ r = p % Bits /\ p = v * Bits + r
  BY LevelParts
<1>4. Typed'
  BY <1>2, <1>3 DEF RInv, Typed
<1>5. Len(list[p]) \in Nat /\ list[p] \in Seq(Items)
  BY DEF RInv, Typed
<1> DEFINE F(j) == IF j < i THEN j ELSE j + 1
<1>6. \A j \in 1..Len(list'[p]) : F(j) \in 1..Len(list[p]) /\ list'[p][j] = list[p][F(j)]
  <2> TAKE j \in 1..Len(list'[p])
  <2>1. CASE j < i
    <3>1. j \in 1..(i - 1) /\ F(j) = j /\ j \in 1..Len(list[p])
      BY <2>1, <1>5
    <3> QED
      BY <3>1, <1>2
  <2>2. CASE ~(j < i)
    <3>1. j \in i..Len(list'[p]) /\ F(j) = j + 1 /\ j + 1 \in 1..Len(list[p])
      BY <2>2, <1>2, <1>5
    <3> QED
      BY <3>1, <1>2
  <2> QED
    BY <2>1, <2>2
<1>7. AtItsLevel'
  <2> SUFFICES ASSUME NEW l \in Levels, NEW j \in 1..Len(list'[l])
               PROVE  runqPrio[list'[l][j]] = l
    BY <1>2 DEF AtItsLevel
  <2>1. CASE l # p
    BY <2>1, <1>2 DEF RInv, AtItsLevel
  <2>2. CASE l = p
    <3> HIDE DEF F
    <3> QED
      BY <2>2, <1>6 DEF RInv, AtItsLevel
  <2> QED
    BY <2>1, <2>2
<1>8. Once'
  <2> SUFFICES ASSUME NEW l \in Levels, NEW j \in 1..Len(list'[l]), NEW k \in 1..Len(list'[l]),
                      list'[l][j] = list'[l][k]
               PROVE  j = k
    BY DEF Once
  <2>1. CASE l # p
    BY <2>1, <1>2, SMTT(40) DEF RInv, Once
  <2>2. CASE l = p
    <3>1. F(j) = F(k)
      <4> HIDE DEF F
      <4> QED
        BY <2>2, <1>6, SMTT(40) DEF RInv, Once
    <3> QED
      BY <3>1, <2>2, <1>2, <1>5
  <2> QED
    BY <2>1, <2>2
<1>9. BitsTell'
  <2> SUFFICES ASSUME NEW w \in Words, NEW b \in Nat
               PROVE  b \in occupied'[w] <=>
                        b \in 0..(Bits - 1) /\ w * Bits + b \in Levels /\ list'[w * Bits + b] # <<>>
    BY DEF BitsTell
  <2>1. b \in occupied[w] <=>
            b \in 0..(Bits - 1) /\ w * Bits + b \in Levels /\ list[w * Bits + b] # <<>>
    BY DEF RInv, BitsTell
  <2>2. list[p] # <<>>
    BY <1>5, EmptySeq
  <2>3. CASE w = v /\ b = r
    <3>1. b \in occupied[w]
      BY <2>1, <2>2, <2>3, <1>3
    <3>2. CASE list'[p] # <<>>
      BY <3>1, <3>2, <2>3, <1>2, <1>3
    <3>3. CASE list'[p] = <<>>
      BY <3>3, <2>3, <1>2, <1>3 DEF RInv, Typed
    <3> QED
      BY <3>2, <3>3
  <2>4. CASE ~(w = v /\ b = r)
    <3>1. b \in occupied'[w] <=> b \in occupied[w]
      BY <2>4, <1>2, <1>3 DEF RInv, Typed
    <3>2. b \in 0..(Bits - 1) => w * Bits + b # p
      BY <2>4, <1>3, LevelUnique
    <3> QED
      BY <2>1, <3>1, <3>2, <1>2
  <2> QED
    BY <2>3, <2>4
<1> QED
  BY <1>4, <1>7, <1>8, <1>9 DEF RInv

-----------------------------------------------------------------------------
(* The searches.  Both recursions go down: a position is the answer, or      *)
(* points to one below it; -1 always is.                                     *)

IsChase(f, A, B, N, m) ==
    f = [i \in -1..(m - 1) |-> IF i \in A THEN B[i] ELSE f[N[i]]]

\* Such a recursion defines a function.
LEMMA ChaseExists ==
    ASSUME NEW n \in Nat, NEW A, NEW B, NEW N, -1 \in A,
           \A i \in 0..(n - 1) : i \notin A => N[i] \in -1..(i - 1)
    PROVE  \E f : IsChase(f, A, B, N, n)
<1> DEFINE S == {m \in Nat : m <= n => \E f : IsChase(f, A, B, N, m)}
<1>1. 0 \in S
  <2> DEFINE f == [i \in -1..(0 - 1) |-> B[i]]
  <2>1. IsChase(f, A, B, N, 0)
    <3>1. \A i \in -1..(0 - 1) : i \in A
      OBVIOUS
    <3> QED
      BY <3>1 DEF IsChase
  <2> QED
    BY <2>1
<1>2. ASSUME NEW m \in S PROVE m + 1 \in S
  <2> SUFFICES ASSUME m + 1 <= n PROVE \E f : IsChase(f, A, B, N, m + 1)
    OBVIOUS
  <2>1. PICK f : IsChase(f, A, B, N, m)
    OBVIOUS
  <2>2. m \notin A => N[m] \in -1..(m - 1)
    OBVIOUS
  <2> DEFINE last == IF m \in A THEN B[m] ELSE f[N[m]]
             g == [i \in -1..(m + 1 - 1) |-> IF i = m THEN last ELSE f[i]]
  <2>3. \A i \in -1..(m - 1) : f[i] = IF i \in A THEN B[i] ELSE f[N[i]]
    BY <2>1 DEF IsChase
  <2>4. ASSUME NEW i \in -1..(m + 1 - 1)
        PROVE  g[i] = IF i \in A THEN B[i] ELSE g[N[i]]
    <3>1. CASE i = m
      <4>1. g[i] = IF m \in A THEN B[m] ELSE f[N[m]]
        BY <3>1
      <4>2. m \notin A => g[N[m]] = f[N[m]]
        BY <2>2
      <4> HIDE DEF g
      <4> QED
        BY <3>1, <4>1, <4>2
    <3>2. CASE i # m
      <4>1. i \in -1..(m - 1)
        BY <3>2
      <4>2. g[i] = f[i]
        BY <3>2
      <4>3. i \notin A => N[i] \in -1..(m - 1)
        BY <4>1
      <4>4. i \notin A => g[N[i]] = f[N[i]]
        BY <4>3
      <4> HIDE DEF g
      <4> QED
        BY <2>3, <4>1, <4>2, <4>4
    <3> QED
      BY <3>1, <3>2
  <2>5. IsChase(g, A, B, N, m + 1)
    <3>1. g = [i \in -1..(m + 1 - 1) |-> g[i]]
      OBVIOUS
    <3> HIDE DEF g
    <3>2. g = [i \in -1..(m + 1 - 1) |-> IF i \in A THEN B[i] ELSE g[N[i]]]
      BY <2>4, <3>1
    <3> QED
      BY <3>2 DEF IsChase
  <2> QED
    BY <2>5
<1>3. S = Nat
  <2> HIDE DEF S
  <2> QED
    BY <1>1, <1>2, NatSetInduction DEF S
<1>4. n \in S
  BY <1>3
<1> QED
  BY <1>4

\* A set of bits that is not empty has a highest one.
LEMMA HighestBit ==
    ASSUME NEW n \in Nat, NEW S, S \subseteq 0..n, S # {}
    PROVE  \E b \in S : \A a \in S : a <= b
<1> DEFINE T == {n - a : a \in S}
<1>1. T \subseteq Nat /\ T # {}
  <2>1. \A a \in S : n - a \in Nat
    OBVIOUS
  <2>2. PICK a \in S : TRUE
    OBVIOUS
  <2>3. n - a \in T
    OBVIOUS
  <2> QED
    BY <2>1, <2>3
<1>2. PICK x \in T : \A y \in T : x <= y
  <2> HIDE DEF T
  <2> QED
    BY <1>1, LeastNatural
<1>3. PICK b \in S : x = n - b
  OBVIOUS
<1>4. \A a \in S : n - b <= n - a
  BY <1>2, <1>3
<1> QED
  BY <1>4

\* The masked word of the scan from p, and the others.
Word(p, v) == IF v = p \div Bits THEN {b \in occupied[v] : b <= p % Bits} ELSE occupied[v]

\* The scan of runq_occupied_below().
LEMMA ScanIs ==
    ASSUME NEW p \in Levels
    PROVE  \E f : /\ OccupiedBelow(p) = f[p \div Bits]
                  /\ \A v \in -1..(p \div Bits) :
                        f[v] = IF v = -1 THEN -1
                               ELSE IF Word(p, v) # {} THEN TopOf(v, Word(p, v))
                               ELSE f[v - 1]
<1>1. PICK w \in Nat : w = p \div Bits
  <2>1. PICK u \in Words : u = p \div Bits
    BY LevelParts
  <2>2. u \in Nat
    <3>1. MaxPrio \div Bits \in Nat
      BY RunqAssumption, WordAndBit
    <3> QED
      BY <3>1 DEF Words
  <2> QED
    BY <2>1, <2>2
<1> DEFINE A == {v \in -1..w : v = -1 \/ Word(p, v) # {}}
           B == [v \in -1..w |-> IF v = -1 THEN -1 ELSE TopOf(v, Word(p, v))]
           N == [v \in -1..w |-> v - 1]
           Body(f) == [v \in -1..w |->
                        IF v = -1 THEN -1
                        ELSE LET word == IF v = w THEN {b \in occupied[w] : b <= p % Bits}
                                         ELSE occupied[v]
                             IN  IF word # {} THEN TopOf(v, word) ELSE f[v - 1]]
           u == CHOOSE f : f = Body(f)
<1>2. PICK f : IsChase(f, A, B, N, w + 1)
  <2>1. -1 \in A /\ \A i \in 0..(w + 1 - 1) : i \notin A => N[i] \in -1..(i - 1)
    OBVIOUS
  <2> HIDE DEF A, B, N
  <2> QED
    BY <2>1, ChaseExists
<1>3. f = Body(f)
  <2>1. \A v \in -1..w : (IF v \in A THEN B[v] ELSE f[N[v]]) = Body(f)[v]
    BY <1>1 DEF Word
  <2>2. f = [v \in -1..w |-> IF v \in A THEN B[v] ELSE f[N[v]]]
    <3> HIDE DEF A, B, N
    <3>1. w + 1 - 1 = w
      OBVIOUS
    <3> QED
      BY <1>2, <3>1 DEF IsChase
  <2> QED
    BY <2>1, <2>2
<1>4. u = Body(u)
  BY <1>3
<1>5. OccupiedBelow(p) = u[w]
  <2>1. ~(p < 0)
    BY RunqAssumption DEF Levels
  <2> QED
    BY <1>1, <2>1 DEF OccupiedBelow
<1>6. \A v \in -1..w : u[v] = IF v = -1 THEN -1
                              ELSE IF Word(p, v) # {} THEN TopOf(v, Word(p, v))
                              ELSE u[v - 1]
  <2> HIDE DEF u
  <2> QED
    BY <1>1, <1>4 DEF Word
<1> QED
  BY <1>1, <1>5, <1>6

\* Within a word, levels are ordered as their bits.
LEMMA BitOrder ==
    ASSUME NEW l \in Levels, NEW k \in Levels, l \div Bits = k \div Bits
    PROVE  l <= k <=> l % Bits <= k % Bits
<1>1. PICK w \in Words, r \in 0..(Bits - 1) : w = l \div Bits /\ r = l % Bits /\ l = w * Bits + r
  BY LevelParts
<1>2. PICK v \in Words, q \in 0..(Bits - 1) : v = k \div Bits /\ q = k % Bits /\ k = v * Bits + q
  BY LevelParts
<1>3. w * Bits \in Int /\ Bits \in Int
  <2>1. MaxPrio \div Bits \in Nat /\ Bits \in Nat
    BY RunqAssumption, WordAndBit
  <2> QED
    BY <2>1 DEF Words
<1>4. PICK x \in Int : x = w * Bits
  BY <1>3
<1>5. l = x + r /\ k = x + q
  BY <1>1, <1>2, <1>4
<1> QED
  BY <1>1, <1>2, <1>3, <1>5

\* What the scan has found at word v: the highest level up to p, in the words up
\* to v, that is not empty.
Highest(p, v, r) ==
    /\ r \in -1..p
    /\ r >= 0 => list[r] # <<>>
    /\ \A l \in 0..p : l \div Bits <= v /\ r < l => list[l] = <<>>

\* runq_occupied_below() returns the highest level at or below p that is not
\* empty, whatever the size of a word.
LEMMA OccupiedIs ==
    ASSUME RInv, NEW p \in -1..MaxPrio
    PROVE  LET r == OccupiedBelow(p)
           IN  /\ r \in -1..p
               /\ r >= 0 => list[r] # <<>>
               /\ \A l \in 0..p : r < l => list[l] = <<>>
<1>0. MaxPrio \in Nat /\ Bits \in Nat \ {0} /\ Bits \in Nat
  BY RunqAssumption
<1>1. CASE p = -1
  <2>1. OccupiedBelow(p) = -1
    BY <1>1 DEF OccupiedBelow
  <2> QED
    BY <1>1, <2>1
<1>2. CASE p # -1
  <2>0. p \in Levels /\ p \in Nat
    BY <1>0, <1>2 DEF Levels
  <2>1. PICK w \in Words : w = p \div Bits
    BY <2>0, LevelParts
  <2>2. w \in Nat /\ \A v \in 0..w : v \in Words
    <3>1. MaxPrio \div Bits \in Nat
      BY <1>0, WordAndBit
    <3> QED
      BY <3>1 DEF Words
  <2>3. PICK f : /\ OccupiedBelow(p) = f[w]
                 /\ \A v \in -1..w :
                        f[v] = IF v = -1 THEN -1
                               ELSE IF Word(p, v) # {} THEN TopOf(v, Word(p, v))
                               ELSE f[v - 1]
    BY <2>0, <2>1, ScanIs
  <2>4. \A l \in 0..p : l \in Levels /\ l \in Nat
    BY <2>0, <1>0 DEF Levels
  \* A level of word v that is not empty shows in the word.
  <2>5. ASSUME NEW v \in 0..w, NEW l \in 0..p, l \div Bits = v, list[l] # <<>>
        PROVE  l % Bits \in Word(p, v)
    <3>1. l % Bits \in occupied[v]
      BY <2>4, <2>5, BitOfLevel
    <3>2. v = p \div Bits => l % Bits <= p % Bits
      BY <2>0, <2>4, <2>5, BitOrder
    <3> QED
      BY <3>1, <3>2 DEF Word
  <2>6. ASSUME NEW v \in 0..w, Word(p, v) # {} PROVE Highest(p, v, TopOf(v, Word(p, v)))
    <3>1. v \in Words /\ v \in Nat
      BY <2>2
    <3>2. \A b \in Word(p, v) : b \in occupied[v] /\ b \in Nat
      BY <3>1 DEF Word, RInv, Typed
    <3>3. \A b \in Word(p, v) : b \in 0..(Bits - 1) /\ v * Bits + b \in Levels /\ list[v * Bits + b] # <<>>
      BY <3>1, <3>2 DEF RInv, BitsTell
    <3>4. Word(p, v) \subseteq 0..(Bits - 1) /\ Bits - 1 \in Nat
      BY <3>3, <1>0
    <3>5. \E b \in Word(p, v) : \A c \in Word(p, v) : c <= b
      BY <2>6, <3>4, HighestBit
    <3>6. PICK b \in Word(p, v) : /\ TopOf(v, Word(p, v)) = v * Bits + b
                                  /\ \A c \in Word(p, v) : c <= b
      <4> DEFINE m == CHOOSE b \in Word(p, v) : \A c \in Word(p, v) : c <= b
      <4>1. m \in Word(p, v) /\ \A c \in Word(p, v) : c <= m
        BY <3>5
      <4>2. TopOf(v, Word(p, v)) = v * Bits + m
        BY DEF TopOf
      <4> QED
        BY <4>1, <4>2
    <3>7. PICK t \in Levels : t = v * Bits + b
      BY <3>3, <3>6
    <3>8. list[t] # <<>> /\ t \div Bits = v /\ t % Bits = b /\ t \in Nat
      <4>1. b \in 0..(Bits - 1)
        BY <3>3, <3>6
      <4>2. (v * Bits + b) \div Bits = v /\ (v * Bits + b) % Bits = b
        BY <4>1, <3>1, LevelUnique
      <4>3. list[v * Bits + b] # <<>>
        BY <3>3, <3>6
      <4>4. t \in Nat
        BY <1>0 DEF Levels
      <4> QED
        BY <4>2, <4>3, <4>4, <3>7
    <3>9. t <= p
      <4>1. CASE v < w
        <5>1. t < p
          BY <4>1, <3>8, <2>0, <2>1, <1>0, WordOrder
        <5> QED
          BY <5>1, <3>8, <2>0
      <4>2. CASE v = w
        <5>1. b <= p % Bits
          BY <4>2, <2>1, <3>6 DEF Word
        <5> QED
          BY <5>1, <4>2, <2>0, <2>1, <3>8, BitOrder
      <4> QED
        BY <4>1, <4>2, <2>2
    <3>10. ASSUME NEW l \in 0..p, l \div Bits <= v, t < l PROVE list[l] = <<>>
      <4>0. l \in Levels /\ l \in Nat
        BY <2>4
      <4>1. PICK x \in Nat : x = l \div Bits
        <5>1. PICK y \in Nat, r \in 0..(Bits - 1) : y = l \div Bits /\ r = l % Bits /\ l = y * Bits + r
          BY <4>0, <1>0, WordAndBit
        <5> QED
          BY <5>1
      <4>2. CASE l \div Bits < v
        <5>1. l < t
          BY <4>0, <4>2, <3>8, <1>0, WordOrder
        <5> QED
          BY <5>1, <3>10, <4>0, <3>8
      <4>3. CASE l \div Bits = v
        <5> SUFFICES ASSUME list[l] # <<>> PROVE FALSE
          OBVIOUS
        <5>1. l % Bits \in Word(p, v)
          BY <4>3, <2>5
        <5>2. l % Bits <= b
          BY <5>1, <3>6
        <5>3. l <= t
          BY <5>2, <4>0, <4>3, <3>8, BitOrder
        <5> QED
          BY <5>3, <3>10, <4>0, <3>8
      <4> QED
        BY <4>1, <4>2, <4>3, <3>1, <3>10
    <3> QED
      BY <3>6, <3>7, <3>8, <3>9, <3>10, <2>0 DEF Highest
  <2> DEFINE S == {n \in Nat : n - 1 <= w => Highest(p, n - 1, f[n - 1])}
  <2>7. 0 \in S
    <3>1. f[-1] = -1
      BY <2>2, <2>3
    <3>2. \A l \in 0..p : ~(l \div Bits <= -1)
      <4> TAKE l \in 0..p
      <4>1. PICK y \in Nat, r \in 0..(Bits - 1) : y = l \div Bits /\ r = l % Bits /\ l = y * Bits + r
        BY <2>4, <1>0, WordAndBit
      <4> QED
        BY <4>1
    <3> QED
      BY <3>1, <3>2, <2>0 DEF Highest
  <2>8. ASSUME NEW n \in S PROVE n + 1 \in S
    <3> SUFFICES ASSUME n <= w PROVE Highest(p, n, f[n])
      OBVIOUS
    <3>1. n \in 0..w /\ n \in -1..w /\ n # -1
      BY <2>2
    <3>2. CASE Word(p, n) # {}
      BY <3>1, <3>2, <2>3, <2>6
    <3>3. CASE Word(p, n) = {}
      <4>1. f[n] = f[n - 1]
        BY <3>1, <3>3, <2>3
      <4>2. Highest(p, n - 1, f[n - 1])
        <5>1. n \in Nat /\ (n - 1 <= w => Highest(p, n - 1, f[n - 1]))
          BY Zenon
        <5>2. n - 1 <= w
          BY <5>1, <3>1, <2>2
        <5> QED
          BY <5>1, <5>2, Zenon
      <4>3. ASSUME NEW l \in 0..p, l \div Bits <= n, f[n] < l PROVE list[l] = <<>>
        <5>1. PICK y \in Nat, r \in 0..(Bits - 1) : y = l \div Bits /\ r = l % Bits /\ l = y * Bits + r
          BY <2>4, <1>0, WordAndBit
        <5>2. CASE y = n
          BY <5>1, <5>2, <3>1, <3>3, <2>5
        <5>3. CASE y # n
          <6>1. l \div Bits <= n - 1
            BY <5>1, <5>3, <4>3
          <6> QED
            BY <6>1, <4>1, <4>2, <4>3 DEF Highest
        <5> QED
          BY <5>2, <5>3
      <4> QED
        BY <4>1, <4>2, <4>3 DEF Highest
    <3> QED
      BY <3>2, <3>3
  <2>9. S = Nat
    <3> HIDE DEF S
    <3> QED
      BY <2>7, <2>8, NatSetInduction DEF S
  <2>10. Highest(p, w, f[w])
    <3>1. PICK m \in Nat : m = w + 1
      BY <2>2
    <3> m \in S
      BY <2>9, Zenon
    <3>2. m - 1 <= w => Highest(p, m - 1, f[m - 1])
      BY Zenon
    <3>3. m - 1 = w /\ w <= w
      BY <3>1, <2>2
    <3> QED
      BY <3>2, <3>3, Zenon
  <2>11. ASSUME NEW l \in 0..p PROVE l \div Bits <= w
    <3>1. ~(p \div Bits < l \div Bits)
      BY <2>0, <2>4, <1>0, WordOrder
    <3>2. PICK y \in Nat, r \in 0..(Bits - 1) : y = l \div Bits /\ r = l % Bits /\ l = y * Bits + r
      BY <2>4, <1>0, WordAndBit
    <3> QED
      BY <3>1, <3>2, <2>1, <2>2
  <2> QED
    BY <2>3, <2>10, <2>11 DEF Highest
<1> QED
  BY <1>1, <1>2

\* Nobody in level l may run on c.
Nobody(c, l) == \A k \in 1..Len(list[l]) : c \notin Affinity[list[l][k]]

\* What a search that starts at level i must answer: the first schedee that may
\* run on c of the highest level up to i with one.
Answers(c, i, r) ==
    \/ r = None /\ \A l \in 0..i : Nobody(c, l)
    \/ \E l \in 0..i : \E j \in 1..Len(list[l]) :
        /\ r = list[l][j] /\ c \in Affinity[r]
        /\ \A k \in 1..(j - 1) : c \notin Affinity[list[l][k]]
        /\ \A m \in 0..i : l < m => Nobody(c, m)

\* Levels with nobody for c may be skipped.
LEMMA SkipLevels ==
    ASSUME NEW c, NEW r, NEW i \in -1..MaxPrio, NEW k \in -1..i,
           \A l \in 0..i : k < l => Nobody(c, l), Answers(c, k, r)
    PROVE  Answers(c, i, r)
<1>0. MaxPrio \in Nat /\ i \in Int /\ k \in Int
  BY RunqAssumption
<1>1. \A l \in 0..i : l \in 0..k \/ Nobody(c, l)
  BY <1>0
<1>2. CASE r = None /\ \A l \in 0..k : Nobody(c, l)
  BY <1>1, <1>2 DEF Answers
<1>3. CASE \E l \in 0..k : \E j \in 1..Len(list[l]) :
        /\ r = list[l][j] /\ c \in Affinity[r]
        /\ \A n \in 1..(j - 1) : c \notin Affinity[list[l][n]]
        /\ \A m \in 0..k : l < m => Nobody(c, m)
  <2>1. PICK l \in 0..k : \E j \in 1..Len(list[l]) :
        /\ r = list[l][j] /\ c \in Affinity[r]
        /\ \A n \in 1..(j - 1) : c \notin Affinity[list[l][n]]
        /\ \A m \in 0..k : l < m => Nobody(c, m)
    BY <1>3, Zenon
  <2>2. l \in 0..i /\ \A m \in 0..i : l < m => Nobody(c, m)
    BY <2>1, <1>0, <1>1
  <2> QED
    BY <2>1, <2>2 DEF Answers
<1> QED
  BY <1>2, <1>3 DEF Answers

\* The search reaches every level that could have the answer.
LEMMA SearchIs ==
    ASSUME RInv, NEW c
    PROVE  Answers(c, MaxPrio, Search(c))
<1>0. MaxPrio \in Nat
  BY RunqAssumption
<1> DEFINE A == {i \in -1..MaxPrio : i = -1 \/ FirstHere(c, list[i]) # None}
           B == [i \in -1..MaxPrio |-> IF i = -1 THEN None ELSE FirstHere(c, list[i])]
           N == [i \in -1..MaxPrio |-> OccupiedBelow(i - 1)]
           Body(f) == [i \in -1..MaxPrio |->
                        IF i = -1 THEN None
                        ELSE LET s == FirstHere(c, list[i])
                             IN  IF s # None THEN s ELSE f[OccupiedBelow(i - 1)]]
           u == CHOOSE f : f = Body(f)
<1>1. ASSUME NEW i \in -1..MaxPrio
      PROVE  /\ OccupiedBelow(i) \in -1..i
             /\ \A l \in 0..i : OccupiedBelow(i) < l => Nobody(c, l)
  <2>1. PICK r : r = OccupiedBelow(i)
    OBVIOUS
  <2>2. r \in -1..i /\ \A l \in 0..i : r < l => list[l] = <<>>
    BY <2>1, OccupiedIs
  <2>3. \A l \in 0..i : list[l] = <<>> => Nobody(c, l)
    BY DEF Nobody
  <2> QED
    BY <2>1, <2>2, <2>3
<1>2. ASSUME NEW i \in 0..MaxPrio
      PROVE  /\ OccupiedBelow(i - 1) \in -1..(i - 1)
             /\ \A l \in 0..(i - 1) : OccupiedBelow(i - 1) < l => Nobody(c, l)
  <2>1. PICK k \in -1..MaxPrio : k = i - 1
    BY <1>0
  <2>2. /\ OccupiedBelow(k) \in -1..k
        /\ \A l \in 0..k : OccupiedBelow(k) < l => Nobody(c, l)
    BY <1>1
  <2> QED
    BY <2>1, <2>2, Zenon
<1>mm. PICK mm \in Nat : mm = MaxPrio + 1 /\ mm - 1 = MaxPrio
  BY <1>0
<1>3. PICK f : IsChase(f, A, B, N, mm)
  <2>1. -1 \in A
    BY <1>0
  <2>2. \A i \in 0..(mm - 1) : i \notin A => N[i] \in -1..(i - 1)
    <3> TAKE i \in 0..(mm - 1)
    <3>1. i \in 0..MaxPrio /\ i \in -1..MaxPrio
      BY <1>0, <1>mm
    <3>2. N[i] = OccupiedBelow(i - 1)
      BY <3>1, Zenon
    <3> HIDE DEF N
    <3> QED
      BY <3>1, <3>2, <1>2
  <2> HIDE DEF A, B, N
  <2> QED
    BY <2>1, <2>2, ChaseExists
<1>4. f = Body(f)
  <2>1. \A i \in -1..MaxPrio : (IF i \in A THEN B[i] ELSE f[N[i]]) = Body(f)[i]
    OBVIOUS
  <2>2. f = [i \in -1..MaxPrio |-> IF i \in A THEN B[i] ELSE f[N[i]]]
    <3> HIDE DEF A, B, N
    <3> QED
      BY <1>3, <1>mm, Zenon DEF IsChase
  <2> QED
    BY <2>1, <2>2
<1>5. u = Body(u)
  BY <1>4
<1>6. Search(c) = u[OccupiedBelow(MaxPrio)]
  BY DEF Search
<1>7. \A i \in -1..MaxPrio : u[i] = IF i = -1 THEN None
                                    ELSE IF FirstHere(c, list[i]) # None THEN FirstHere(c, list[i])
                                    ELSE u[OccupiedBelow(i - 1)]
  <2> HIDE DEF u
  <2> QED
    BY <1>5
<1> HIDE DEF u
<1> DEFINE S == {n \in Nat : \A i \in -1..(n - 1) : i <= MaxPrio => Answers(c, i, u[i])}
<1>8. 0 \in S
  <2>1. u[-1] = None
    BY <1>0, <1>7
  <2>2. Answers(c, -1, u[-1])
    BY <2>1 DEF Answers
  <2> QED
    BY <2>2
<1>9. ASSUME NEW n \in S PROVE n + 1 \in S
  <2>0. n \in Nat /\ \A i \in -1..(n - 1) : i <= MaxPrio => Answers(c, i, u[i])
    BY Zenon
  <2>1. ASSUME n <= MaxPrio PROVE Answers(c, n, u[n])
    <3>0. n \in 0..MaxPrio /\ n \in -1..MaxPrio /\ n # -1
      BY <1>0, <2>0, <2>1
    <3>1. list[n] \in Seq(Items)
      BY <3>0 DEF RInv, Typed, Levels
    <3>2. CASE FirstHere(c, list[n]) # None
      <4>1. u[n] = FirstHere(c, list[n])
        BY <3>0, <3>2, <1>7, Zenon
      <4>2. PICK j \in 1..Len(list[n]) :
                /\ FirstHere(c, list[n]) = list[n][j]
                /\ c \in Affinity[list[n][j]]
                /\ \A k \in 1..(j - 1) : c \notin Affinity[list[n][k]]
        BY <3>1, <3>2, FirstHereIs
      <4>3. n \in 0..n /\ \A m \in 0..n : ~(n < m)
        BY <2>0
      <4> QED
        BY <4>1, <4>2, <4>3 DEF Answers
    <3>3. CASE FirstHere(c, list[n]) = None
      <4>1. PICK k : k = OccupiedBelow(n - 1)
        OBVIOUS
      <4>2. u[n] = u[k]
        BY <3>0, <3>3, <4>1, <1>7, Zenon
      <4>3. k \in -1..(n - 1) /\ \A l \in 0..(n - 1) : k < l => Nobody(c, l)
        BY <3>0, <4>1, <1>2, Zenon
      <4>4. Nobody(c, n)
        BY <3>1, <3>3, FirstHereIs DEF Nobody
      <4>5. k \in -1..n /\ k <= MaxPrio /\ \A l \in 0..n : k < l => Nobody(c, l)
        BY <4>3, <4>4, <3>0, <2>0, <1>0
      <4>6. Answers(c, k, u[k])
        BY <4>3, <4>5, <2>0
      <4>7. Answers(c, n, u[k])
        BY <4>5, <4>6, <3>0, SkipLevels
      <4> QED
        BY <4>2, <4>7
    <3> QED
      BY <3>2, <3>3
  <2>2. \A i \in -1..(n + 1 - 1) : i \in -1..(n - 1) \/ i = n
    BY <2>0
  <2>3. \A i \in -1..(n + 1 - 1) : i <= MaxPrio => Answers(c, i, u[i])
    BY <2>0, <2>1, <2>2, Zenon
  <2> QED
    BY <2>0, <2>3
<1>10. S = Nat
  <2> HIDE DEF S
  <2> QED
    BY <1>8, <1>9, NatSetInduction DEF S
<1>11. PICK k \in -1..MaxPrio : k = OccupiedBelow(MaxPrio)
  BY <1>0, <1>1
<1>12. Answers(c, k, u[k])
  <2>1. PICK n \in Nat : n = MaxPrio + 1
    BY <1>0
  <2>2. \A i \in -1..(n - 1) : i <= MaxPrio => Answers(c, i, u[i])
    <3> n \in S
      BY <1>10, Zenon
    <3> QED
      BY Zenon
  <2>3. k \in -1..(n - 1) /\ k <= MaxPrio
    BY <2>1, <1>0
  <2> QED
    BY <2>2, <2>3, Zenon
<1>13. \A l \in 0..MaxPrio : k < l => Nobody(c, l)
  <2>1. MaxPrio \in -1..MaxPrio
    BY <1>0
  <2> QED
    BY <2>1, <1>1, <1>11, Zenon
<1>14. Answers(c, MaxPrio, u[k])
  <2>1. MaxPrio \in -1..MaxPrio
    BY <1>0
  <2> QED
    BY <2>1, <1>12, <1>13, SkipLevels
<1> QED
  BY <1>6, <1>11, <1>14

\* What a search finds is queued.
LEMMA SearchFinds ==
    ASSUME RInv, NEW c, Search(c) # None
    PROVE  Search(c) \in Queued /\ Search(c) \in Items
<1>1. PICK s : s = Search(c)
  OBVIOUS
<1>2. Answers(c, MaxPrio, s) /\ s # None
  BY <1>1, SearchIs
<1>3. PICK l \in Levels : \E j \in 1..Len(list[l]) : s = list[l][j]
  BY <1>2 DEF Answers, Levels
<1>4. s \in Queued
  BY <1>3, QueuedIs
<1>5. s \in Items
  BY <1>4, QueuedAt
<1> QED
  BY <1>1, <1>4, <1>5

\* What runq_get_next_ignore_affinity() answers.
LEMMA TopIs ==
    ASSUME RInv, RunqGetNextIgnoreAffinity
    PROVE  \/ got' = None /\ \A l \in Levels : list[l] = <<>>
           \/ \E l \in Levels : /\ 1 \in 1..Len(list[l])
                                 /\ got' = list[l][1] /\ got' \in Items
                                 /\ \A m \in Levels : l < m => list[m] = <<>>
<1>0. MaxPrio \in Nat /\ MaxPrio \in -1..MaxPrio
  BY RunqAssumption
<1>1. PICK r : r = OccupiedBelow(MaxPrio)
  OBVIOUS
<1>2. /\ r \in -1..MaxPrio
      /\ r >= 0 => list[r] # <<>>
      /\ \A l \in 0..MaxPrio : r < l => list[l] = <<>>
  BY <1>0, <1>1, OccupiedIs
<1>3. got' = IF r < 0 THEN None ELSE IF list[r] = <<>> THEN None ELSE Head(list[r])
  BY <1>1 DEF RunqGetNextIgnoreAffinity
<1>4. CASE r < 0
  BY <1>0, <1>2, <1>3, <1>4 DEF Levels
<1>5. CASE ~(r < 0)
  <2>1. r \in Levels /\ list[r] # <<>>
    BY <1>0, <1>2, <1>5 DEF Levels
  <2>2. list[r] \in Seq(Items)
    BY <2>1 DEF RInv, Typed
  <2>3. got' = Head(list[r])
    BY <2>1, <1>3, <1>5
  <2>4. 1 \in 1..Len(list[r]) /\ Head(list[r]) = list[r][1] /\ list[r][1] \in Items
    BY <2>1, <2>2
  <2> QED
    BY <2>1, <2>3, <2>4, <1>2 DEF Levels
<1> QED
  BY <1>4, <1>5

LEMMA InitHolds == Init => RInv
<1> SUFFICES ASSUME Init PROVE RInv
  OBVIOUS
<1>1. \A l \in Levels : list[l] = <<>> /\ Len(list[l]) = 0
  BY DEF Init
<1>2. Typed
  BY RunqAssumption DEF Init, Typed
<1>3. AtItsLevel /\ Once
  BY <1>1 DEF AtItsLevel, Once
<1>4. BitsTell
  BY <1>1 DEF Init, BitsTell
<1> QED
  BY <1>2, <1>3, <1>4 DEF RInv

\* Every operation keeps the lists and the map in order.
LEMMA NextKeeps == RInv /\ [Next]_vars => RInv'
<1> SUFFICES ASSUME RInv, [Next]_vars PROVE RInv'
  OBVIOUS
<1> USE DEF RInv, Typed
<1>1. ASSUME list' = list, occupied' = occupied, runqPrio' = runqPrio,
             prio' \in [Items -> Prios], got' \in Items \cup {None}
      PROVE  RInv'
  BY <1>1 DEF AtItsLevel, Once, BitsTell
<1>2. ASSUME NEW s \in Items, RunqInsert(s) PROVE RInv'
  BY <1>2, InsertKeeps DEF RInv
<1>3. ASSUME NEW s \in Items, RunqRemove(s) PROVE RInv'
  BY <1>3, UnlinkKeeps DEF RunqRemove
<1>4. ASSUME NEW s \in Items, NEW p \in Prios, Reprioritise(s, p) PROVE RInv'
  <2>1. prio' \in [Items -> Prios]
    BY <1>4 DEF Reprioritise
  <2> QED
    BY <1>1, <1>4, <2>1 DEF Reprioritise
<1>5. ASSUME NEW c \in CPUs, RunqGetNext(c) PROVE RInv'
  <2>1. Search(c) \in Items \cup {None}
    BY SearchFinds
  <2> QED
    BY <1>1, <1>5, <2>1 DEF RunqGetNext
<1>6. ASSUME NEW c \in CPUs, RunqExtract(c) PROVE RInv'
  <2>1. PICK s : s = Search(c)
    OBVIOUS
  <2>2. s \in Queued /\ got' \in Items \cup {None}
    BY <2>1, <1>6, SearchFinds DEF RunqExtract
  <2>3. Unlink(s)
    BY <2>1, <1>6 DEF RunqExtract, Unlink
  <2> QED
    BY <2>2, <2>3, UnlinkKeeps
<1>7. ASSUME RunqGetNextIgnoreAffinity PROVE RInv'
  <2>1. got' \in Items \cup {None}
    BY <1>7, TopIs
  <2> QED
    BY <1>1, <1>7, <2>1 DEF RunqGetNextIgnoreAffinity
<1>8. CASE UNCHANGED vars
  BY <1>1, <1>8 DEF vars
<1> QED
  BY <1>2, <1>3, <1>4, <1>5, <1>6, <1>7, <1>8 DEF Next

\* The lists and the map stay in order: every schedee stands once, in the list of
\* the level it was filed at, and the bits set are those of the lists with
\* somebody in them.
THEOREM RunqCorrect == Spec => []RInv
  BY InitHolds, NextKeeps, PTL DEF Spec

\* The bitmap of list_array.c never misses a queued schedee nor shows an empty
\* level, for any number of priorities and bits in a word, and whatever priority
\* a queued schedee is given meanwhile: runq_prio remembers where it was filed.
THEOREM MapMatchesListsHolds == Spec => []MapMatchesLists
<1>1. RInv => MapMatchesLists
  BY BitOfLevel DEF MapMatchesLists
<1> QED
  BY <1>1, RunqCorrect, PTL

-----------------------------------------------------------------------------
(* The refinement.  Who is queued, and who stands before whom, as functions  *)
(* of the lists alone.                                                       *)

Held(L) == {s \in Items : \E l \in Levels : \E i \in 1..Len(L[l]) : L[l][i] = s}

Prec(L) ==
    {p \in Items \X Items :
        \E l \in Levels : \E i, j \in 1..Len(L[l]) :
            i < j /\ L[l][i] = p[1] /\ L[l][j] = p[2]}

LEMMA HeldIs ==
    ASSUME NEW L \in [Levels -> Seq(Items)]
    PROVE  UNION {ToSet(L[l]) : l \in Levels} = Held(L)
<1>1. \A l \in Levels : \A i \in 1..Len(L[l]) : L[l][i] \in Items
  BY ElementOfSeq
<1>2. \A l \in Levels : DOMAIN L[l] = 1..Len(L[l])
  OBVIOUS
<1> QED
  BY <1>1, <1>2 DEF Held, ToSet

LEMMA PrecIs ==
    ASSUME NEW L \in [Levels -> Seq(Items)]
    PROVE  {p \in Held(L) \X Held(L) :
              \E l \in Levels : \E j \in 1..Len(L[l]) :
                L[l][j] = p[2] /\ p[1] \in ToSet(SubSeq(L[l], 1, j - 1))} = Prec(L)
<1>1. ASSUME NEW l \in Levels, NEW j \in 1..Len(L[l]), NEW x
      PROVE  x \in ToSet(SubSeq(L[l], 1, j - 1)) <=>
                \E i \in 1..Len(L[l]) : i < j /\ L[l][i] = x
  <2>1. PICK q \in Seq(Items) : q = L[l]
    OBVIOUS
  <2>2. Len(q) \in Nat /\ j \in 1..Len(q)
    BY <2>1
  <2>3. PICK r : r = SubSeq(q, 1, j - 1)
    OBVIOUS
  <2>4. DOMAIN r = 1..(j - 1) /\ \A i \in 1..(j - 1) : r[i] = q[i]
    BY <2>2, <2>3
  <2>5. x \in ToSet(r) <=> \E i \in 1..(j - 1) : q[i] = x
    BY <2>4 DEF ToSet
  <2>6. (\E i \in 1..(j - 1) : q[i] = x) <=> \E i \in 1..Len(q) : i < j /\ q[i] = x
    BY <2>2
  <2> QED
    BY <2>1, <2>3, <2>5, <2>6
<1>2. ASSUME NEW l \in Levels, NEW i \in 1..Len(L[l]) PROVE L[l][i] \in Held(L)
  <2>1. L[l][i] \in Items
    BY ElementOfSeq
  <2> QED
    BY <2>1 DEF Held
<1>3. Held(L) \subseteq Items
  BY DEF Held
<1> DEFINE W == {p \in Held(L) \X Held(L) :
              \E l \in Levels : \E j \in 1..Len(L[l]) :
                L[l][j] = p[2] /\ p[1] \in ToSet(SubSeq(L[l], 1, j - 1))}
<1>4. ASSUME NEW p \in W PROVE p \in Prec(L)
  BY <1>1, <1>3 DEF Prec
<1>5. ASSUME NEW p \in Prec(L) PROVE p \in W
  <2>1. PICK l \in Levels : \E i, j \in 1..Len(L[l]) : i < j /\ L[l][i] = p[1] /\ L[l][j] = p[2]
    BY DEF Prec
  <2>2. p \in Items \X Items
    BY DEF Prec
  <2>3. p[1] \in Held(L) /\ p[2] \in Held(L)
    BY <2>1, <1>2
  <2>4. p \in Held(L) \X Held(L)
    BY <2>2, <2>3
  <2> QED
    BY <2>1, <2>4, <1>1
<1> QED
  BY <1>4, <1>5

LEMMA ViewIs ==
    ASSUME RInv
    PROVE  Queued = Held(list) /\ Before = Prec(list)
<1>1. list \in [Levels -> Seq(Items)]
  BY DEF RInv, Typed
<1>2. Queued = Held(list)
  BY <1>1, HeldIs DEF Queued
<1> QED
  BY <1>1, <1>2, PrecIs DEF Before

LEMMA ViewIsNext ==
    ASSUME list' \in [Levels -> Seq(Items)]
    PROVE  Queued' = Held(list') /\ Before' = Prec(list')
<1>2. Queued' = Held(list')
  BY HeldIs DEF Queued
<1> QED
  BY <1>2, PrecIs DEF Before

FiledMap == [s \in Items |-> Filed(s)]

\* A schedee is filed at a level exactly while it stands in its list.
LEMMA FiledAt ==
    ASSUME RInv, NEW s \in Items
    PROVE  /\ FiledMap[s] = Unfiled <=> s \notin Queued
           /\ \A l \in Levels : FiledMap[s] = l <=>
                                    \E i \in 1..Len(list[l]) : list[l][i] = s
<1>0. FiledMap[s] = IF s \in Queued THEN runqPrio[s] ELSE -1
  BY DEF FiledMap, Filed, Unfiled
<1>1. \A l \in Levels : l # -1
  BY RunqAssumption DEF Levels
<1>2. CASE s \in Queued
  <2>1. /\ runqPrio[s] \in Levels
        /\ \E i \in 1..Len(list[runqPrio[s]]) : list[runqPrio[s]][i] = s
        /\ \A l \in Levels : l # runqPrio[s] => \A i \in 1..Len(list[l]) : list[l][i] # s
    BY <1>2, QueuedAt
  <2> QED
    BY <2>1, <1>0, <1>1, <1>2 DEF Unfiled
<1>3. CASE s \notin Queued
  BY <1>0, <1>1, <1>3, QueuedIs DEF Unfiled
<1> QED
  BY <1>2, <1>3

\* Filing a schedee: it comes after everybody at its level.
LEMMA InsertView ==
    ASSUME RInv, NEW s \in Items, RunqInsert(s)
    PROVE  /\ prio[s] \in Levels /\ FiledMap[s] = Unfiled
           /\ FiledMap' = [FiledMap EXCEPT ![s] = prio[s]]
           /\ Before' = Before \cup {<<t, s>> : t \in {u \in Items : FiledMap[u] = prio[s]}}
<1>1. PICK p \in Levels : p = prio[s]
  BY InsertIs
<1>2. /\ list' \in [Levels -> Seq(Items)]
      /\ Len(list'[p]) = Len(list[p]) + 1
      /\ \A i \in 1..Len(list[p]) : list'[p][i] = list[p][i]
      /\ list'[p][Len(list[p]) + 1] = s
      /\ \A l \in Levels : l # p => list'[l] = list[l]
      /\ runqPrio' = [runqPrio EXCEPT ![s] = p]
  BY <1>1, InsertIs
<1>3. list \in [Levels -> Seq(Items)] /\ runqPrio \in [Items -> Prios]
      /\ \A l \in Levels : Len(list[l]) \in Nat
  BY DEF RInv, Typed
<1>4. s \notin Queued
  BY DEF RunqInsert
<1>5. \A x : x \in Held(list') <=> x \in Held(list) \/ x = s
  <2>1. \A i \in 1..Len(list'[p]) : i \in 1..Len(list[p]) \/ i = Len(list[p]) + 1
    BY <1>2, <1>3
  <2>2. Len(list[p]) + 1 \in 1..Len(list'[p]) /\ \A i \in 1..Len(list[p]) : i \in 1..Len(list'[p])
    BY <1>2, <1>3
  <2>3. ASSUME NEW x \in Held(list') PROVE x \in Held(list) \/ x = s
    BY <2>1, <1>2 DEF Held
  <2>4. ASSUME NEW x \in Held(list) PROVE x \in Held(list')
    <3>1. PICK l \in Levels : \E i \in 1..Len(list[l]) : list[l][i] = x
      BY DEF Held
    <3>2. PICK i \in 1..Len(list[l]) : list[l][i] = x
      BY <3>1
    <3>3. i \in 1..Len(list'[l]) /\ list'[l][i] = x
      BY <3>2, <2>2, <1>2
    <3> QED
      BY <3>3 DEF Held
  <2>5. s \in Held(list')
    BY <2>2, <1>2 DEF Held
  <2> QED
    BY <2>3, <2>4, <2>5
<1>6. \A x : x \in Queued' <=> x \in Queued \/ x = s
  BY <1>2, <1>5, ViewIs, ViewIsNext
<1>7. FiledMap[s] = Unfiled
  BY <1>4, FiledAt
<1>8. FiledMap' = [FiledMap EXCEPT ![s] = p]
  <2>1. \A x \in Items : Filed(x)' = IF x = s THEN p ELSE Filed(x)
    BY <1>2, <1>3, <1>6 DEF Filed, Unfiled
  <2> QED
    BY <2>1 DEF FiledMap
<1>9. \A x, y \in Items : <<x, y>> \in Prec(list') <=>
            <<x, y>> \in Prec(list) \/ (y = s /\ FiledMap[x] = p)
  <2> TAKE x, y \in Items
  <2>1. ASSUME NEW L PROVE <<x, y>> \in Prec(L) <=>
            \E l \in Levels : \E i, j \in 1..Len(L[l]) : i < j /\ L[l][i] = x /\ L[l][j] = y
    BY DEF Prec
  <2>2. FiledMap[x] = p <=> \E i \in 1..Len(list[p]) : list[p][i] = x
    BY FiledAt
  <2>3. ASSUME <<x, y>> \in Prec(list) PROVE <<x, y>> \in Prec(list')
    <3>1. PICK l \in Levels : \E i, j \in 1..Len(list[l]) : i < j /\ list[l][i] = x /\ list[l][j] = y
      BY <2>3, <2>1
    <3>2. PICK i \in 1..Len(list[l]), j \in 1..Len(list[l]) : i < j /\ list[l][i] = x /\ list[l][j] = y
      BY <3>1
    <3>3. /\ i \in 1..Len(list'[l]) /\ list'[l][i] = x
          /\ j \in 1..Len(list'[l]) /\ list'[l][j] = y
      <4>1. CASE l # p
        <5>1. list'[l] = list[l]
          BY <4>1, <1>2
        <5> QED
          BY <5>1, <3>2
      <4>2. CASE l = p
        <5>1. i \in 1..Len(list[p]) /\ j \in 1..Len(list[p])
          BY <4>2
        <5>2. i \in 1..Len(list'[p]) /\ j \in 1..Len(list'[p])
          BY <5>1, <1>2, <1>3
        <5> QED
          BY <5>1, <5>2, <4>2, <3>2, <1>2
      <4> QED
        BY <4>1, <4>2
    <3> QED
      BY <3>2, <3>3, <2>1
  <2>4. ASSUME y = s, FiledMap[x] = p PROVE <<x, y>> \in Prec(list')
    <3>1. PICK i \in 1..Len(list[p]) : list[p][i] = x
      BY <2>2, <2>4
    <3>2. PICK j \in Nat : j = Len(list[p]) + 1
      BY <1>3
    <3>3. /\ i \in 1..Len(list'[p]) /\ list'[p][i] = x
          /\ j \in 1..Len(list'[p]) /\ list'[p][j] = y /\ i < j
      BY <3>1, <3>2, <2>4, <1>2, <1>3
    <3> QED
      BY <3>3, <2>1
  <2>5. ASSUME <<x, y>> \in Prec(list')
        PROVE  <<x, y>> \in Prec(list) \/ (y = s /\ FiledMap[x] = p)
    <3>1. PICK l \in Levels : \E i, j \in 1..Len(list'[l]) : i < j /\ list'[l][i] = x /\ list'[l][j] = y
      BY <2>5, <2>1
    <3>2. PICK i \in 1..Len(list'[l]), j \in 1..Len(list'[l]) : i < j /\ list'[l][i] = x /\ list'[l][j] = y
      BY <3>1
    <3>3. CASE l # p
      <4>1. list'[l] = list[l]
        BY <3>3, <1>2
      <4> QED
        BY <4>1, <3>2, <2>1
    <3>4. CASE l = p /\ j = Len(list[p]) + 1
      <4>1. i \in 1..Len(list[p])
        BY <3>2, <3>4, <1>2, <1>3
      <4>2. y = s /\ list[p][i] = x
        BY <4>1, <3>2, <3>4, <1>2
      <4> QED
        BY <4>1, <4>2, <2>2
    <3>5. CASE l = p /\ j # Len(list[p]) + 1
      <4>0. PICK n \in Nat : n = Len(list[p])
        BY <1>3
      <4>a. Len(list'[p]) = n + 1
        BY <4>0, <1>2
      <4>b. i \in 1..(n + 1) /\ j \in 1..(n + 1) /\ j # n + 1 /\ i < j
        BY <4>0, <4>a, <3>2, <3>5
      <4>1. i \in 1..Len(list[p]) /\ j \in 1..Len(list[p])
        BY <4>0, <4>b
      <4>2. list[p][i] = x /\ list[p][j] = y
        BY <4>1, <3>2, <3>5, <1>2
      <4> QED
        BY <4>1, <4>2, <3>2, <2>1
    <3> QED
      BY <3>3, <3>4, <3>5
  <2> QED
    BY <2>3, <2>4, <2>5
<1>10. Before' = Before \cup {<<t, s>> : t \in {u \in Items : FiledMap[u] = p}}
  <2>1. Before = Prec(list) /\ Before' = Prec(list')
    BY <1>2, ViewIs, ViewIsNext
  <2>2. Prec(list) \subseteq Items \X Items /\ Prec(list') \subseteq Items \X Items
    BY DEF Prec
  <2>3. Prec(list') = Prec(list) \cup {<<t, s>> : t \in {u \in Items : FiledMap[u] = p}}
    <3>1. ASSUME NEW z \in Prec(list')
          PROVE  z \in Prec(list) \cup {<<t, s>> : t \in {u \in Items : FiledMap[u] = p}}
      <4>1. PICK x \in Items, y \in Items : z = <<x, y>>
        BY <2>2
      <4> QED
        BY <4>1, <1>9
    <3>2. ASSUME NEW z \in Prec(list) PROVE z \in Prec(list')
      <4>1. PICK x \in Items, y \in Items : z = <<x, y>>
        BY <2>2
      <4> QED
        BY <4>1, <1>9
    <3>3. ASSUME NEW t \in Items, FiledMap[t] = p PROVE <<t, s>> \in Prec(list')
      BY <3>3, <1>9
    <3> QED
      BY <3>1, <3>2, <3>3
  <2> QED
    BY <2>1, <2>3
<1> QED
  BY <1>1, <1>7, <1>8, <1>10

\* Where the schedee at position k of list l stood before the one at position i
\* of list p was unlinked, and where the one at position m stands afterwards.
Old(p, i, l, k) == IF l = p /\ i <= k THEN k + 1 ELSE k
New(p, i, l, m) == IF l = p /\ i < m THEN m - 1 ELSE m

LEMMA UnlinkPlaces ==
    ASSUME RInv, NEW s \in Queued, Unlink(s)
    PROVE  \E p \in Levels : \E i \in Nat :
           /\ \A l \in Levels : \A k \in 1..Len(list'[l]) :
                /\ Old(p, i, l, k) \in 1..Len(list[l])
                /\ list[l][Old(p, i, l, k)] = list'[l][k] /\ list'[l][k] # s
           /\ \A l \in Levels : \A m \in 1..Len(list[l]) : list[l][m] # s =>
                /\ New(p, i, l, m) \in 1..Len(list'[l])
                /\ list'[l][New(p, i, l, m)] = list[l][m]
                /\ l = p => m # i
<1>1. PICK p \in Levels : \E i \in 1..Len(list[p]) :
           /\ p = runqPrio[s] /\ list[p][i] = s
           /\ list' \in [Levels -> Seq(Items)]
           /\ Len(list'[p]) = Len(list[p]) - 1
           /\ \A j \in 1..(i - 1) : list'[p][j] = list[p][j]
           /\ \A j \in i..Len(list'[p]) : list'[p][j] = list[p][j + 1]
           /\ \A l \in Levels : l # p => list'[l] = list[l]
           /\ occupied' = IF list'[p] # <<>> THEN occupied
                          ELSE [occupied EXCEPT ![p \div Bits] = @ \ {p % Bits}]
           /\ prio' = prio /\ runqPrio' = runqPrio
  BY UnlinkIs
<1>2. PICK i \in 1..Len(list[p]) :
           /\ p = runqPrio[s] /\ list[p][i] = s
           /\ list' \in [Levels -> Seq(Items)]
           /\ Len(list'[p]) = Len(list[p]) - 1
           /\ \A j \in 1..(i - 1) : list'[p][j] = list[p][j]
           /\ \A j \in i..Len(list'[p]) : list'[p][j] = list[p][j + 1]
           /\ \A l \in Levels : l # p => list'[l] = list[l]
  BY <1>1
<1>3. PICK n \in Nat : n = Len(list[p])
  BY DEF RInv, Typed
<1>4. i \in 1..n /\ i \in Nat /\ Len(list'[p]) = n - 1
  BY <1>2, <1>3
<1>5. \A j \in 1..n : list[p][j] = s => j = i
  BY <1>2, <1>3 DEF RInv, Once
<1>6. \A l \in Levels : l # p => \A j \in 1..Len(list[l]) : list[l][j] # s
  BY <1>2, QueuedAt
<1>7. ASSUME NEW l \in Levels, NEW k \in 1..Len(list'[l])
      PROVE  /\ Old(p, i, l, k) \in 1..Len(list[l])
             /\ list[l][Old(p, i, l, k)] = list'[l][k] /\ list'[l][k] # s
  <2>1. CASE l # p
    <3>1. list'[l] = list[l] /\ Old(p, i, l, k) = k
      BY <2>1, <1>2 DEF Old
    <3> QED
      BY <3>1, <2>1, <1>6
  <2>2. CASE l = p /\ i <= k
    <3>1. k \in 1..(n - 1) /\ k \in i..Len(list'[p]) /\ Old(p, i, l, k) = k + 1
      BY <2>2, <1>4 DEF Old
    <3>2. PICK m \in 1..n : m = k + 1 /\ m # i
      BY <3>1, <2>2, <1>4
    <3>3. list'[p][k] = list[p][m]
      BY <3>1, <3>2, <1>2
    <3> QED
      BY <3>1, <3>2, <3>3, <2>2, <1>3, <1>5
  <2>3. CASE l = p /\ ~(i <= k)
    <3>1. k \in 1..n /\ k \in 1..(i - 1) /\ k # i /\ Old(p, i, l, k) = k
      BY <2>3, <1>4 DEF Old
    <3>2. list'[p][k] = list[p][k]
      BY <3>1, <1>2
    <3> QED
      BY <3>1, <3>2, <2>3, <1>3, <1>5
  <2> QED
    BY <2>1, <2>2, <2>3
<1>8. ASSUME NEW l \in Levels, NEW m \in 1..Len(list[l]), list[l][m] # s
      PROVE  /\ New(p, i, l, m) \in 1..Len(list'[l])
             /\ list'[l][New(p, i, l, m)] = list[l][m]
             /\ l = p => m # i
  <2>1. CASE l # p
    <3>1. list'[l] = list[l] /\ New(p, i, l, m) = m
      BY <2>1, <1>2 DEF New
    <3> QED
      BY <3>1, <2>1
  <2>2. CASE l = p /\ i < m
    <3>1. m \in 1..n /\ New(p, i, l, m) = m - 1
      BY <2>2, <1>3 DEF New
    <3>2. PICK k \in 1..(n - 1) : k = m - 1 /\ k + 1 = m /\ k \in i..Len(list'[p])
      BY <3>1, <2>2, <1>4
    <3>3. list'[p][k] = list[p][m]
      BY <3>2, <1>2
    <3> QED
      BY <3>1, <3>2, <3>3, <2>2, <1>4
  <2>3. CASE l = p /\ ~(i < m)
    <3>1. m # i
      BY <2>3, <1>8, <1>2
    <3>2. m \in 1..n
      BY <2>3, <1>3
    <3>3. m \in 1..(i - 1) /\ m \in 1..(n - 1) /\ New(p, i, l, m) = m
      BY <3>1, <3>2, <2>3, <1>4 DEF New
    <3>4. list'[p][m] = list[p][m]
      BY <3>3, <1>2
    <3> QED
      BY <3>1, <3>3, <3>4, <2>3, <1>4
  <2> QED
    BY <2>1, <2>2, <2>3
<1> QED
  BY <1>4, <1>7, <1>8

\* Unlinking a schedee leaves the others in their order.
LEMMA UnlinkView ==
    ASSUME RInv, NEW s \in Queued, Unlink(s)
    PROVE  /\ s \in Items /\ FiledMap[s] # Unfiled
           /\ FiledMap' = [FiledMap EXCEPT ![s] = Unfiled]
           /\ Before' = {z \in Before : z[1] # s /\ z[2] # s}
<1>0. /\ s \in Items /\ list' \in [Levels -> Seq(Items)]
      /\ list \in [Levels -> Seq(Items)] /\ runqPrio' = runqPrio
  BY UnlinkIs, QueuedAt DEF RInv, Typed
<1>1. PICK p \in Levels : \E i \in Nat :
           /\ \A l \in Levels : \A k \in 1..Len(list'[l]) :
                /\ Old(p, i, l, k) \in 1..Len(list[l])
                /\ list[l][Old(p, i, l, k)] = list'[l][k] /\ list'[l][k] # s
           /\ \A l \in Levels : \A m \in 1..Len(list[l]) : list[l][m] # s =>
                /\ New(p, i, l, m) \in 1..Len(list'[l])
                /\ list'[l][New(p, i, l, m)] = list[l][m]
                /\ l = p => m # i
  BY UnlinkPlaces
<1>2. PICK i \in Nat :
           /\ \A l \in Levels : \A k \in 1..Len(list'[l]) :
                /\ Old(p, i, l, k) \in 1..Len(list[l])
                /\ list[l][Old(p, i, l, k)] = list'[l][k] /\ list'[l][k] # s
           /\ \A l \in Levels : \A m \in 1..Len(list[l]) : list[l][m] # s =>
                /\ New(p, i, l, m) \in 1..Len(list'[l])
                /\ list'[l][New(p, i, l, m)] = list[l][m]
                /\ l = p => m # i
  BY <1>1
<1>3. \A x : x \in Held(list') <=> x \in Held(list) /\ x # s
  <2>1. ASSUME NEW x, x \in Held(list') PROVE x \in Held(list) /\ x # s
    <3>1. PICK l \in Levels : \E k \in 1..Len(list'[l]) : list'[l][k] = x
      BY <2>1 DEF Held
    <3>2. PICK k \in 1..Len(list'[l]) : list'[l][k] = x
      BY <3>1
    <3>3. Old(p, i, l, k) \in 1..Len(list[l]) /\ list[l][Old(p, i, l, k)] = x
      BY <3>2, <1>2
    <3>4. x # s
      BY <3>2, <1>2
    <3> QED
      BY <2>1, <3>3, <3>4 DEF Held
  <2>2. ASSUME NEW x, x \in Held(list), x # s PROVE x \in Held(list')
    <3>1. PICK l \in Levels : \E m \in 1..Len(list[l]) : list[l][m] = x
      BY <2>2 DEF Held
    <3>2. PICK m \in 1..Len(list[l]) : list[l][m] = x
      BY <3>1
    <3>3. New(p, i, l, m) \in 1..Len(list'[l]) /\ list'[l][New(p, i, l, m)] = x
      BY <3>2, <2>2, <1>2
    <3> QED
      BY <2>2, <3>3 DEF Held
  <2> QED
    BY <2>1, <2>2
<1>4. \A x : x \in Queued' <=> x \in Queued /\ x # s
  BY <1>0, <1>3, ViewIs, ViewIsNext
<1>5. FiledMap[s] # Unfiled
  BY <1>0, FiledAt
<1>6. FiledMap' = [FiledMap EXCEPT ![s] = Unfiled]
  <2>1. \A x \in Items : Filed(x)' = IF x = s THEN Unfiled ELSE Filed(x)
    BY <1>0, <1>4 DEF Filed, Unfiled
  <2> QED
    BY <2>1 DEF FiledMap
<1>7. ASSUME NEW x \in Items, NEW y \in Items
      PROVE  <<x, y>> \in Prec(list') <=> <<x, y>> \in Prec(list) /\ x # s /\ y # s
  <2>1. ASSUME NEW L PROVE <<x, y>> \in Prec(L) <=>
            \E l \in Levels : \E a, b \in 1..Len(L[l]) : a < b /\ L[l][a] = x /\ L[l][b] = y
    BY DEF Prec
  <2>2. ASSUME <<x, y>> \in Prec(list') PROVE <<x, y>> \in Prec(list) /\ x # s /\ y # s
    <3>1. PICK l \in Levels : \E a, b \in 1..Len(list'[l]) : a < b /\ list'[l][a] = x /\ list'[l][b] = y
      BY <2>2, <2>1
    <3>2. PICK a \in 1..Len(list'[l]), b \in 1..Len(list'[l]) : a < b /\ list'[l][a] = x /\ list'[l][b] = y
      BY <3>1
    <3>3. /\ Old(p, i, l, a) \in 1..Len(list[l]) /\ Old(p, i, l, b) \in 1..Len(list[l])
          /\ list[l][Old(p, i, l, a)] = x /\ list[l][Old(p, i, l, b)] = y /\ x # s /\ y # s
      BY <3>2, <1>2
    <3>4. Old(p, i, l, a) < Old(p, i, l, b)
      BY <3>2 DEF Old
    <3> QED
      BY <3>3, <3>4, <2>1
  <2>3. ASSUME <<x, y>> \in Prec(list), x # s, y # s PROVE <<x, y>> \in Prec(list')
    <3>1. PICK l \in Levels : \E a, b \in 1..Len(list[l]) : a < b /\ list[l][a] = x /\ list[l][b] = y
      BY <2>3, <2>1
    <3>2. PICK a \in 1..Len(list[l]), b \in 1..Len(list[l]) : a < b /\ list[l][a] = x /\ list[l][b] = y
      BY <3>1
    <3>3. /\ New(p, i, l, a) \in 1..Len(list'[l]) /\ New(p, i, l, b) \in 1..Len(list'[l])
          /\ list'[l][New(p, i, l, a)] = x /\ list'[l][New(p, i, l, b)] = y
          /\ (l = p => a # i /\ b # i)
      BY <3>2, <2>3, <1>2
    <3>4. New(p, i, l, a) < New(p, i, l, b)
      BY <3>2, <3>3 DEF New
    <3> QED
      BY <3>3, <3>4, <2>1
  <2> QED
    BY <2>2, <2>3
<1>8. Before' = {z \in Before : z[1] # s /\ z[2] # s}
  <2>1. Before = Prec(list) /\ Before' = Prec(list')
    BY <1>0, ViewIs, ViewIsNext
  <2>2. Prec(list) \subseteq Items \X Items /\ Prec(list') \subseteq Items \X Items
    BY DEF Prec
  <2>3. \A z \in Items \X Items : z \in Prec(list') <=> z \in Prec(list) /\ z[1] # s /\ z[2] # s
    BY <1>7
  <2> QED
    BY <2>1, <2>2, <2>3
<1> QED
  BY <1>0, <1>5, <1>6, <1>8

\* Levels of two schedees that are queued.
LEMMA FiledLevels ==
    ASSUME RInv, NEW s \in Items, FiledMap[s] # Unfiled
    PROVE  /\ FiledMap[s] \in Levels
           /\ \E i \in 1..Len(list[FiledMap[s]]) : list[FiledMap[s]][i] = s
<1>1. s \in Queued
  BY FiledAt
<1>2. FiledMap[s] = runqPrio[s] /\ runqPrio[s] \in Levels
  BY <1>1, QueuedAt DEF FiledMap, Filed
<1> QED
  BY <1>2, FiledAt

\* Who is first of the highest level of a set has no better claim in it.
LEMMA FirstIsBest ==
    ASSUME RInv, NEW S, S \subseteq Items, \A t \in S : FiledMap[t] # Unfiled,
           NEW l \in Levels, NEW j \in 1..Len(list[l]), list[l][j] \in S,
           \A k \in 1..(j - 1) : list[l][k] \notin S,
           \A m \in Levels : l < m => \A k \in 1..Len(list[m]) : list[m][k] \notin S
    PROVE  \A t \in S : FiledMap[t] <= FiledMap[list[l][j]] /\ <<t, list[l][j]>> \notin Before
<1> TAKE t \in S
<1>0. list \in [Levels -> Seq(Items)] /\ MaxPrio \in Nat
  BY RunqAssumption DEF RInv, Typed
<1>1. PICK s \in Items : s = list[l][j] /\ s \in S
  OBVIOUS
<1>2. FiledMap[s] = l
  BY <1>1, FiledAt
<1>3. PICK m \in Levels : m = FiledMap[t]
  BY FiledLevels
<1>4. PICK k \in 1..Len(list[m]) : list[m][k] = t
  BY <1>3, FiledLevels
<1>5. ~(l < m)
  BY <1>4
<1>6. FiledMap[t] <= FiledMap[s]
  BY <1>0, <1>2, <1>3, <1>5 DEF Levels
<1>7. ASSUME <<t, s>> \in Before PROVE FALSE
  <2>1. <<t, s>> \in Prec(list)
    BY <1>7, ViewIs
  <2>2. PICK n \in Levels : \E a, b \in 1..Len(list[n]) : a < b /\ list[n][a] = t /\ list[n][b] = s
    BY <2>1 DEF Prec
  <2>3. PICK a \in 1..Len(list[n]), b \in 1..Len(list[n]) : a < b /\ list[n][a] = t /\ list[n][b] = s
    BY <2>2
  <2>4. n = l
    BY <2>3, <1>1, <1>2, FiledAt
  <2>5. b = j
    BY <2>3, <2>4, <1>1 DEF RInv, Once
  <2>6. a \in 1..(j - 1)
    BY <2>3, <2>4, <2>5, <1>0
  <2> QED
    BY <2>3, <2>4, <2>6
<1> QED
  BY <1>1, <1>6, <1>7

\* The search answers what the priority queue may answer.
LEMMA SearchView ==
    ASSUME RInv, NEW c
    PROVE  LET Here == {s \in {u \in Items : FiledMap[u] # Unfiled} : c \in Affinity[s]}
           IN  \/ Search(c) = None /\ Here = {}
               \/ /\ Search(c) \in Here
                  /\ \A t \in Here : FiledMap[t] <= FiledMap[Search(c)]
                                      /\ <<t, Search(c)>> \notin Before
<1> DEFINE Here == {s \in {u \in Items : FiledMap[u] # Unfiled} : c \in Affinity[s]}
<1>0. list \in [Levels -> Seq(Items)]
  BY DEF RInv, Typed
<1>1. PICK r : r = Search(c)
  OBVIOUS
<1>2. Answers(c, MaxPrio, r)
  BY <1>1, SearchIs
<1>3. ASSUME NEW l \in Levels, NEW k \in 1..Len(list[l])
      PROVE  list[l][k] \in Here <=> c \in Affinity[list[l][k]]
  <2>1. PICK x \in Items : x = list[l][k]
    BY <1>0, ElementOfSeq
  <2>2. FiledMap[x] = l
    BY <2>1, FiledAt
  <2>3. l # Unfiled
    BY RunqAssumption DEF Levels, Unfiled
  <2> QED
    BY <2>1, <2>2, <2>3
<1>4. CASE r = None /\ \A l \in 0..MaxPrio : Nobody(c, l)
  <2>1. ASSUME NEW t \in Here PROVE FALSE
    <3>1. PICK m \in Levels : m = FiledMap[t]
      BY FiledLevels
    <3>2. PICK k \in 1..Len(list[m]) : list[m][k] = t
      BY <3>1, FiledLevels
    <3> QED
      BY <3>2, <1>3, <1>4 DEF Nobody, Levels
  <2> QED
    BY <1>1, <1>4, <2>1
<1>5. CASE \E l \in 0..MaxPrio : \E j \in 1..Len(list[l]) :
        /\ r = list[l][j] /\ c \in Affinity[r]
        /\ \A k \in 1..(j - 1) : c \notin Affinity[list[l][k]]
        /\ \A m \in 0..MaxPrio : l < m => Nobody(c, m)
  <2>1. PICK l \in Levels : \E j \in 1..Len(list[l]) :
        /\ r = list[l][j] /\ c \in Affinity[r]
        /\ \A k \in 1..(j - 1) : c \notin Affinity[list[l][k]]
        /\ \A m \in Levels : l < m => Nobody(c, m)
    BY <1>5 DEF Levels
  <2>2. PICK j \in 1..Len(list[l]) :
        /\ r = list[l][j] /\ c \in Affinity[r]
        /\ \A k \in 1..(j - 1) : c \notin Affinity[list[l][k]]
        /\ \A m \in Levels : l < m => Nobody(c, m)
    BY <2>1
  <2>3. list[l][j] \in Here
    BY <2>2, <1>3
  <2>4. \A k \in 1..(j - 1) : list[l][k] \notin Here
    <3>1. \A k \in 1..(j - 1) : k \in 1..Len(list[l])
      BY <1>0
    <3> QED
      BY <3>1, <2>2, <1>3
  <2>5. \A m \in Levels : l < m => \A k \in 1..Len(list[m]) : list[m][k] \notin Here
    BY <2>2, <1>3 DEF Nobody
  <2>6. Here \subseteq Items /\ \A t \in Here : FiledMap[t] # Unfiled
    OBVIOUS
  <2> HIDE DEF Here
  <2>7. \A t \in Here : FiledMap[t] <= FiledMap[list[l][j]] /\ <<t, list[l][j]>> \notin Before
    BY <2>3, <2>4, <2>5, <2>6, FirstIsBest
  <2> QED
    BY <1>1, <2>2, <2>3, <2>7 DEF Here
<1> QED
  BY <1>2, <1>4, <1>5 DEF Answers

\* So does the search that ignores affinities.
LEMMA TopView ==
    ASSUME RInv, RunqGetNextIgnoreAffinity
    PROVE  LET All == {u \in Items : FiledMap[u] # Unfiled}
           IN  \/ got' = None /\ All = {}
               \/ /\ got' \in All
                  /\ \A t \in All : FiledMap[t] <= FiledMap[got'] /\ <<t, got'>> \notin Before
<1> DEFINE All == {u \in Items : FiledMap[u] # Unfiled}
<1>1. CASE got' = None /\ \A l \in Levels : list[l] = <<>>
  <2>1. ASSUME NEW t \in All PROVE FALSE
    <3>1. PICK m \in Levels : m = FiledMap[t]
      BY FiledLevels
    <3>2. PICK k \in 1..Len(list[m]) : list[m][k] = t
      BY <3>1, FiledLevels
    <3> QED
      BY <3>2, <1>1
  <2> QED
    BY <1>1, <2>1
<1>2. CASE \E l \in Levels : /\ 1 \in 1..Len(list[l])
                             /\ got' = list[l][1] /\ got' \in Items
                             /\ \A m \in Levels : l < m => list[m] = <<>>
  <2>1. PICK l \in Levels : /\ 1 \in 1..Len(list[l])
                            /\ got' = list[l][1] /\ got' \in Items
                            /\ \A m \in Levels : l < m => list[m] = <<>>
    BY <1>2
  <2>2. PICK x \in Items : x = list[l][1] /\ x = got'
    BY <2>1
  <2>3. FiledMap[x] = l /\ l # Unfiled
    BY <2>1, <2>2, FiledAt, RunqAssumption DEF Levels, Unfiled
  <2>4. list[l][1] \in All
    BY <2>2, <2>3
  <2>5. All \subseteq Items /\ \A t \in All : FiledMap[t] # Unfiled
    OBVIOUS
  <2>6. PICK j \in 1..Len(list[l]) : j = 1
    BY <2>1
  <2>7. \A k \in 1..(j - 1) : list[l][k] \notin All
    BY <2>6
  <2>8. \A m \in Levels : l < m => \A k \in 1..Len(list[m]) : list[m][k] \notin All
    BY <2>1
  <2> HIDE DEF All
  <2>9. \A t \in All : FiledMap[t] <= FiledMap[list[l][j]] /\ <<t, list[l][j]>> \notin Before
    BY <2>4, <2>5, <2>6, <2>7, <2>8, FirstIsBest
  <2> QED
    BY <2>2, <2>4, <2>6, <2>9 DEF All
<1> QED
  BY <1>1, <1>2, TopIs

LEMMA InitRefines == Init => Abstract!Init
<1> SUFFICES ASSUME Init PROVE Abstract!Init
  OBVIOUS
<1>1. RInv /\ \A l \in Levels : list[l] = <<>>
  BY InitHolds DEF Init
<1>2. Held(list) = {} /\ Prec(list) = {}
  BY <1>1 DEF Held, Prec
<1>3. Queued = {} /\ Before = {}
  BY <1>1, <1>2, ViewIs
<1> QED
  BY <1>3 DEF Init, Abstract!Init, Filed

\* Every operation on the lists and the map is the operation of the same name on
\* the priority queue; a new claim of a schedee changes nothing there.
LEMMA NextRefines ==
    RInv /\ [Next]_vars => [Abstract!Next]_<<[s \in Items |-> Filed(s)], Before, got>>
<1> SUFFICES ASSUME RInv, [Next]_vars
             PROVE  Abstract!Next \/ (FiledMap' = FiledMap /\ Before' = Before /\ got' = got)
  BY DEF FiledMap
<1>0. ASSUME list' = list, runqPrio' = runqPrio PROVE FiledMap' = FiledMap /\ Before' = Before
  <2>1. Queued' = Queued
    BY <1>0 DEF Queued
  <2>2. Before' = Before
    BY <1>0, <2>1 DEF Before
  <2>3. \A x \in Items : Filed(x)' = Filed(x)
    BY <1>0, <2>1 DEF Filed
  <2> QED
    BY <2>2, <2>3 DEF FiledMap
<1>1. ASSUME NEW s \in Items, RunqInsert(s) PROVE Abstract!Next
  <2>1. PICK p \in Levels :
           /\ FiledMap[s] = Unfiled
           /\ FiledMap' = [FiledMap EXCEPT ![s] = p]
           /\ Before' = Before \cup {<<t, s>> : t \in {u \in Items : FiledMap[u] = p}}
    BY <1>1, InsertView
  <2>2. got' = got
    BY <1>1 DEF RunqInsert
  <2>3. Abstract!Insert(s, p)
    BY <2>1, <2>2 DEF Abstract!Insert, FiledMap
  <2> QED
    BY <2>3 DEF Abstract!Next
<1>2. ASSUME NEW s \in Items, RunqRemove(s) PROVE Abstract!Next
  <2>1. s \in Queued /\ Unlink(s) /\ got' = got
    BY <1>2 DEF RunqRemove
  <2>2. /\ FiledMap[s] # Unfiled
        /\ FiledMap' = [FiledMap EXCEPT ![s] = Unfiled]
        /\ Before' = {z \in Before : z[1] # s /\ z[2] # s}
    BY <2>1, UnlinkView
  <2>3. Abstract!Remove(s)
    BY <2>1, <2>2 DEF Abstract!Remove, Abstract!Without, FiledMap
  <2> QED
    BY <2>3 DEF Abstract!Next
<1>3. ASSUME NEW s \in Items, NEW p \in Prios, Reprioritise(s, p)
      PROVE  FiledMap' = FiledMap /\ Before' = Before /\ got' = got
  BY <1>0, <1>3 DEF Reprioritise
<1>4. ASSUME NEW c \in CPUs, RunqGetNext(c) PROVE Abstract!Next
  <2>1. FiledMap' = FiledMap /\ Before' = Before /\ got' = Search(c)
    BY <1>0, <1>4 DEF RunqGetNext
  <2>2. Search(c) \in Abstract!Answer(Abstract!Here(c))
    BY SearchView DEF Abstract!Answer, Abstract!Here, Abstract!Queued, Abstract!Best, FiledMap
  <2>3. Abstract!GetNext(c)
    BY <2>1, <2>2 DEF Abstract!GetNext, FiledMap
  <2> QED
    BY <2>3 DEF Abstract!Next
<1>5. ASSUME NEW c \in CPUs, RunqExtract(c) PROVE Abstract!Next
  <2>1. PICK s : s = Search(c)
    OBVIOUS
  <2>2. s # None /\ got' = s
    BY <1>5, <2>1 DEF RunqExtract
  <2>3. Unlink(s)
    BY <1>5, <2>1 DEF RunqExtract, Unlink
  <2>4. s \in Queued
    BY <2>1, <2>2, SearchFinds
  <2>5. /\ FiledMap' = [FiledMap EXCEPT ![s] = Unfiled]
        /\ Before' = {z \in Before : z[1] # s /\ z[2] # s}
    BY <2>3, <2>4, UnlinkView
  <2>6. s \in Abstract!Best(Abstract!Here(c))
    BY <2>1, <2>2, SearchView DEF Abstract!Here, Abstract!Queued, Abstract!Best, FiledMap
  <2>7. Abstract!Extract(c)
    BY <2>2, <2>5, <2>6 DEF Abstract!Extract, Abstract!Without, FiledMap
  <2> QED
    BY <2>7 DEF Abstract!Next
<1>6. ASSUME RunqGetNextIgnoreAffinity PROVE Abstract!Next
  <2>1. FiledMap' = FiledMap /\ Before' = Before
    BY <1>0, <1>6 DEF RunqGetNextIgnoreAffinity
  <2>2. got' \in Abstract!Answer(Abstract!Queued)
    BY <1>6, TopView DEF Abstract!Answer, Abstract!Queued, Abstract!Best, FiledMap
  <2>3. Abstract!GetNextIgnoreAffinity
    BY <2>1, <2>2 DEF Abstract!GetNextIgnoreAffinity, FiledMap
  <2> QED
    BY <2>3 DEF Abstract!Next
<1>7. CASE UNCHANGED vars
  BY <1>0, <1>7 DEF vars
<1> QED
  BY <1>1, <1>2, <1>3, <1>4, <1>5, <1>6, <1>7 DEF Next

\* The lists, the bitmap and the two descending searches of list_array.c implement
\* the priority queue: each search of runq_get_next() and runq_extract() finds the
\* first come of the highest level among the schedees that may run on the CPU, and
\* NULL only when there is none, for any number of priorities, CPUs and schedees.
THEOREM PrioQueueRefined == Spec => ImplementsPrioQueue
<1>1. Init => Abstract!Init
  BY InitRefines
<1>2. RInv /\ [Next]_vars => [Abstract!Next]_<<[s \in Items |-> Filed(s)], Before, got>>
  BY NextRefines
<1> QED
  BY <1>1, <1>2, RunqCorrect, PTL DEF Spec, ImplementsPrioQueue, Abstract!Spec
==============================================================================
