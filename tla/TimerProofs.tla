----------------------------- MODULE TimerProofs -----------------------------
(***************************************************************************)
(* Proofs about Timer.                                                     *)
(***************************************************************************)
EXTENDS Timer, LeastNumber, SequenceTheorems, FiniteSetTheorems, TLAPS

-----------------------------------------------------------------------------
(* The sums of a delta list.                                                 *)

Entry == [tmr : Timers, cnt : Nat]

\* The parts of an entry.
LEMMA EntryParts ==
    ASSUME NEW q \in Seq(Entry), NEW i \in 1..Len(q)
    PROVE  q[i] \in Entry /\ q[i].cnt \in Nat /\ q[i].tmr \in Timers
<1>1. q[i] \in Entry
  BY ElementOfSeq
<1> QED
  BY <1>1 DEF Entry

\* A function with the two equations of `upto' up to n.
IsSums(f, q, n) ==
    f = [j \in 0..n |-> IF j = 0 THEN 0 ELSE f[j - 1] + q[j].cnt]

\* Such functions exist for every prefix, with values in Nat.
LEMMA SumsExist ==
    ASSUME NEW q \in Seq(Entry)
    PROVE  \A n \in 0..Len(q) : \E f \in [0..n -> Nat] : IsSums(f, q, n)
<1> DEFINE S == {n \in Nat : n <= Len(q) => \E f \in [0..n -> Nat] : IsSums(f, q, n)}
<1>1. 0 \in S
  <2> DEFINE f == [j \in 0..0 |-> 0]
  <2>1. f \in [0..0 -> Nat] /\ IsSums(f, q, 0)
    BY DEF IsSums
  <2> QED
    BY <2>1
<1>2. ASSUME NEW n \in S PROVE n + 1 \in S
  <2> SUFFICES ASSUME n + 1 <= Len(q)
               PROVE  \E f \in [0..(n + 1) -> Nat] : IsSums(f, q, n + 1)
    BY SMTT(40)
  <2>1. PICK f \in [0..n -> Nat] : IsSums(f, q, n)
    OBVIOUS
  <2>2. q[n + 1].cnt \in Nat
    <3>1. n + 1 \in 1..Len(q)
      OBVIOUS
    <3> QED
      BY <3>1, EntryParts
  <2> DEFINE g == [j \in 0..(n + 1) |-> IF j = n + 1 THEN f[n] + q[n + 1].cnt ELSE f[j]]
  <2>3. g \in [0..(n + 1) -> Nat]
    BY <2>2
  <2>4. \A j \in 0..(n + 1) : g[j] = IF j = 0 THEN 0 ELSE g[j - 1] + q[j].cnt
    BY <2>1 DEF IsSums
  <2>5. IsSums(g, q, n + 1)
    BY <2>3, <2>4 DEF IsSums
  <2> QED
    BY <2>3, <2>5
<1> HIDE DEF S
<1>3. S = Nat
  BY <1>1, <1>2, NatSetInduction DEF S
<1> QED
  BY <1>3 DEF S

\* The equations of Sum.
LEMMA SumEquations ==
    ASSUME NEW q \in Seq(Entry)
    PROVE  /\ Sum(q, 0) = 0
           /\ \A i \in 1..Len(q) : Sum(q, i) = Sum(q, i - 1) + q[i].cnt
           /\ \A i \in 0..Len(q) : Sum(q, i) \in Nat
<1> DEFINE u == CHOOSE f : IsSums(f, q, Len(q))
<1>1. PICK f \in [0..Len(q) -> Nat] : IsSums(f, q, Len(q))
  BY SumsExist
<1>2. IsSums(u, q, Len(q))
  BY <1>1
<1>3. ASSUME NEW i PROVE Sum(q, i) = u[i]
  BY DEF Sum, IsSums
<1>4. /\ u = [j \in 0..Len(q) |-> IF j = 0 THEN 0 ELSE u[j - 1] + q[j].cnt]
      /\ u \in [0..Len(q) -> Nat]
  <2>1. u = [j \in 0..Len(q) |-> IF j = 0 THEN 0 ELSE u[j - 1] + q[j].cnt]
    BY <1>2 DEF IsSums
  <2> HIDE DEF u
  <2> DEFINE S == {n \in Nat : n <= Len(q) => u[n] \in Nat}
  <2>2. 0 \in S
    BY <2>1
  <2>3. ASSUME NEW n \in S PROVE n + 1 \in S
    <3> SUFFICES ASSUME n + 1 <= Len(q) PROVE u[n + 1] \in Nat
      OBVIOUS
    <3>1. n + 1 \in 1..Len(q) /\ u[n] \in Nat
      OBVIOUS
    <3>2. q[n + 1].cnt \in Nat
      BY <3>1, EntryParts
    <3> QED
      BY <2>1, <3>1, <3>2
  <2>4. S = Nat
    <3> HIDE DEF S
    <3> QED
      BY <2>2, <2>3, NatSetInduction DEF S
  <2>5. \A n \in 0..Len(q) : u[n] \in Nat
    BY <2>4
  <2> QED
    BY <2>1, <2>5
<1>5. /\ u[0] = 0
      /\ \A i \in 1..Len(q) : u[i] = u[i - 1] + q[i].cnt
      /\ \A i \in 0..Len(q) : u[i] \in Nat
  <2> HIDE DEF u
  <2>1. Len(q) \in Nat
    OBVIOUS
  <2>2. u[0] = 0 /\ \A i \in 0..Len(q) : u[i] \in Nat
    BY <1>4, <2>1, SMTT(40)
  <2>3. ASSUME NEW i \in 1..Len(q) PROVE u[i] = u[i - 1] + q[i].cnt
    <3>1. i \in 0..Len(q) /\ i # 0
      OBVIOUS
    <3> QED
      BY <1>4, <3>1
  <2> QED
    BY <2>2, <2>3
<1> QED
  <2> HIDE DEF u
  <2> QED
    BY <1>3, <1>5

\* A function that satisfies the equations is the sum.
LEMMA SumIs ==
    ASSUME NEW q \in Seq(Entry), NEW g, g[0] = 0,
           \A j \in 1..Len(q) : g[j] = g[j - 1] + q[j].cnt
    PROVE  \A j \in 0..Len(q) : Sum(q, j) = g[j]
<1> DEFINE S == {n \in Nat : n <= Len(q) => Sum(q, n) = g[n]}
<1>1. 0 \in S
  BY SumEquations
<1>2. ASSUME NEW n \in S PROVE n + 1 \in S
  <2> SUFFICES ASSUME n + 1 <= Len(q) PROVE Sum(q, n + 1) = g[n + 1]
    OBVIOUS
  <2>1. n + 1 \in 1..Len(q) /\ Sum(q, n) = g[n]
    OBVIOUS
  <2>2. Sum(q, n + 1) = Sum(q, n) + q[n + 1].cnt
    BY <2>1, SumEquations
  <2> QED
    BY <2>1, <2>2
<1>3. S = Nat
  <2> HIDE DEF S
  <2> QED
    BY <1>1, <1>2, NatSetInduction DEF S
<1> QED
  BY <1>3

\* Later entries are due no earlier.
LEMMA SumMonotone ==
    ASSUME NEW q \in Seq(Entry), NEW i \in 0..Len(q), NEW j \in i..Len(q)
    PROVE  Sum(q, i) <= Sum(q, j)
<1> DEFINE S == {n \in Nat : i + n <= Len(q) => Sum(q, i) <= Sum(q, i + n)}
<1>1. 0 \in S
  BY SumEquations
<1>2. ASSUME NEW n \in S PROVE n + 1 \in S
  <2> SUFFICES ASSUME i + (n + 1) <= Len(q) PROVE Sum(q, i) <= Sum(q, i + (n + 1))
    OBVIOUS
  <2>1. i + n + 1 \in 1..Len(q) /\ i + n \in 0..Len(q) /\ Sum(q, i) <= Sum(q, i + n)
    OBVIOUS
  <2>2. Sum(q, i + n + 1) = Sum(q, i + n) + q[i + n + 1].cnt
    BY <2>1, SumEquations
  <2>3. q[i + n + 1].cnt \in Nat
    BY <2>1, EntryParts
  <2>4. Sum(q, i) \in Nat /\ Sum(q, i + n) \in Nat
    BY <2>1, SumEquations
  <2> QED
    BY <2>1, <2>2, <2>3, <2>4
<1>3. S = Nat
  <2> HIDE DEF S
  <2> QED
    BY <1>1, <1>2, NatSetInduction DEF S
<1>4. j - i \in Nat /\ i + (j - i) = j
  OBVIOUS
<1>5. j - i \in S
  BY <1>3, <1>4
<1> QED
  BY <1>4, <1>5

-----------------------------------------------------------------------------
(* The operations on a list.                                                 *)

\* Position finds the first entry due at or after the time.
LEMMA PositionIs ==
    ASSUME NEW q \in Seq(Entry), NEW e \in Nat
    PROVE  LET i == Position(q, e)
           IN  /\ i \in 1..(Len(q) + 1)
               /\ i = Len(q) + 1 \/ Sum(q, i) >= e
               /\ \A j \in 1..(i - 1) : Sum(q, j) < e
<1> DEFINE S == {i \in 1..(Len(q) + 1) : i = Len(q) + 1 \/ Sum(q, i) >= e}
<1>1. Len(q) + 1 \in S /\ S \subseteq Nat
  OBVIOUS
<1>2. PICK i \in S : \A j \in S : i <= j
  <2> HIDE DEF S
  <2> QED
    BY <1>1, LeastNatural
<1>3. \A j \in 1..(i - 1) : Sum(q, j) < e
  <2> TAKE j \in 1..(i - 1)
  <2>1. j \notin S /\ j \in 0..Len(q) /\ j \in 1..(Len(q) + 1)
    BY <1>2
  <2>2. Sum(q, j) \in Nat
    BY <2>1, SumEquations
  <2> QED
    BY <2>1, <2>2
<1> QED
  BY <1>2, <1>3 DEF Position

\* A list whose first counter is set to x.
LEMMA HeadCounter ==
    ASSUME NEW a \in Seq(Entry), a # <<>>, NEW x \in Nat
    PROVE  LET f == <<[a[1] EXCEPT !.cnt = x]>> \o Tail(a)
           IN  /\ f \in Seq(Entry) /\ Len(f) = Len(a)
               /\ f[1].tmr = a[1].tmr /\ f[1].cnt = x
               /\ \A j \in 2..Len(a) : f[j] = a[j]
<1> DEFINE h == <<[a[1] EXCEPT !.cnt = x]>>
           b == Tail(a)
<1>1. Len(a) \in Nat \ {0} /\ 1 \in 1..Len(a)
  BY EmptySeq
<1>2. a[1] \in Entry
  BY <1>1, EntryParts
<1>3. h \in Seq(Entry) /\ Len(h) = 1 /\ h[1].tmr = a[1].tmr /\ h[1].cnt = x
  BY <1>2 DEF Entry
<1>4. /\ b \in Seq(Entry) /\ Len(b) = Len(a) - 1
      /\ \A j \in 1..Len(b) : b[j] = a[j + 1]
  BY HeadTailProperties
<1> HIDE DEF h, b
<1>5. /\ h \o b \in Seq(Entry) /\ Len(h \o b) = Len(h) + Len(b)
      /\ \A j \in 1..(Len(h) + Len(b)) :
            (h \o b)[j] = IF j <= Len(h) THEN h[j] ELSE b[j - Len(h)]
  BY <1>3, <1>4, ConcatProperties, ZenonT(40)
<1>6. Len(h \o b) = Len(a) /\ (h \o b)[1] = h[1]
  BY <1>1, <1>3, <1>4, <1>5
<1>7. ASSUME NEW j \in 2..Len(a) PROVE (h \o b)[j] = a[j]
  <2>1. j - 1 \in 1..Len(b) /\ j \in 1..(Len(h) + Len(b)) /\ ~(j <= Len(h))
    BY <1>1, <1>3, <1>4
  <2> QED
    BY <2>1, <1>3, <1>4, <1>5
<1> QED
  BY <1>3, <1>5, <1>6, <1>7 DEF h, b

\* __timer_strat_start() puts the timer at its position, due at the time asked
\* for, and moves nobody's time.
LEMMA StartIs ==
    ASSUME NEW q \in Seq(Entry), NEW t \in Timers, NEW e \in Nat
    PROVE  LET i == Position(q, e)
               r == Start(q, t, e)
           IN  /\ i \in 1..(Len(q) + 1)
               /\ r \in Seq(Entry)
               /\ Len(r) = Len(q) + 1
               /\ r[i].tmr = t /\ Sum(r, i) = e
               /\ \A j \in 1..(i - 1) : r[j].tmr = q[j].tmr /\ Sum(r, j) = Sum(q, j)
               /\ \A j \in (i + 1)..Len(r) :
                    r[j].tmr = q[j - 1].tmr /\ Sum(r, j) = Sum(q, j - 1)
<1> DEFINE i == Position(q, e)
           r == Start(q, t, e)
           left == e - Sum(q, i - 1)
           pre == SubSeq(q, 1, i - 1)
           mid == <<[tmr |-> t, cnt |-> left]>>
           after == SubSeq(q, i, Len(q))
           fixed == IF after = <<>> THEN after
                    ELSE <<[after[1] EXCEPT !.cnt = @ - left]>> \o Tail(after)
<1>1. /\ i \in 1..(Len(q) + 1)
      /\ i = Len(q) + 1 \/ Sum(q, i) >= e
      /\ \A j \in 1..(i - 1) : Sum(q, j) < e
  BY PositionIs
<1>2. r = pre \o mid \o fixed
  BY DEF Start
<1> HIDE DEF i, r
<1>3. Len(q) \in Nat /\ Sum(q, i - 1) \in Nat /\ left \in Nat
  <2>1. i - 1 \in 0..Len(q)
    BY <1>1
  <2>2. Sum(q, i - 1) \in Nat
    BY <2>1, SumEquations
  <2>3. Sum(q, i - 1) <= e
    <3>1. CASE i = 1
      BY <3>1, SumEquations
    <3>2. CASE i # 1
      <4>1. i - 1 \in 1..(i - 1)
        BY <3>2, <1>1
      <4> QED
        BY <4>1, <1>1, <2>2
    <3> QED
      BY <3>1, <3>2
  <2> QED
    BY <2>2, <2>3
<1>4. /\ pre \in Seq(Entry) /\ Len(pre) = i - 1
      /\ \A j \in 1..(i - 1) : pre[j] = q[j]
  <2>1. \A j \in 1..(i - 1) : q[j] \in Entry
    BY <1>1, ElementOfSeq
  <2>2. i - 1 \in Int
    BY <1>1
  <2> QED
    BY <1>1, <2>1, <2>2, SubSeqProperties
<1>5. mid \in Seq(Entry) /\ Len(mid) = 1 /\ mid[1] = [tmr |-> t, cnt |-> left]
  BY <1>3 DEF Entry
<1>6. /\ fixed \in Seq(Entry) /\ Len(fixed) = Len(q) + 1 - i
      /\ \A j \in 2..Len(fixed) : fixed[j] = q[i + j - 1]
      /\ Len(fixed) > 0 => /\ fixed[1].tmr = q[i].tmr
                           /\ fixed[1].cnt = q[i].cnt - left
  <2>1. /\ after \in Seq(Entry) /\ Len(after) = Len(q) + 1 - i
        /\ \A j \in 1..Len(after) : after[j] = q[i + j - 1]
    <3>1. \A j \in i..Len(q) : q[j] \in Entry
      BY <1>1, ElementOfSeq
    <3>2. i \in Int /\ Len(q) \in Int
      BY <1>1
    <3> QED
      BY <1>1, <3>1, <3>2, SubSeqProperties
  <2> HIDE DEF after, left
  <2>2. CASE after = <<>>
    BY <2>1, <2>2
  <2>3. CASE after # <<>>
    <3>1. Len(after) \in Nat \ {0} /\ i \in 1..Len(q)
      BY <2>1, <2>3, <1>1, EmptySeq
    <3>2. after[1] = q[i] /\ q[i] \in Entry
      BY <2>1, <3>1, ElementOfSeq
    <3>3. q[i].cnt - left \in Nat
      <4>1. Sum(q, i) >= e /\ Sum(q, i) = Sum(q, i - 1) + q[i].cnt
        BY <3>1, <1>1, SumEquations
      <4>2. q[i].cnt \in Nat
        BY <3>2 DEF Entry
      <4> QED
        BY <4>1, <4>2, <1>3 DEF left
    <3>4. [after[1] EXCEPT !.cnt = @ - left] = [after[1] EXCEPT !.cnt = q[i].cnt - left]
      BY <3>2
    <3>5. /\ fixed \in Seq(Entry) /\ Len(fixed) = Len(after)
          /\ fixed[1].tmr = after[1].tmr /\ fixed[1].cnt = q[i].cnt - left
          /\ \A j \in 2..Len(after) : fixed[j] = after[j]
      <4> DEFINE f == <<[after[1] EXCEPT !.cnt = q[i].cnt - left]>> \o Tail(after)
      <4>1. fixed = f
        BY <2>3, <3>4
      <4>2. /\ f \in Seq(Entry) /\ Len(f) = Len(after)
            /\ f[1].tmr = after[1].tmr /\ f[1].cnt = q[i].cnt - left
            /\ \A j \in 2..Len(after) : f[j] = after[j]
        BY <2>1, <2>3, <3>3, HeadCounter, Zenon
      <4> QED
        BY <4>1, <4>2
    <3> HIDE DEF fixed
    <3> QED
      BY <2>1, <3>1, <3>2, <3>5
  <2> QED
    BY <2>2, <2>3
<1> HIDE DEF pre, mid, fixed, left
<1>7. /\ r \in Seq(Entry) /\ Len(r) = Len(q) + 1
      /\ \A j \in 1..Len(r) : r[j] = IF j < i THEN pre[j] ELSE IF j = i THEN mid[1]
                                     ELSE fixed[j - i]
  <2>0. /\ pre \o mid \in Seq(Entry) /\ Len(pre \o mid) = Len(pre) + Len(mid)
        /\ \A j \in 1..(Len(pre) + Len(mid)) :
              (pre \o mid)[j] = IF j <= Len(pre) THEN pre[j] ELSE mid[j - Len(pre)]
    BY <1>4, <1>5, ConcatProperties
  <2>1. /\ pre \o mid \in Seq(Entry) /\ Len(pre \o mid) = i
        /\ \A j \in 1..i : (pre \o mid)[j] = IF j < i THEN pre[j] ELSE mid[1]
    <3>1. Len(pre \o mid) = i
      BY <2>0, <1>1, <1>4, <1>5
    <3>2. ASSUME NEW j \in 1..i PROVE (pre \o mid)[j] = IF j < i THEN pre[j] ELSE mid[1]
      <4>1. j \in 1..(Len(pre) + Len(mid)) /\ (j < i <=> j <= Len(pre))
        BY <1>1, <1>4, <1>5
      <4>2. ~(j < i) => j - Len(pre) = 1
        BY <1>1, <1>4
      <4> QED
        BY <2>0, <4>1, <4>2
    <3> QED
      BY <2>0, <3>1, <3>2
  <2>2. /\ (pre \o mid) \o fixed \in Seq(Entry)
        /\ Len((pre \o mid) \o fixed) = i + Len(fixed)
        /\ \A j \in 1..(i + Len(fixed)) : ((pre \o mid) \o fixed)[j] =
              IF j <= i THEN (pre \o mid)[j] ELSE fixed[j - i]
    BY <2>1, <1>6, ConcatProperties, SMTT(40)
  <2>3. i + Len(fixed) = Len(q) + 1 /\ Len(fixed) \in Nat
    BY <1>1, <1>3, <1>6
  <2>4. r \in Seq(Entry) /\ Len(r) = Len(q) + 1
    BY <2>2, <2>3, <1>2
  <2>5. ASSUME NEW j \in 1..Len(r)
        PROVE  r[j] = IF j < i THEN pre[j] ELSE IF j = i THEN mid[1] ELSE fixed[j - i]
    <3>1. j \in 1..(i + Len(fixed))
      BY <2>3, <2>4
    <3>2. r[j] = IF j <= i THEN (pre \o mid)[j] ELSE fixed[j - i]
      BY <3>1, <2>2, <1>2
    <3>3. j <= i => (pre \o mid)[j] = IF j < i THEN pre[j] ELSE mid[1]
      BY <2>1, <1>1, <1>3
    <3>4. j <= i <=> j < i \/ j = i
      BY <1>1, <1>3
    <3> QED
      BY <3>2, <3>3, <3>4
  <2> QED
    BY <2>4, <2>5
<1>8. \A j \in 0..Len(r) :
        Sum(r, j) = IF j < i THEN Sum(q, j) ELSE IF j = i THEN e ELSE Sum(q, j - 1)
  <2> DEFINE g == [j \in 0..Len(r) |-> IF j < i THEN Sum(q, j) ELSE IF j = i THEN e
                                       ELSE Sum(q, j - 1)]
  <2>1. g[0] = 0
    BY <1>1, <1>7, SumEquations
  <2>2. ASSUME NEW j \in 1..Len(r) PROVE g[j] = g[j - 1] + r[j].cnt
    <3>1. CASE j < i
      <4>1. j \in 1..Len(q) /\ r[j] = q[j]
        BY <3>1, <1>1, <1>4, <1>7
      <4>2. Sum(q, j) = Sum(q, j - 1) + q[j].cnt
        BY <4>1, SumEquations
      <4> QED
        BY <4>1, <4>2, <3>1, <1>1
    <3>2. CASE j = i
      <4>1. r[j].cnt = left
        BY <3>2, <1>5, <1>7
      <4> QED
        BY <4>1, <3>2, <1>1, <1>3 DEF left
    <3>3. CASE j = i + 1
      <4>1. i \in 1..Len(q) /\ Len(fixed) > 0 /\ r[j].cnt = q[i].cnt - left
        <5>1. i \in 1..Len(q) /\ Len(fixed) > 0 /\ j - i = 1 /\ ~(j < i) /\ j # i
          BY <3>3, <1>1, <1>3, <1>6, <1>7
        <5>2. r[j] = fixed[1]
          BY <5>1, <1>7
        <5> QED
          BY <5>1, <5>2, <1>6
      <4>2. Sum(q, i) = Sum(q, i - 1) + q[i].cnt
        BY <4>1, SumEquations
      <4>3. q[i].cnt \in Nat
        BY <4>1, EntryParts
      <4> QED
        BY <4>1, <4>2, <4>3, <3>3, <1>1, <1>3, SMTT(40) DEF left
    <3>4. CASE j > i + 1
      <4>1. j - 1 \in 1..Len(q) /\ r[j] = q[j - 1]
        <5>1. PICK k \in 2..Len(fixed) : k = j - i /\ i + k - 1 = j - 1
          BY <3>4, <1>1, <1>3, <1>6, <1>7
        <5>2. ~(j < i) /\ j # i
          BY <3>4, <1>1, <1>3, <1>7
        <5>3. r[j] = fixed[k] /\ fixed[k] = q[j - 1]
          BY <5>1, <5>2, <1>6, <1>7, Zenon
        <5>4. j - 1 \in 1..Len(q)
          BY <3>4, <1>1, <1>3, <1>7
        <5> QED
          BY <5>3, <5>4
      <4>2. Sum(q, j - 1) = Sum(q, j - 1 - 1) + q[j - 1].cnt
        BY <4>1, SumEquations
      <4> QED
        BY <4>1, <4>2, <3>4, <1>1
    <3> QED
      BY <3>1, <3>2, <3>3, <3>4, <1>1
  <2>3. \A j \in 0..Len(r) : Sum(r, j) = g[j]
    <3> HIDE DEF g
    <3> QED
      BY <2>1, <2>2, <1>7, SumIs
  <2> QED
    BY <2>3
<1>9. r[i].tmr = t /\ Sum(r, i) = e
  <2>1. i \in 1..Len(r) /\ i \in 0..Len(r) /\ ~(i < i)
    BY <1>1, <1>3, <1>7
  <2>2. r[i] = mid[1]
    BY <2>1, <1>7
  <2>3. Sum(r, i) = e
    BY <2>1, <1>8
  <2> QED
    BY <2>2, <2>3, <1>5
<1>10. ASSUME NEW j \in 1..(i - 1)
       PROVE  r[j].tmr = q[j].tmr /\ Sum(r, j) = Sum(q, j)
  <2>1. j \in 1..Len(r) /\ j \in 0..Len(r) /\ j < i
    BY <1>1, <1>3, <1>7
  <2>2. r[j] = q[j]
    BY <2>1, <1>4, <1>7, Zenon
  <2>3. Sum(r, j) = Sum(q, j)
    BY <2>1, <1>8, Zenon
  <2> QED
    BY <2>2, <2>3
<1>11. ASSUME NEW j \in (i + 1)..Len(r)
       PROVE  r[j].tmr = q[j - 1].tmr /\ Sum(r, j) = Sum(q, j - 1)
  <2>1. j \in 1..Len(r) /\ ~(j < i) /\ j # i /\ j - i \in 1..Len(fixed)
    BY <1>1, <1>3, <1>6, <1>7
  <2>2. r[j].tmr = fixed[j - i].tmr /\ Sum(r, j) = Sum(q, j - 1)
    BY <2>1, <1>7, <1>8
  <2>3. fixed[j - i].tmr = q[j - 1].tmr
    BY <2>1, <1>1, <1>3, <1>6, SMTT(40)
  <2> QED
    BY <2>2, <2>3
<1> QED
  BY <1>1, <1>7, <1>9, <1>10, <1>11 DEF i, r

\* __timer_strat_stop() takes the timer off and moves nobody's time.
LEMMA StopIs ==
    ASSUME NEW q \in Seq(Entry), NEW t \in Timers, Places(t, q) # {}
    PROVE  LET r == Stop(q, t)
           IN  \E i \in Places(t, q) :
                /\ r \in Seq(Entry)
                /\ Len(r) = Len(q) - 1
                /\ \A j \in 1..(i - 1) : r[j].tmr = q[j].tmr /\ Sum(r, j) = Sum(q, j)
                /\ \A j \in i..Len(r) : r[j].tmr = q[j + 1].tmr /\ Sum(r, j) = Sum(q, j + 1)
<1> DEFINE i == CHOOSE k \in Places(t, q) : TRUE
           r == Stop(q, t)
           pre == SubSeq(q, 1, i - 1)
           after == SubSeq(q, i + 1, Len(q))
           fixed == IF after = <<>> THEN after
                    ELSE <<[after[1] EXCEPT !.cnt = @ + q[i].cnt]>> \o Tail(after)
<1>1. i \in Places(t, q)
  OBVIOUS
<1>2. r = pre \o fixed
  BY DEF Stop
<1> HIDE DEF i, r
<1>3. i \in 1..Len(q) /\ Len(q) \in Nat
  BY <1>1 DEF Places
<1>4. /\ pre \in Seq(Entry) /\ Len(pre) = i - 1
      /\ \A j \in 1..(i - 1) : pre[j] = q[j]
  <2>1. \A j \in 1..(i - 1) : q[j] \in Entry
    BY <1>3, ElementOfSeq
  <2>2. i - 1 \in Int
    BY <1>3
  <2> QED
    BY <1>3, <2>1, <2>2, SubSeqProperties
<1>5. /\ fixed \in Seq(Entry) /\ Len(fixed) = Len(q) - i
      /\ \A j \in 2..Len(fixed) : fixed[j] = q[i + j]
      /\ Len(fixed) > 0 => /\ fixed[1].tmr = q[i + 1].tmr
                           /\ fixed[1].cnt = q[i + 1].cnt + q[i].cnt
  <2>1. /\ after \in Seq(Entry) /\ Len(after) = Len(q) - i
        /\ \A j \in 1..Len(after) : after[j] = q[i + j]
    <3>1. \A j \in (i + 1)..Len(q) : q[j] \in Entry
      BY <1>3, ElementOfSeq
    <3>2. i + 1 \in Int /\ Len(q) \in Int
      BY <1>3
    <3> QED
      BY <1>3, <3>1, <3>2, SubSeqProperties
  <2> HIDE DEF after
  <2>2. CASE after = <<>>
    BY <2>1, <2>2
  <2>3. CASE after # <<>>
    <3>1. Len(after) \in Nat \ {0} /\ i + 1 \in 1..Len(q)
      BY <2>1, <2>3, <1>3, EmptySeq
    <3>2. after[1] = q[i + 1] /\ q[i + 1] \in Entry
      BY <2>1, <3>1, ElementOfSeq
    <3>3. q[i + 1].cnt + q[i].cnt \in Nat
      BY <1>3, <3>1, EntryParts
    <3>4. fixed = <<[after[1] EXCEPT !.cnt = q[i + 1].cnt + q[i].cnt]>> \o Tail(after)
      <4>1. [after[1] EXCEPT !.cnt = @ + q[i].cnt]
              = [after[1] EXCEPT !.cnt = q[i + 1].cnt + q[i].cnt]
        BY <3>2
      <4> QED
        BY <2>3, <4>1
    <3> DEFINE f == <<[after[1] EXCEPT !.cnt = q[i + 1].cnt + q[i].cnt]>> \o Tail(after)
    <3>5. /\ f \in Seq(Entry) /\ Len(f) = Len(after)
          /\ f[1].tmr = after[1].tmr /\ f[1].cnt = q[i + 1].cnt + q[i].cnt
          /\ \A j \in 2..Len(after) : f[j] = after[j]
      BY <2>1, <2>3, <3>3, HeadCounter, Zenon
    <3>6. fixed = f
      BY <3>4
    <3> HIDE DEF fixed, f
    <3> QED
      BY <2>1, <3>1, <3>2, <3>5, <3>6
  <2> QED
    BY <2>2, <2>3
<1> HIDE DEF pre, fixed
<1>6. /\ r \in Seq(Entry) /\ Len(r) = Len(q) - 1
      /\ \A j \in 1..Len(r) : r[j] = IF j < i THEN pre[j] ELSE fixed[j - (i - 1)]
  <2>1. /\ pre \o fixed \in Seq(Entry) /\ Len(pre \o fixed) = Len(pre) + Len(fixed)
        /\ \A j \in 1..(Len(pre) + Len(fixed)) :
              (pre \o fixed)[j] = IF j <= Len(pre) THEN pre[j] ELSE fixed[j - Len(pre)]
    BY <1>4, <1>5, ConcatProperties
  <2>2. Len(pre) + Len(fixed) = Len(q) - 1
    BY <1>3, <1>4, <1>5
  <2>3. \A j \in 1..(Len(q) - 1) : j < i <=> j <= Len(pre)
    BY <1>3, <1>4
  <2> QED
    BY <2>1, <2>2, <2>3, <1>2, <1>4
<1>7. ASSUME NEW j \in 1..(i - 1) PROVE r[j] = q[j]
  <2>1. j \in 1..Len(r) /\ j < i
    BY <1>3, <1>6
  <2> QED
    BY <2>1, <1>4, <1>6
<1>8. ASSUME NEW j \in (i + 1)..Len(r) PROVE r[j] = q[j + 1]
  <2>1. j \in 1..Len(r) /\ ~(j < i) /\ j - (i - 1) \in 2..Len(fixed) /\ i + (j - (i - 1)) = j + 1
    BY <1>3, <1>5, <1>6
  <2> QED
    BY <2>1, <1>5, <1>6
<1>9. ASSUME i <= Len(r)
      PROVE  r[i].tmr = q[i + 1].tmr /\ r[i].cnt = q[i + 1].cnt + q[i].cnt
  <2>1. i \in 1..Len(r) /\ ~(i < i) /\ i - (i - 1) = 1 /\ Len(fixed) > 0
    BY <1>3, <1>5, <1>6, <1>9
  <2> QED
    BY <2>1, <1>5, <1>6
<1>10. \A j \in 0..Len(r) : Sum(r, j) = IF j < i THEN Sum(q, j) ELSE Sum(q, j + 1)
  <2> DEFINE g == [j \in 0..Len(r) |-> IF j < i THEN Sum(q, j) ELSE Sum(q, j + 1)]
  <2>1. g[0] = 0
    BY <1>3, <1>6, SumEquations
  <2>2. ASSUME NEW j \in 1..Len(r) PROVE g[j] = g[j - 1] + r[j].cnt
    <3>0. j \in 1..Len(q) /\ j + 1 \in 1..Len(q) /\ j + 1 - 1 = j
      BY <1>3, <1>6
    <3>1. Sum(q, j) = Sum(q, j - 1) + q[j].cnt /\ Sum(q, j + 1) = Sum(q, j) + q[j + 1].cnt
      BY <3>0, SumEquations
    <3>2. q[j].cnt \in Nat /\ q[j + 1].cnt \in Nat /\ Sum(q, j - 1) \in Nat
      BY <3>0, EntryParts, SumEquations
    <3>3. CASE j < i
      BY <3>1, <3>3, <1>3, <1>7
    <3>4. CASE j = i
      <4>1. g[j] = Sum(q, j + 1) /\ g[j - 1] = Sum(q, j - 1)
        BY <3>4, <1>3
      <4>2. r[j].cnt = q[j + 1].cnt + q[j].cnt
        BY <3>4, <1>9
      <4> QED
        BY <4>1, <4>2, <3>1, <3>2
    <3>5. CASE j > i
      <4>1. g[j] = Sum(q, j + 1) /\ g[j - 1] = Sum(q, j) /\ r[j] = q[j + 1]
        BY <3>5, <1>3, <1>8
      <4> QED
        BY <4>1, <3>1
    <3> QED
      BY <3>3, <3>4, <3>5, <1>3
  <2>3. \A j \in 0..Len(r) : Sum(r, j) = g[j]
    <3> HIDE DEF g
    <3> QED
      BY <2>1, <2>2, <1>6, SumIs
  <2> QED
    BY <2>3
<1>11. ASSUME NEW j \in 1..(i - 1)
       PROVE  r[j].tmr = q[j].tmr /\ Sum(r, j) = Sum(q, j)
  <2>1. j \in 0..Len(r) /\ j < i
    BY <1>3, <1>6
  <2> QED
    BY <2>1, <1>7, <1>10
<1>12. ASSUME NEW j \in i..Len(r)
       PROVE  r[j].tmr = q[j + 1].tmr /\ Sum(r, j) = Sum(q, j + 1)
  BY <1>3, <1>6, <1>8, <1>9, <1>10
<1> QED
  BY <1>1, <1>6, <1>11, <1>12 DEF r

\* The entries whose times have come are the first Cardinality({...}) ones.
LEMMA DueIsPrefix ==
    ASSUME NEW q \in Seq(Entry), now \in Nat
    PROVE  LET n == Cardinality({i \in 1..Len(q) : Sum(q, i) <= now})
           IN  n \in 0..Len(q) /\ \A i \in 1..Len(q) : Sum(q, i) <= now <=> i <= n
<1> DEFINE D == {i \in 1..Len(q) : Sum(q, i) <= now}
           S == {i \in 1..(Len(q) + 1) : i = Len(q) + 1 \/ ~(Sum(q, i) <= now)}
<1>1. Len(q) \in Nat
  OBVIOUS
<1>2. PICK m \in S : \A j \in S : m <= j
  <2>1. Len(q) + 1 \in S /\ S \subseteq Nat
    BY <1>1
  <2> HIDE DEF S
  <2> QED
    BY <2>1, LeastNatural
<1>3. D = 1..(m - 1)
  <2>1. ASSUME NEW i \in D PROVE i \in 1..(m - 1)
    <3> SUFFICES ASSUME m <= i PROVE FALSE
      BY <1>1, <1>2
    <3>1. m \in 0..Len(q) /\ i \in m..Len(q) /\ m # Len(q) + 1
      BY <1>1, <1>2
    <3>2. Sum(q, m) <= Sum(q, i)
      BY <3>1, SumMonotone
    <3>3. Sum(q, m) \in Nat /\ Sum(q, i) \in Nat
      BY <3>1, SumEquations
    <3> QED
      BY <3>1, <3>2, <3>3, <1>2
  <2>2. ASSUME NEW i \in 1..(m - 1) PROVE i \in D
    BY <1>1, <1>2
  <2> QED
    BY <2>1, <2>2
<1>4. Cardinality(D) = m - 1
  <2>1. m - 1 \in Nat /\ 1 \in Int /\ m - 1 \in Int
    BY <1>1, <1>2
  <2>2. Cardinality(1..(m - 1)) = IF 1 > m - 1 THEN 0 ELSE m - 1 - 1 + 1
    BY <2>1, FS_Interval
  <2>3. Cardinality(1..(m - 1)) = m - 1
    BY <1>2, <2>1, <2>2
  <2> HIDE DEF D
  <2> QED
    BY <1>3, <2>3
<1>5. m - 1 \in 0..Len(q)
  BY <1>1, <1>2
<1>6. \A i \in 1..Len(q) : Sum(q, i) <= now <=> i <= m - 1
  BY <1>1, <1>2, <1>3
<1> QED
  BY <1>4, <1>5, <1>6

\* The turns of timer_strat_sched() take off a prefix and move nobody's time.
LEMMA DropIs ==
    ASSUME NEW q \in Seq(Entry), now \in Nat
    PROVE  LET r == Drop(q)
           IN  \E n \in 0..Len(q) :
                /\ \A i \in 1..Len(q) : Sum(q, i) <= now <=> i <= n
                /\ r \in Seq(Entry)
                /\ Len(r) = Len(q) - n
                /\ \A j \in 1..Len(r) : r[j].tmr = q[n + j].tmr /\ Sum(r, j) = Sum(q, n + j)
<1> DEFINE n == Cardinality({i \in 1..Len(q) : Sum(q, i) <= now})
           r == Drop(q)
           h == <<[q[n + 1] EXCEPT !.cnt = Sum(q, n + 1)]>>
           b == SubSeq(q, n + 2, Len(q))
<1>1. n \in 0..Len(q) /\ \A i \in 1..Len(q) : Sum(q, i) <= now <=> i <= n
  BY DueIsPrefix
<1>2. r = IF n = Len(q) THEN <<>> ELSE h \o b
  BY DEF Drop
<1> HIDE DEF n, r
<1>3. Len(q) \in Nat
  OBVIOUS
<1>4. CASE n = Len(q)
  <2>1. r \in Seq(Entry) /\ Len(r) = 0
    BY <1>2, <1>4
  <2> QED
    BY <2>1, <1>1, <1>3, <1>4 DEF r
<1>5. CASE n # Len(q)
  <2>1. n \in Nat /\ n + 1 \in 1..Len(q)
    BY <1>1, <1>3, <1>5
  <2>2. q[n + 1] \in Entry /\ Sum(q, n + 1) \in Nat
    BY <2>1, EntryParts, SumEquations
  <2>3. h \in Seq(Entry) /\ Len(h) = 1 /\ h[1].tmr = q[n + 1].tmr /\ h[1].cnt = Sum(q, n + 1)
    BY <2>2 DEF Entry
  <2>4. /\ b \in Seq(Entry) /\ Len(b) = Len(q) - n - 1
        /\ \A j \in 1..Len(b) : b[j] = q[n + 1 + j]
    <3>1. \A j \in (n + 2)..Len(q) : q[j] \in Entry
      BY <2>1, <1>3, ElementOfSeq
    <3>2. n + 2 \in Int /\ Len(q) \in Int
      BY <2>1, <1>3
    <3>3. /\ b \in Seq(Entry)
          /\ Len(b) = IF n + 2 <= Len(q) THEN Len(q) - (n + 2) + 1 ELSE 0
          /\ \A j \in 1..(Len(q) - (n + 2) + 1) : b[j] = q[n + 2 + j - 1]
      BY <3>1, <3>2, SubSeqProperties
    <3> QED
      BY <3>2, <3>3, <2>1
  <2> HIDE DEF h, b
  <2>5. /\ r \in Seq(Entry) /\ Len(r) = Len(h) + Len(b)
        /\ \A j \in 1..(Len(h) + Len(b)) :
              r[j] = IF j <= Len(h) THEN h[j] ELSE b[j - Len(h)]
    BY <2>3, <2>4, <1>2, <1>5, ConcatProperties
  <2>6. Len(r) = Len(q) - n /\ r[1] = h[1]
    BY <2>1, <2>3, <2>4, <2>5, <1>3
  <2>7. ASSUME NEW j \in 2..Len(r) PROVE r[j] = q[n + j]
    <3>1. j \in 1..(Len(h) + Len(b)) /\ ~(j <= Len(h)) /\ j - Len(h) \in 1..Len(b)
          /\ n + 1 + (j - Len(h)) = n + j
      BY <2>1, <2>3, <2>4, <2>5, <1>3
    <3> QED
      BY <3>1, <2>4, <2>5
  <2>8. \A j \in 0..Len(r) : Sum(r, j) = IF j = 0 THEN 0 ELSE Sum(q, n + j)
    <3> DEFINE g == [j \in 0..Len(r) |-> IF j = 0 THEN 0 ELSE Sum(q, n + j)]
    <3>1. g[0] = 0
      BY <2>6, <1>1
    <3>2. ASSUME NEW j \in 1..Len(r) PROVE g[j] = g[j - 1] + r[j].cnt
      <4>1. CASE j = 1
        <5>1. g[j] = Sum(q, n + 1) /\ g[j - 1] = 0 /\ r[j].cnt = Sum(q, n + 1)
          BY <4>1, <2>3, <2>6
        <5> QED
          BY <5>1, <2>2
      <4>2. CASE j # 1
        <5>1. n + j \in 1..Len(q) /\ n + (j - 1) = n + j - 1
          BY <1>1, <1>3, <2>6
        <5>2. g[j] = Sum(q, n + j) /\ g[j - 1] = Sum(q, n + j - 1) /\ r[j] = q[n + j]
          BY <4>2, <5>1, <2>7
        <5>3. Sum(q, n + j) = Sum(q, n + j - 1) + q[n + j].cnt
          <6>1. PICK m \in 1..Len(q) : m = n + j
            BY <5>1
          <6>2. Sum(q, m) = Sum(q, m - 1) + q[m].cnt
            BY SumEquations
          <6> QED
            BY <6>1, <6>2, <2>1
        <5> HIDE DEF g
        <5> QED
          BY <5>2, <5>3
      <4> QED
        BY <4>1, <4>2
    <3>3. \A j \in 0..Len(r) : Sum(r, j) = g[j]
      <4> HIDE DEF g
      <4> QED
        BY <3>1, <3>2, <2>5, SumIs
    <3> QED
      BY <3>3
  <2>9. ASSUME NEW j \in 1..Len(r) PROVE r[j].tmr = q[n + j].tmr /\ Sum(r, j) = Sum(q, n + j)
    <3>1. Sum(r, j) = Sum(q, n + j)
      BY <2>8
    <3>2. r[j].tmr = q[n + j].tmr
      BY <2>3, <2>6, <2>7
    <3> QED
      BY <3>1, <3>2
  <2> QED
    BY <2>5, <2>6, <2>9, <1>1 DEF r
<1> QED
  BY <1>4, <1>5

-----------------------------------------------------------------------------
(* A list shows what it was asked for: the entries are the timers that have  *)
(* a due time, each once, and their sums are the due times.                  *)

Shows(q, D) ==
    /\ q \in Seq(Entry)
    /\ \A i \in 1..Len(q) : Sum(q, i) = D[q[i].tmr]
    /\ \A i, j \in 1..Len(q) : q[i].tmr = q[j].tmr => i = j
    /\ \A t \in Timers : D[t] # None => \E i \in 1..Len(q) : q[i].tmr = t

Dues == [Timers -> Nat \cup {None}]

\* What Shows says in terms of Places.
LEMMA ShowsPlaces ==
    ASSUME NEW q, NEW D \in Dues, Shows(q, D), NEW t \in Timers
    PROVE  /\ D[t] = None <=> Places(t, q) = {}
           /\ \A i \in Places(t, q) : Sum(q, i) = D[t]
           /\ \A i, j \in Places(t, q) : i = j
<1>1. \A i \in 1..Len(q) : Sum(q, i) \in Nat
  <2>1. q \in Seq(Entry)
    BY DEF Shows
  <2> QED
    BY <2>1, SumEquations
<1>2. \A i \in Places(t, q) : i \in 1..Len(q) /\ q[i].tmr = t /\ Sum(q, i) = D[t]
  BY DEF Places, Shows
<1>3. \A i \in Places(t, q) : D[t] # None
  BY <1>1, <1>2, TimerAssumption
<1>4. D[t] # None => Places(t, q) # {}
  BY DEF Places, Shows
<1>5. \A i, j \in Places(t, q) : i = j
  BY <1>2 DEF Shows
<1> QED
  BY <1>2, <1>3, <1>4, <1>5

\* A timer that is not armed is queued for the time asked for.
LEMMA StartShows ==
    ASSUME NEW q, NEW D \in Dues, Shows(q, D), NEW t \in Timers, D[t] = None,
           NEW e \in Nat
    PROVE  Shows(Start(q, t, e), [D EXCEPT ![t] = e])
<1>0. PICK i : i = Position(q, e)
  OBVIOUS
<1>00. PICK r : r = Start(q, t, e)
  OBVIOUS
<1>1. q \in Seq(Entry)
  BY DEF Shows
<1>2. /\ i \in 1..(Len(q) + 1)
      /\ r \in Seq(Entry)
      /\ Len(r) = Len(q) + 1
      /\ r[i].tmr = t /\ Sum(r, i) = e
      /\ \A j \in 1..(i - 1) : r[j].tmr = q[j].tmr /\ Sum(r, j) = Sum(q, j)
      /\ \A j \in (i + 1)..Len(r) : r[j].tmr = q[j - 1].tmr /\ Sum(r, j) = Sum(q, j - 1)
  BY <1>0, <1>00, <1>1, StartIs
<1>3. Len(q) \in Nat
  BY <1>1
<1>4. \A j \in 1..Len(q) : q[j].tmr # t /\ q[j].tmr \in Timers
  <2> TAKE j \in 1..Len(q)
  <2>1. Sum(q, j) \in Nat /\ q[j].tmr \in Timers
    BY <1>1, SumEquations, EntryParts
  <2> QED
    BY <2>1, TimerAssumption DEF Shows
<1>5. \A j \in 1..Len(r) :
        \/ j < i /\ j \in 1..Len(q) /\ j \in 1..(i - 1)
        \/ j = i
        \/ j > i /\ j - 1 \in 1..Len(q) /\ j \in (i + 1)..Len(r)
  BY <1>2, <1>3
<1> DEFINE E == [D EXCEPT ![t] = e]
<1>6. ASSUME NEW j \in 1..Len(r) PROVE Sum(r, j) = E[r[j].tmr]
  <2>1. CASE j = i
    BY <2>1, <1>2 DEF Dues
  <2>2. CASE j < i
    <3>1. r[j].tmr = q[j].tmr /\ Sum(r, j) = Sum(q, j) /\ j \in 1..Len(q)
      BY <2>2, <1>2, <1>5
    <3> QED
      BY <3>1, <1>4 DEF Shows, Dues
  <2>3. CASE j > i
    <3>1. r[j].tmr = q[j - 1].tmr /\ Sum(r, j) = Sum(q, j - 1) /\ j - 1 \in 1..Len(q)
      BY <2>3, <1>2, <1>5
    <3> QED
      BY <3>1, <1>4 DEF Shows, Dues
  <2> QED
    BY <2>1, <2>2, <2>3, <1>5
<1>7. ASSUME NEW j \in 1..Len(r), NEW k \in 1..Len(r), r[j].tmr = r[k].tmr PROVE j = k
  <2> DEFINE F(x) == IF x < i THEN x ELSE x - 1
  <2>1. \A x \in 1..Len(r) : x # i => F(x) \in 1..Len(q) /\ r[x].tmr = q[F(x)].tmr
    BY <1>2, <1>5
  <2>2. j = i <=> k = i
    BY <2>1, <1>2, <1>4, <1>7
  <2>3. j # i => F(j) = F(k)
    <3> HIDE DEF F
    <3> QED
      BY <2>1, <2>2, <1>7 DEF Shows
  <2> QED
    BY <2>2, <2>3, <1>2, <1>3, <1>5
<1>8. ASSUME NEW u \in Timers, E[u] # None PROVE \E j \in 1..Len(r) : r[j].tmr = u
  <2>1. CASE u = t
    <3>1. i \in 1..Len(r)
      BY <1>2, <1>3
    <3> QED
      BY <3>1, <2>1, <1>2
  <2>2. CASE u # t
    <3>1. PICK k \in 1..Len(q) : q[k].tmr = u
      BY <2>2, <1>8 DEF Shows, Dues
    <3>2. CASE k < i
      <4>1. k \in 1..Len(r) /\ k \in 1..(i - 1)
        BY <3>2, <1>2, <1>3
      <4>2. r[k].tmr = u
        BY <3>1, <4>1, <1>2
      <4> QED
        BY <4>1, <4>2
    <3>3. CASE k >= i
      <4>1. k + 1 \in 1..Len(r) /\ k + 1 \in (i + 1)..Len(r) /\ k + 1 - 1 = k
        BY <3>3, <1>2, <1>3
      <4>2. r[k + 1].tmr = u
        BY <4>1, <3>1, <1>2
      <4> QED
        BY <4>1, <4>2
    <3> QED
      BY <3>2, <3>3, <1>2
  <2> QED
    BY <2>1, <2>2
<1> QED
  BY <1>2, <1>6, <1>7, <1>8, <1>00 DEF Shows

\* A timer that is armed is taken off.
LEMMA StopShows ==
    ASSUME NEW q, NEW D \in Dues, Shows(q, D), NEW t \in Timers, D[t] # None
    PROVE  Shows(Stop(q, t), [D EXCEPT ![t] = None])
<1>00. PICK r : r = Stop(q, t)
  OBVIOUS
<1>1. q \in Seq(Entry) /\ Places(t, q) # {}
  BY ShowsPlaces DEF Shows
<1>2. PICK i \in Places(t, q) :
      /\ r \in Seq(Entry)
      /\ Len(r) = Len(q) - 1
      /\ \A j \in 1..(i - 1) : r[j].tmr = q[j].tmr /\ Sum(r, j) = Sum(q, j)
      /\ \A j \in i..Len(r) : r[j].tmr = q[j + 1].tmr /\ Sum(r, j) = Sum(q, j + 1)
  BY <1>00, <1>1, StopIs
<1>3. Len(q) \in Nat /\ i \in 1..Len(q) /\ q[i].tmr = t
  BY <1>1 DEF Places
<1> DEFINE E == [D EXCEPT ![t] = None]
           F(j) == IF j < i THEN j ELSE j + 1
<1>4. \A j \in 1..Len(r) : /\ F(j) \in 1..Len(q) /\ F(j) # i
                           /\ r[j].tmr = q[F(j)].tmr /\ Sum(r, j) = Sum(q, F(j))
  BY <1>2, <1>3
<1>5. ASSUME NEW j \in 1..Len(r) PROVE q[F(j)].tmr # t /\ q[F(j)].tmr \in Timers
  <2> HIDE DEF F
  <2>1. F(j) \in 1..Len(q) /\ F(j) # i
    BY <1>4
  <2>2. q[F(j)].tmr # t
    BY <2>1, <1>3 DEF Shows
  <2> QED
    BY <2>1, <2>2, <1>1, EntryParts
<1>6. ASSUME NEW j \in 1..Len(r) PROVE Sum(r, j) = E[r[j].tmr]
  <2> HIDE DEF F
  <2>1. PICK k \in 1..Len(q) : k = F(j)
    BY <1>4
  <2>2. r[j].tmr = q[k].tmr /\ Sum(r, j) = Sum(q, k) /\ q[k].tmr # t /\ q[k].tmr \in Timers
    BY <2>1, <1>4, <1>5
  <2>3. Sum(q, k) = D[q[k].tmr]
    BY DEF Shows
  <2> QED
    BY <2>2, <2>3 DEF Dues
<1>7. ASSUME NEW j \in 1..Len(r), NEW k \in 1..Len(r), r[j].tmr = r[k].tmr PROVE j = k
  <2>1. F(j) = F(k)
    <3> HIDE DEF F
    <3> QED
      BY <1>4, <1>7 DEF Shows
  <2> QED
    BY <2>1, <1>2, <1>3
<1>8. ASSUME NEW u \in Timers, E[u] # None PROVE \E j \in 1..Len(r) : r[j].tmr = u
  <2>1. u # t /\ D[u] # None
    BY <1>8 DEF Dues
  <2>2. PICK k \in 1..Len(q) : q[k].tmr = u
    BY <2>1 DEF Shows
  <2>3. k # i
    BY <2>1, <2>2, <1>3
  <2>4. CASE k < i
    <3>1. k \in 1..Len(r) /\ r[k].tmr = u
      BY <2>2, <2>4, <1>2, <1>3
    <3> QED
      BY <3>1
  <2>5. CASE k > i
    <3>1. k - 1 \in 1..Len(r) /\ k - 1 \in i..Len(r) /\ k - 1 + 1 = k
      BY <2>5, <1>2, <1>3
    <3>2. r[k - 1].tmr = u
      BY <3>1, <2>2, <1>2
    <3> QED
      BY <3>1, <3>2
  <2> QED
    BY <2>3, <2>4, <2>5, <1>3
<1> QED
  BY <1>2, <1>6, <1>7, <1>8, <1>00 DEF Shows

\* What is due has gone.
LEMMA DropShows ==
    ASSUME NEW q, NEW D \in Dues, Shows(q, D), now \in Nat
    PROVE  Shows(Drop(q), [t \in Timers |->
                            IF D[t] # None /\ D[t] <= now THEN None ELSE D[t]])
<1>00. PICK r : r = Drop(q)
  OBVIOUS
<1>1. q \in Seq(Entry)
  BY DEF Shows
<1>2. PICK n \in 0..Len(q) :
      /\ \A i \in 1..Len(q) : Sum(q, i) <= now <=> i <= n
      /\ r \in Seq(Entry)
      /\ Len(r) = Len(q) - n
      /\ \A j \in 1..Len(r) : r[j].tmr = q[n + j].tmr /\ Sum(r, j) = Sum(q, n + j)
  BY <1>00, <1>1, DropIs
<1>3. Len(q) \in Nat
  BY <1>1
<1> DEFINE E == [t \in Timers |-> IF D[t] # None /\ D[t] <= now THEN None ELSE D[t]]
<1>4. \A j \in 1..Len(r) : n + j \in 1..Len(q) /\ ~(n + j <= n)
  BY <1>2, <1>3
<1>5. ASSUME NEW j \in 1..Len(r) PROVE Sum(r, j) = E[r[j].tmr]
  <2>0. PICK k \in 1..Len(q) : k = n + j /\ ~(k <= n)
    BY <1>4
  <2>1. q[k].tmr \in Timers /\ r[j].tmr = q[k].tmr /\ Sum(r, j) = Sum(q, k)
    BY <2>0, <1>1, <1>2, EntryParts
  <2>2. ~(Sum(q, k) <= now) /\ Sum(q, k) = D[q[k].tmr]
    BY <2>0, <1>2 DEF Shows
  <2>3. PICK u \in Timers : u = r[j].tmr /\ Sum(r, j) = D[u] /\ ~(D[u] <= now)
    BY <2>1, <2>2
  <2>4. E[u] = D[u]
    BY <2>3
  <2> QED
    <3> HIDE DEF E
    <3> QED
      BY <2>3, <2>4
<1>6. ASSUME NEW j \in 1..Len(r), NEW k \in 1..Len(r), r[j].tmr = r[k].tmr PROVE j = k
  <2>1. n + j = n + k
    <3>1. PICK a \in 1..Len(q), b \in 1..Len(q) : a = n + j /\ b = n + k
      BY <1>4
    <3>2. q[a].tmr = q[b].tmr
      BY <3>1, <1>2, <1>6
    <3> QED
      BY <3>1, <3>2 DEF Shows
  <2> QED
    BY <2>1, <1>2
<1>7. ASSUME NEW t \in Timers, E[t] # None PROVE \E j \in 1..Len(r) : r[j].tmr = t
  <2>1. D[t] # None /\ ~(D[t] <= now)
    BY <1>7
  <2>2. PICK k \in 1..Len(q) : q[k].tmr = t
    BY <2>1 DEF Shows
  <2>3. ~(k <= n)
    BY <2>1, <2>2, <1>2 DEF Shows
  <2>4. k - n \in 1..Len(r) /\ n + (k - n) = k
    BY <2>3, <1>2, <1>3
  <2>5. r[k - n].tmr = t
    BY <2>2, <2>4, <1>2
  <2> QED
    BY <2>4, <2>5
<1> HIDE DEF E
<1>8. Shows(r, E)
  BY <1>2, <1>5, <1>6, <1>7, Zenon DEF Shows
<1> QED
  BY <1>8, <1>00 DEF E

\* timer_strat_sched(): what is due has gone, but for the ticker, which is due
\* again an interval later.
LEMMA ServeShows ==
    ASSUME NEW q, NEW D \in Dues, Shows(q, D), now \in Nat
    PROVE  Shows(Serve(q), [t \in Timers |->
                             IF D[t] # None /\ D[t] <= now
                             THEN IF t = Ticker THEN now + Interval ELSE None
                             ELSE D[t]])
<1> DEFINE E == [t \in Timers |-> IF D[t] # None /\ D[t] <= now THEN None ELSE D[t]]
           E2 == [t \in Timers |-> IF D[t] # None /\ D[t] <= now
                                   THEN IF t = Ticker THEN now + Interval ELSE None
                                   ELSE D[t]]
<1>1. Shows(Drop(q), E) /\ E \in Dues
  BY DropShows DEF Dues
<1>2. Ticker \in Timers /\ now + Interval \in Nat
  BY TimerAssumption DEF Timers
<1>3. (\E i \in Places(Ticker, q) : Sum(q, i) <= now)
        <=> (D[Ticker] # None /\ D[Ticker] <= now)
  BY <1>2, ShowsPlaces
<1>4. CASE D[Ticker] # None /\ D[Ticker] <= now
  <2>1. Serve(q) = Start(Drop(q), Ticker, now + Interval)
    BY <1>3, <1>4 DEF Serve
  <2>2. E[Ticker] = None
    BY <1>2, <1>4
  <2>3. E2 = [E EXCEPT ![Ticker] = now + Interval]
    BY <1>2, <1>4
  <2> HIDE DEF E, E2
  <2>4. Shows(Start(Drop(q), Ticker, now + Interval), [E EXCEPT ![Ticker] = now + Interval])
    BY <1>1, <1>2, <2>2, StartShows
  <2>5. Shows(Serve(q), E2)
    BY <2>1, <2>3, <2>4
  <2> QED
    BY <2>5 DEF E2
<1>5. CASE ~(D[Ticker] # None /\ D[Ticker] <= now)
  <2>1. Serve(q) = Drop(q)
    BY <1>3, <1>5 DEF Serve
  <2>2. E2 = E
    BY <1>2, <1>5
  <2>3. Shows(Serve(q), E2)
    <3> HIDE DEF E, E2
    <3> QED
      BY <1>1, <2>1, <2>2
  <2> QED
    BY <2>3
<1> QED
  BY <1>4, <1>5

-----------------------------------------------------------------------------
(* The invariant.  The lists show the due times; the flags follow them; and  *)
(* the time that is left of a wait never runs ahead of the clock.            *)

\* Types, but for the lists.
Typed ==
    /\ now \in 0..MaxTime
    /\ started \in [Sleepers -> BOOLEAN]
    /\ shared \subseteq CPUs
    /\ owner \in [Sleepers -> CPUs \cup {None}]
    /\ posted \in [CPUs -> BOOLEAN]
    /\ tpc \in [Sleepers -> {"idle", "freed"} \cup WaitPcs]
    /\ waiting \in [Sleepers -> BOOLEAN]
    /\ linked \in [Sleepers -> BOOLEAN]
    /\ cond \in [Sleepers -> BOOLEAN]
    /\ rem \in [Sleepers -> Nat]
    /\ since \in [Sleepers -> Nat]
    /\ diff \in [Sleepers -> Nat]
    /\ begun \in [Sleepers -> Nat]
    /\ finished \subseteq Mortal
    /\ due \in [CPUs -> Dues]
    /\ list \in [CPUs -> Seq(Entry)]
    /\ astray \in BOOLEAN

\* Every list shows what its CPU was asked for.
ListsShow == \A c \in CPUs : Shows(list[c], due[c])

\* The flag of a timer that has been initialised is set.
Trusted(s) == s \notin Raw /\ started[s]

\* A due time, the flag and the CPU of a sleeper's timer, and the ticker's bit.
FlagsTell ==
    /\ \A s \in Sleepers, c \in CPUs : due[c][s] # None <=> Trusted(s) /\ owner[s] = c
    /\ \A s \in Sleepers : Trusted(s) => owner[s] \in CPUs
    /\ \A c \in CPUs : due[c][Ticker] # None <=> c \in shared

\* Points at which the flag of a timer may be set, rightly or by chance.
MayBeStarted == {"raw"} \cup InWait

\* A flag that is set belongs to a call that has not returned, and during the
\* call the timer is linked to its thread.
Held(s) ==
    /\ started[s] => tpc[s] \in MayBeStarted
    /\ tpc[s] \in {"raw", "inited"} \cup InWait => linked[s]

StartedInWait == \A s \in Sleepers : Held(s)

\* How far a wait has come: the time that has gone from its timeout has passed.
Paid(s) ==
    /\ tpc[s] \in WaitPcs =>
        rem[s] \in 1..Timeout[s] /\ Timeout[s] <= MaxTime
    /\ tpc[s] = "check" => now - begun[s] >= Timeout[s] - rem[s]
    /\ tpc[s] \in {"raw", "inited", "armed", "asleep", "back"} =>
        since[s] <= now /\ since[s] - begun[s] >= Timeout[s] - rem[s]
    /\ tpc[s] = "close" => now - begun[s] >= Timeout[s] - rem[s] + diff[s]

WaitsPaid == \A s \in Sleepers : Paid(s)

IInv == Typed /\ ListsShow /\ FlagsTell /\ StartedInWait /\ WaitsPaid

\* The types of what the lists and flags are made of.
ListTyped ==
    /\ started \in [Sleepers -> BOOLEAN]
    /\ shared \subseteq CPUs
    /\ owner \in [Sleepers -> CPUs \cup {None}]
    /\ due \in [CPUs -> Dues]
    /\ list \in [CPUs -> Seq(Entry)]
    /\ astray \in BOOLEAN

ListInv == ListTyped /\ ListsShow /\ FlagsTell

\* Nothing happens to the lists.
LEMMA ListQuiet ==
    ASSUME ListInv, UNCHANGED listVars, Raw' = Raw
    PROVE  ListInv'
BY DEF ListInv, ListTyped, ListsShow, FlagsTell, Trusted, listVars

\* A timer is on the list its due time says.
LEMMA DueIsListed ==
    ASSUME ListInv, NEW c \in CPUs, NEW t \in Timers
    PROVE  due[c][t] # None <=> Places(t, list[c]) # {}
<1>1. due[c] \in Dues /\ Shows(list[c], due[c])
  BY DEF ListInv, ListTyped, ListsShow
<1> QED
  BY <1>1, ShowsPlaces

\* Only the flag and the CPU of one timer change, which is on no list before
\* and is not trusted to be on one afterwards.
LEMMA FlagKeeps ==
    ASSUME ListInv, NEW s \in Sleepers, ~Trusted(s), ~Trusted(s)',
           list' = list, due' = due, shared' = shared, astray' \in BOOLEAN,
           started' \in [Sleepers -> BOOLEAN], owner' \in [Sleepers -> CPUs \cup {None}],
           \A r \in Sleepers \ {s} :
                started'[r] = started[r] /\ owner'[r] = owner[r] /\ (r \in Raw' <=> r \in Raw)
    PROVE  ListInv'
<1>1. ListTyped' /\ ListsShow'
  BY DEF ListInv, ListTyped, ListsShow
<1>2. \A r \in Sleepers \ {s} : Trusted(r)' <=> Trusted(r)
  BY DEF Trusted
<1>3. FlagsTell'
  BY <1>2 DEF ListInv, FlagsTell
<1> QED
  BY <1>1, <1>3 DEF ListInv

\* A sleeper and the ticker are timers, and differ.
LEMMA TimersAre ==
    /\ Ticker \in Timers /\ Ticker \notin Sleepers
    /\ \A s \in Sleepers : s \in Timers /\ s # Ticker
BY TimerAssumption DEF Timers

\* Queueing a timer that is not queued on c.
LEMMA QueueOn ==
    ASSUME ListInv, NEW c \in CPUs, NEW t \in Timers, due[c][t] = None, NEW e \in Nat,
           list' = [list EXCEPT ![c] = Start(@, t, e)],
           due' = [due EXCEPT ![c][t] = e]
    PROVE  ListsShow' /\ due' \in [CPUs -> Dues] /\ list' \in [CPUs -> Seq(Entry)]
<1>1. Shows(Start(list[c], t, e), [due[c] EXCEPT ![t] = e])
  <2>1. due[c] \in Dues /\ Shows(list[c], due[c])
    BY DEF ListInv, ListTyped, ListsShow
  <2> QED
    BY <2>1, StartShows
<1>2. due[c] \in Dues /\ [due[c] EXCEPT ![t] = e] \in Dues
  BY DEF ListInv, ListTyped, Dues
<1>3. /\ due' = [due EXCEPT ![c] = [due[c] EXCEPT ![t] = e]]
      /\ list' = [list EXCEPT ![c] = Start(list[c], t, e)]
  OBVIOUS
<1>4. \A d \in CPUs : Shows(list'[d], due'[d])
  BY <1>1, <1>3 DEF ListInv, ListTyped, ListsShow
<1>5. list' \in [CPUs -> Seq(Entry)]
  BY <1>1, <1>3 DEF ListInv, ListTyped, Shows
<1> QED
  BY <1>2, <1>3, <1>4, <1>5 DEF ListInv, ListTyped, ListsShow

\* Taking a timer that is queued on c off.
LEMMA UnqueueOn ==
    ASSUME ListInv, NEW c \in CPUs, NEW t \in Timers, due[c][t] # None,
           list' = [list EXCEPT ![c] = Stop(@, t)],
           due' = [due EXCEPT ![c][t] = None]
    PROVE  ListsShow' /\ due' \in [CPUs -> Dues] /\ list' \in [CPUs -> Seq(Entry)]
<1>1. Shows(Stop(list[c], t), [due[c] EXCEPT ![t] = None])
  <2>1. due[c] \in Dues /\ Shows(list[c], due[c])
    BY DEF ListInv, ListTyped, ListsShow
  <2> QED
    BY <2>1, StopShows
<1>2. due[c] \in Dues /\ [due[c] EXCEPT ![t] = None] \in Dues
  BY DEF ListInv, ListTyped, Dues
<1>3. /\ due' = [due EXCEPT ![c] = [due[c] EXCEPT ![t] = None]]
      /\ list' = [list EXCEPT ![c] = Stop(list[c], t)]
  OBVIOUS
<1>4. \A d \in CPUs : Shows(list'[d], due'[d])
  BY <1>1, <1>3 DEF ListInv, ListTyped, ListsShow
<1>5. list' \in [CPUs -> Seq(Entry)]
  BY <1>1, <1>3 DEF ListInv, ListTyped, Shows
<1> QED
  BY <1>2, <1>3, <1>4, <1>5 DEF ListInv, ListTyped, ListsShow

\* sys_timer_stop() of an initialised timer keeps the lists and the flags in
\* step, leaves the timer stopped, and does not go astray.
LEMMA StopKeeps ==
    ASSUME ListInv, NEW s \in Sleepers, NEW c \in CPUs, SysTimerStop(s, c),
           s \notin Raw, Raw' = Raw
    PROVE  /\ ListInv'
           /\ astray' = astray
           /\ started' = [started EXCEPT ![s] = FALSE]
<1>1. CASE started[s]
  <2>1. PICK o \in CPUs : o = owner[s]
    BY <1>1 DEF ListInv, FlagsTell, Trusted
  <2>3. s \in Timers /\ due[o][s] # None
    BY <1>1, <2>1, TimersAre DEF ListInv, FlagsTell, Trusted
  <2>8. OnOwnersList(s)
    BY <2>1, <2>3, DueIsListed DEF OnOwnersList
  <2>2. /\ list' = [list EXCEPT ![o] = Stop(@, s)]
        /\ due' = [due EXCEPT ![o][s] = None]
        /\ started' = [started EXCEPT ![s] = FALSE]
        /\ owner' = [owner EXCEPT ![s] = None]
        /\ shared' = shared /\ astray' = astray
    BY <1>1, <2>1, <2>8 DEF SysTimerStop
  <2>4. ListsShow' /\ due' \in [CPUs -> Dues] /\ list' \in [CPUs -> Seq(Entry)]
    BY <2>2, <2>3, UnqueueOn
  <2>5. ListTyped'
    BY <2>2, <2>4 DEF ListInv, ListTyped
  <2>6. \A d \in CPUs, u \in Timers :
            due'[d][u] = IF d = o /\ u = s THEN None ELSE due[d][u]
    BY <2>2, <2>3 DEF ListInv, ListTyped, Dues
  <2>7. FlagsTell'
    <3>1. \A r \in Sleepers, d \in CPUs : due'[d][r] # None <=> Trusted(r)' /\ owner'[r] = d
      <4> TAKE r \in Sleepers, d \in CPUs
      <4>1. CASE r = s
        BY <4>1, <2>1, <2>2, <2>3, <2>6 DEF ListInv, ListTyped, FlagsTell, Trusted
      <4>2. CASE r # s
        <5>1. started'[r] = started[r] /\ owner'[r] = owner[r] /\ due'[d][r] = due[d][r]
          BY <4>2, <2>2, <2>6, TimersAre DEF ListInv, ListTyped
        <5> QED
          BY <5>1 DEF ListInv, FlagsTell, Trusted
      <4> QED
        BY <4>1, <4>2
    <3>2. \A r \in Sleepers : Trusted(r)' => owner'[r] \in CPUs
      BY <2>2 DEF ListInv, ListTyped, FlagsTell, Trusted
    <3>3. \A d \in CPUs : due'[d][Ticker] # None <=> d \in shared'
      BY <2>2, <2>6, TimersAre DEF ListInv, FlagsTell
    <3> QED
      BY <3>1, <3>2, <3>3 DEF FlagsTell
  <2> QED
    BY <2>2, <2>4, <2>5, <2>7 DEF ListInv
<1>2. CASE ~started[s]
  <2>1. UNCHANGED listVars
    BY <1>2 DEF SysTimerStop
  <2> QED
    BY <2>1, <1>2, ListQuiet DEF listVars, ListInv, ListTyped
<1> QED
  BY <1>1, <1>2

\* sys_timer_close() of a timer that has not been initialised: the lists, in so
\* far as the kernel goes on, are left alone.
LEMMA CloseRawKeeps ==
    ASSUME ListInv, NEW s \in Sleepers, NEW c \in CPUs, SysTimerClose(s, c),
           s \in Raw, Raw' = Raw \ {s}
    PROVE  /\ ListInv'
           /\ started' = [started EXCEPT ![s] = FALSE]
           /\ due' = due
<1>1. ~OnOwnersList(s)
  <2>1. \A d \in CPUs : due[d][s] = None
    BY DEF ListInv, FlagsTell, Trusted
  <2> QED
    BY <2>1, DueIsListed, TimersAre DEF OnOwnersList
<1>2. /\ started' = [started EXCEPT ![s] = FALSE]
      /\ list' = list /\ due' = due /\ shared' = shared
      /\ astray' \in BOOLEAN
      /\ owner' \in [Sleepers -> CPUs \cup {None}]
      /\ \A r \in Sleepers \ {s} : owner'[r] = owner[r]
  <2>1. CASE SysTimerStop(s, c) /\ started[s]
    BY <1>1, <2>1 DEF SysTimerStop, ListInv, ListTyped
  <2>2. CASE SysTimerStop(s, c) /\ ~started[s]
    BY <2>2 DEF SysTimerStop, ListInv, ListTyped, listVars
  <2>3. CASE ~SysTimerStop(s, c)
    BY <2>3 DEF SysTimerClose, ListInv, ListTyped
  <2> QED
    BY <2>1, <2>2, <2>3
<1>3. started' \in [Sleepers -> BOOLEAN] /\ ~started'[s]
      /\ \A r \in Sleepers \ {s} : started'[r] = started[r]
  BY <1>2 DEF ListInv, ListTyped
<1>4. ~Trusted(s) /\ ~Trusted(s)'
  BY <1>3 DEF Trusted
<1>5. ListInv'
  BY <1>2, <1>3, <1>4, FlagKeeps
<1> QED
  BY <1>2, <1>5

\* thread_wait_add() and sys_timer_init() of sched_wait_timeout().
LEMMA LinkKeeps ==
    ASSUME IInv, ListInv, NEW s \in Sleepers, Link(s) \/ SysTimerInit(s)
    PROVE  ListInv'
<1>1. tpc \in [Sleepers -> {"idle", "freed"} \cup WaitPcs]
  BY DEF IInv, Typed
<1>2. /\ list' = list /\ due' = due /\ shared' = shared /\ astray' = astray
      /\ started' \in [Sleepers -> BOOLEAN] /\ owner' \in [Sleepers -> CPUs \cup {None}]
      /\ \A r \in Sleepers \ {s} : started'[r] = started[r] /\ owner'[r] = owner[r]
  <2>1. PICK b \in BOOLEAN, o \in CPUs \cup {None} :
            started' = [started EXCEPT ![s] = b] /\ owner' = [owner EXCEPT ![s] = o]
    BY Zenon DEF Link, SysTimerInit
  <2>2. list' = list /\ due' = due /\ shared' = shared /\ astray' = astray
    BY DEF Link, SysTimerInit
  <2> QED
    BY <2>1, <2>2 DEF ListInv, ListTyped
<1>3. \A r \in Sleepers \ {s} : r \in Raw' <=> r \in Raw
  BY <1>1 DEF Link, SysTimerInit, Goto, Raw
<1>4. ~Trusted(s) /\ ~Trusted(s)'
  <2>1. CASE Link(s)
    <3>1. ~started[s] /\ tpc'[s] = "raw"
      BY <1>1, <2>1 DEF Link, Goto, IInv, StartedInWait, Held, MayBeStarted, InWait
    <3> QED
      BY <3>1 DEF Trusted, Raw
  <2>2. CASE SysTimerInit(s)
    BY <2>2 DEF SysTimerInit, Trusted, Raw, ListInv, ListTyped
  <2> QED
    BY <2>1, <2>2
<1> QED
  BY <1>2, <1>3, <1>4, FlagKeeps DEF ListInv, ListTyped

\* timer_strat_start() of sched_wait_timeout().
LEMMA ArmKeeps ==
    ASSUME IInv, ListInv, NEW s \in Sleepers, NEW c \in CPUs, Arm(s, c)
    PROVE  ListInv'
<1>1. ~started[s] /\ s \in Timers /\ now + rem[s] \in Nat
  <2>1. ~started[s]
    BY DEF IInv, StartedInWait, Held, MayBeStarted, InWait, Arm
  <2>2. now \in Nat /\ rem[s] \in Nat
    BY TimerAssumption DEF IInv, Typed
  <2> QED
    BY <2>1, <2>2, TimersAre
<1>2. due[c][s] = None
  BY <1>1 DEF ListInv, FlagsTell, Trusted
<1>9. s \notin Raw /\ Raw' = Raw
  BY DEF Arm, Goto, Raw, IInv, Typed
<1>3. /\ list' = [list EXCEPT ![c] = Start(@, s, now + rem[s])]
      /\ due' = [due EXCEPT ![c][s] = now + rem[s]]
      /\ started' = [started EXCEPT ![s] = TRUE]
      /\ owner' = [owner EXCEPT ![s] = c]
      /\ shared' = shared /\ astray' = astray
  BY DEF Arm
<1>4. PICK e \in Nat : e = now + rem[s]
  BY <1>1
<1>5. ListsShow' /\ due' \in [CPUs -> Dues] /\ list' \in [CPUs -> Seq(Entry)]
  BY <1>1, <1>2, <1>3, <1>4, QueueOn
<1>6. ListTyped'
  BY <1>3, <1>5 DEF ListInv, ListTyped
<1>7. \A d \in CPUs, u \in Timers : due'[d][u] = IF d = c /\ u = s THEN e ELSE due[d][u]
  BY <1>1, <1>3, <1>4 DEF ListInv, ListTyped, Dues
<1>8. FlagsTell'
  <2>1. ASSUME NEW r \in Sleepers, NEW d \in CPUs
        PROVE  due'[d][r] # None <=> Trusted(r)' /\ owner'[r] = d
    <3>1. CASE r = s
      <4>1. Trusted(r)' /\ owner'[r] = c
        BY <3>1, <1>3, <1>9 DEF ListInv, ListTyped, Trusted
      <4>2. due[d][r] = None /\ e # None
        BY <3>1, <1>1, TimerAssumption DEF ListInv, FlagsTell, Trusted
      <4> QED
        BY <3>1, <4>1, <4>2, <1>1, <1>7
    <3>2. CASE r # s
      <4>1. started'[r] = started[r] /\ owner'[r] = owner[r] /\ due'[d][r] = due[d][r]
        BY <3>2, <1>3, <1>7, TimersAre DEF ListInv, ListTyped
      <4> QED
        BY <4>1, <1>9 DEF ListInv, FlagsTell, Trusted
    <3> QED
      BY <3>1, <3>2
  <2>2. \A r \in Sleepers : Trusted(r)' => owner'[r] \in CPUs
    BY <1>3, <1>9 DEF ListInv, ListTyped, FlagsTell, Trusted
  <2>3. \A d \in CPUs : due'[d][Ticker] # None <=> d \in shared'
    BY <1>3, <1>7, TimersAre DEF ListInv, FlagsTell
  <2> QED
    BY <2>1, <2>2, <2>3 DEF FlagsTell
<1> QED
  BY <1>5, <1>6, <1>8 DEF ListInv

\* sched_ticker_add() and sched_ticker_del().
LEMMA TickerKeeps ==
    ASSUME IInv, ListInv, NEW c \in CPUs, TickerAdd(c) \/ TickerDel(c)
    PROVE  ListInv'
<1>1. Ticker \in Timers /\ now + Interval \in Nat
  BY TimersAre, TimerAssumption DEF IInv, Typed
<1>2. PICK x \in Nat \cup {None} :
        /\ due' = [due EXCEPT ![c][Ticker] = x]
        /\ started' = started /\ owner' = owner /\ astray' = astray
        /\ x # None <=> c \in shared'
        /\ shared' \subseteq CPUs
        /\ \A d \in CPUs : d # c => (d \in shared' <=> d \in shared)
        /\ ListsShow' /\ due' \in [CPUs -> Dues] /\ list' \in [CPUs -> Seq(Entry)]
  <2>1. CASE TickerAdd(c)
    <3>1. due[c][Ticker] = None
      BY <2>1 DEF TickerAdd, ListInv, FlagsTell
    <3>2. PICK e \in Nat : e = now + Interval
      BY <1>1
    <3>3. /\ list' = [list EXCEPT ![c] = Start(@, Ticker, e)]
          /\ due' = [due EXCEPT ![c][Ticker] = e]
          /\ shared' = shared \cup {c} /\ started' = started /\ owner' = owner
          /\ astray' = astray
      BY <2>1, <3>2 DEF TickerAdd
    <3>4. ListsShow' /\ due' \in [CPUs -> Dues] /\ list' \in [CPUs -> Seq(Entry)]
      BY <1>1, <3>1, <3>3, QueueOn
    <3> QED
      BY <3>3, <3>4, TimerAssumption DEF ListInv, ListTyped
  <2>2. CASE TickerDel(c)
    <3>1. due[c][Ticker] # None
      BY <2>2 DEF TickerDel, ListInv, FlagsTell
    <3>2. /\ list' = [list EXCEPT ![c] = Stop(@, Ticker)]
          /\ due' = [due EXCEPT ![c][Ticker] = None]
          /\ shared' = shared \ {c} /\ started' = started /\ owner' = owner
          /\ astray' = astray
      BY <2>2 DEF TickerDel
    <3>3. ListsShow' /\ due' \in [CPUs -> Dues] /\ list' \in [CPUs -> Seq(Entry)]
      BY <1>1, <3>1, <3>2, UnqueueOn
    <3> QED
      BY <3>2, <3>3 DEF ListInv, ListTyped
  <2> QED
    BY <2>1, <2>2
<1>3. \A d \in CPUs, u \in Timers : due'[d][u] = IF d = c /\ u = Ticker THEN x ELSE due[d][u]
  BY <1>1, <1>2 DEF ListInv, ListTyped, Dues
<1>4. ListTyped'
  BY <1>2 DEF ListInv, ListTyped
<1>6. Raw' = Raw
  BY DEF TickerAdd, TickerDel, waitVars, Raw
<1>5. FlagsTell'
  BY <1>2, <1>3, <1>6, TimersAre DEF ListInv, FlagsTell, Trusted
<1> QED
  BY <1>2, <1>4, <1>5 DEF ListInv

\* The timers clock_handler() fires on c.
Fired(c) == {s \in Sleepers : due[c][s] # None /\ due[c][s] <= now}

\* clock_handler(): what leaves the list is what is due, the ticker is queued
\* again, and the flags follow.
LEMMA HandlerKeeps ==
    ASSUME IInv, ListInv, NEW c \in CPUs, Handler(c)
    PROVE  /\ ListInv'
           /\ started' = [s \in Sleepers |-> started[s] /\ s \notin Fired(c)]
           /\ waiting' = [s \in Sleepers |->
                            waiting[s] /\ ~(s \in Fired(c) \ finished /\ waiting[s])]
           /\ tpc' = [s \in Sleepers |->
                        IF s \in Fired(c) \ finished /\ waiting[s] /\ tpc[s] = "asleep"
                        THEN "back" ELSE tpc[s]]
           /\ due' = [due EXCEPT ![c] = [t \in Timers |->
                        IF due[c][t] # None /\ due[c][t] <= now
                        THEN IF t = Ticker THEN now + Interval ELSE None
                        ELSE due[c][t]]]
<1> DEFINE E == [t \in Timers |-> IF due[c][t] # None /\ due[c][t] <= now
                                  THEN IF t = Ticker THEN now + Interval ELSE None
                                  ELSE due[c][t]]
           F == {s \in Sleepers : Places(s, list[c]) # {} /\ Places(s, list'[c]) = {}}
<1>1. due[c] \in Dues /\ Shows(list[c], due[c]) /\ now \in Nat
  BY TimerAssumption DEF ListInv, ListTyped, ListsShow, IInv, Typed
<1>2. Shows(Serve(list[c]), E)
  BY <1>1, ServeShows
<1>3. E \in Dues
  BY <1>1, TimerAssumption DEF Dues
<1>4. list' = [list EXCEPT ![c] = Serve(list[c])] /\ shared' = shared /\ astray' = astray
  BY DEF Handler
<1>5. list'[c] = Serve(list[c]) /\ list' \in [CPUs -> Seq(Entry)]
  BY <1>2, <1>4 DEF ListInv, ListTyped, Shows
<1>6. F = Fired(c)
  <2>1. ASSUME NEW s \in Sleepers PROVE s \in F <=> s \in Fired(c)
    <3>1. due[c][s] = None <=> Places(s, list[c]) = {}
      BY <1>1, TimersAre, ShowsPlaces
    <3>2. E[s] = None <=> Places(s, list'[c]) = {}
      <4> HIDE DEF E
      <4> QED
        BY <1>2, <1>3, <1>5, TimersAre, ShowsPlaces
    <3>3. E[s] = IF due[c][s] # None /\ due[c][s] <= now THEN None ELSE due[c][s]
      BY TimersAre
    <3> QED
      BY <3>1, <3>2, <3>3 DEF Fired
  <2> QED
    BY <2>1 DEF Fired
<1>7. /\ started' = [s \in Sleepers |-> started[s] /\ s \notin F]
      /\ owner' = [s \in Sleepers |-> IF s \in F THEN None ELSE owner[s]]
      /\ Wakeup(F)
      /\ due' = [due EXCEPT ![c] = [t \in Timers |->
                    IF t \in F THEN None
                    ELSE IF t = Ticker /\ c \in shared /\ due[c][t] <= now
                    THEN now + Interval ELSE due[c][t]]]
  BY DEF Handler
<1> HIDE DEF F
<1>8. [t \in Timers |-> IF t \in F THEN None
                        ELSE IF t = Ticker /\ c \in shared /\ due[c][t] <= now
                        THEN now + Interval ELSE due[c][t]] = E
  <2>1. ASSUME NEW t \in Timers
        PROVE  (IF t \in F THEN None
                ELSE IF t = Ticker /\ c \in shared /\ due[c][t] <= now
                THEN now + Interval ELSE due[c][t]) = E[t]
    <3>1. CASE t = Ticker
      <4>1. t \notin F /\ (c \in shared <=> due[c][t] # None)
        BY <3>1, <1>6, TimersAre DEF Fired, ListInv, FlagsTell
      <4> QED
        BY <3>1, <4>1
    <3>2. CASE t # Ticker
      <4>1. t \in F <=> due[c][t] # None /\ due[c][t] <= now
        BY <3>2, <1>6 DEF Fired, Timers
      <4> QED
        BY <3>2, <4>1
    <3> QED
      BY <3>1, <3>2
  <2> QED
    BY <2>1
<1>9. due' = [due EXCEPT ![c] = E]
  BY <1>7, <1>8
<1> HIDE DEF E
<1>10. ListsShow'
  <2>1. \A d \in CPUs : Shows(list'[d], due'[d])
    BY <1>2, <1>4, <1>5, <1>9 DEF ListInv, ListTyped, ListsShow
  <2> QED
    BY <2>1 DEF ListsShow
<1>11. ListTyped'
  BY <1>3, <1>4, <1>5, <1>7, <1>9 DEF ListInv, ListTyped
<1>13. /\ waiting' = [s \in Sleepers |-> waiting[s] /\ ~(s \in F \ finished /\ waiting[s])]
       /\ tpc' = [s \in Sleepers |->
                    IF s \in F \ finished /\ waiting[s] /\ tpc[s] = "asleep"
                    THEN "back" ELSE tpc[s]]
  BY <1>7 DEF Wakeup
<1>14. Raw' = Raw
  BY <1>13 DEF Raw
<1>12. FlagsTell'
  <2>1. ASSUME NEW s \in Sleepers, NEW d \in CPUs
        PROVE  due'[d][s] # None <=> Trusted(s)' /\ owner'[s] = d
    <3>0. E[s] = IF s \in F THEN None ELSE due[c][s]
      BY <1>6, TimersAre DEF E, Fired
    <3>1. s \in F => Trusted(s) /\ owner[s] = c
      BY <1>6 DEF Fired, ListInv, FlagsTell
    <3>2. /\ Trusted(s)' <=> Trusted(s) /\ s \notin F
          /\ owner'[s] = IF s \in F THEN None ELSE owner[s]
      BY <1>7, <1>14 DEF Trusted
    <3>3. due'[d][s] = IF d = c THEN E[s] ELSE due[d][s]
      BY <1>9 DEF ListInv, ListTyped
    <3>4. due[d][s] # None <=> Trusted(s) /\ owner[s] = d
      BY DEF ListInv, FlagsTell
    <3> QED
      BY <3>0, <3>1, <3>2, <3>3, <3>4
  <2>2. \A s \in Sleepers : Trusted(s)' => owner'[s] \in CPUs
    BY <1>7, <1>14 DEF ListInv, FlagsTell, Trusted
  <2>3. ASSUME NEW d \in CPUs PROVE due'[d][Ticker] # None <=> d \in shared'
    <3>1. E[Ticker] # None <=> due[c][Ticker] # None
      BY <1>1, TimersAre, TimerAssumption DEF E, Dues
    <3>2. due'[d][Ticker] = IF d = c THEN E[Ticker] ELSE due[d][Ticker]
      BY <1>9 DEF ListInv, ListTyped
    <3> QED
      BY <3>1, <3>2, <1>4 DEF ListInv, FlagsTell
  <2> QED
    BY <2>1, <2>2, <2>3 DEF FlagsTell
<1> QED
  BY <1>6, <1>7, <1>9, <1>10, <1>11, <1>12, <1>13 DEF ListInv, E

\* The parts of Typed that are not about the lists.
WaitTyped ==
    /\ now \in 0..MaxTime
    /\ posted \in [CPUs -> BOOLEAN]
    /\ tpc \in [Sleepers -> {"idle", "freed"} \cup WaitPcs]
    /\ waiting \in [Sleepers -> BOOLEAN]
    /\ linked \in [Sleepers -> BOOLEAN]
    /\ cond \in [Sleepers -> BOOLEAN]
    /\ rem \in [Sleepers -> Nat]
    /\ since \in [Sleepers -> Nat]
    /\ diff \in [Sleepers -> Nat]
    /\ begun \in [Sleepers -> Nat]
    /\ finished \subseteq Mortal

WaitInv == WaitTyped /\ StartedInWait /\ WaitsPaid

LEMMA Parts == IInv => ListInv /\ WaitInv
BY DEF IInv, ListInv, WaitInv, Typed, ListTyped, WaitTyped

LEMMA PartsNext == ListInv' /\ WaitInv' => IInv'
BY DEF IInv, ListInv, WaitInv, Typed, ListTyped, WaitTyped

\* The numbers of a wait.
LEMMA Numbers ==
    ASSUME WaitInv, NEW s \in Sleepers
    PROVE  /\ now \in Nat /\ MaxTime \in Nat /\ Timeout[s] \in Nat \ {0}
           /\ begun[s] \in Nat /\ rem[s] \in Nat /\ diff[s] \in Nat /\ since[s] \in Nat
<1>1. MaxTime \in Nat /\ Timeout[s] \in Nat \ {0}
  BY TimerAssumption
<1> QED
  BY <1>1 DEF WaitInv, WaitTyped

\* A step of sleeper s that leaves the others' waits, their timers' flags and
\* the clock alone.
Alone(s) ==
    /\ now' = now
    /\ \A r \in Sleepers \ {s} :
        /\ tpc'[r] = tpc[r] /\ rem'[r] = rem[r] /\ since'[r] = since[r]
        /\ diff'[r] = diff[r] /\ begun'[r] = begun[r]
        /\ linked'[r] = linked[r] /\ (started'[r] => started[r])

LEMMA AloneKeeps ==
    ASSUME WaitInv, NEW s \in Sleepers, Alone(s), WaitTyped',
           Paid(s)', Held(s)'
    PROVE  WaitInv'
<1>1. \A r \in Sleepers \ {s} : Paid(r)'
  BY DEF WaitInv, WaitsPaid, Paid, Alone
<1>2. WaitsPaid'
  BY <1>1 DEF WaitsPaid
<1>3. StartedInWait'
  BY DEF WaitInv, StartedInWait, Held, Alone
<1> QED
  BY <1>2, <1>3 DEF WaitInv

\* The wait of s is over, or its thread is gone.
LEMMA ForgetIs ==
    ASSUME WaitInv, NEW s \in Sleepers, NEW p \in {"idle", "freed"}, Forget(s, p)
    PROVE  /\ tpc'[s] = p
           /\ \A r \in Sleepers \ {s} :
                /\ tpc'[r] = tpc[r] /\ rem'[r] = rem[r] /\ since'[r] = since[r]
                /\ diff'[r] = diff[r] /\ begun'[r] = begun[r]
           /\ tpc' \in [Sleepers -> {"idle", "freed"} \cup WaitPcs]
           /\ waiting' \in [Sleepers -> BOOLEAN]
           /\ cond' \in [Sleepers -> BOOLEAN]
           /\ rem' \in [Sleepers -> Nat]
           /\ since' \in [Sleepers -> Nat]
           /\ diff' \in [Sleepers -> Nat]
           /\ begun' \in [Sleepers -> Nat]
           /\ Paid(s)'
BY DEF WaitInv, WaitTyped, Forget, Goto, Paid, WaitPcs, InWait

LEMMA BeginKeeps ==
    ASSUME WaitInv, NEW s \in Sleepers, Begin(s)
    PROVE  WaitInv'
<1>0. now \in Nat /\ Timeout[s] \in Nat \ {0}
  BY Numbers
<1>1. WaitTyped'
  BY <1>0 DEF WaitInv, WaitTyped, Begin, Goto, WaitPcs
<1>2. Alone(s)
  BY DEF WaitInv, WaitTyped, Begin, Goto, Alone, listVars
<1>3. Paid(s)'
  <2>1. /\ tpc'[s] = "check" /\ rem'[s] = Timeout[s] /\ begun'[s] = now /\ now' = now
        /\ now + Timeout[s] <= MaxTime
    BY DEF WaitInv, WaitTyped, Begin, Goto
  <2> QED
    BY <1>0, <2>1, Numbers DEF Paid, WaitPcs, InWait
<1>4. Held(s)'
  BY DEF WaitInv, WaitTyped, StartedInWait, Begin, Goto, Held, MayBeStarted, InWait, listVars
<1> QED
  BY <1>1, <1>2, <1>3, <1>4, AloneKeeps

LEMMA SatisfiedKeeps ==
    ASSUME WaitInv, NEW s \in Sleepers, Satisfied(s)
    PROVE  WaitInv'
<1>0. /\ Forget(s, "idle") /\ now' = now /\ started' = started /\ posted' = posted
      /\ linked' = linked /\ finished' = finished
  BY DEF Satisfied, listVars
<1>1. WaitTyped'
  BY <1>0, ForgetIs DEF WaitInv, WaitTyped
<1>2. Alone(s)
  BY <1>0, ForgetIs DEF Alone
<1>3. Paid(s)'
  BY <1>0, ForgetIs
<1>4. Held(s)'
  BY <1>0, ForgetIs DEF WaitInv, StartedInWait, Satisfied, Held, MayBeStarted, InWait
<1> QED
  BY <1>1, <1>2, <1>3, <1>4, AloneKeeps

LEMMA LinkWaits ==
    ASSUME WaitInv, NEW s \in Sleepers, Link(s), started \in [Sleepers -> BOOLEAN]
    PROVE  WaitInv'
<1>0. PICK b \in BOOLEAN : started' = [started EXCEPT ![s] = b]
  BY Zenon DEF Link
<1>1. WaitTyped'
  BY Numbers DEF WaitInv, WaitTyped, Link, Goto, WaitPcs
<1>2. Alone(s)
  BY <1>0 DEF WaitInv, WaitTyped, Link, Goto, Alone
<1>3. Paid(s)'
  BY Numbers DEF WaitInv, WaitTyped, WaitsPaid, Link, Goto, Paid, WaitPcs, InWait
<1>4. Held(s)'
  BY DEF WaitInv, WaitTyped, Link, Goto, Held, MayBeStarted
<1> QED
  BY <1>1, <1>2, <1>3, <1>4, AloneKeeps

LEMMA SysTimerInitWaits ==
    ASSUME WaitInv, NEW s \in Sleepers, SysTimerInit(s), started \in [Sleepers -> BOOLEAN]
    PROVE  WaitInv'
<1>1. WaitTyped'
  BY DEF WaitInv, WaitTyped, SysTimerInit, Goto, WaitPcs
<1>2. Alone(s)
  BY DEF WaitInv, WaitTyped, SysTimerInit, Goto, Alone
<1>3. Paid(s)'
  BY DEF WaitInv, WaitTyped, WaitsPaid, SysTimerInit, Goto, Paid, WaitPcs, InWait
<1>4. Held(s)'
  BY DEF WaitInv, WaitTyped, StartedInWait, SysTimerInit, Goto, Held, MayBeStarted, InWait
<1> QED
  BY <1>1, <1>2, <1>3, <1>4, AloneKeeps

LEMMA ArmWaits ==
    ASSUME WaitInv, NEW s \in Sleepers, NEW c \in CPUs, Arm(s, c),
           started \in [Sleepers -> BOOLEAN]
    PROVE  WaitInv'
<1>1. WaitTyped'
  BY DEF WaitInv, WaitTyped, Arm, Goto, WaitPcs, InWait
<1>2. Alone(s)
  BY DEF WaitInv, WaitTyped, Arm, Goto, Alone
<1>3. Paid(s)'
  BY DEF WaitInv, WaitTyped, WaitsPaid, Arm, Goto, Paid, WaitPcs, InWait
<1>4. Held(s)'
  BY DEF WaitInv, WaitTyped, StartedInWait, Arm, Goto, Held, MayBeStarted, InWait
<1> QED
  BY <1>1, <1>2, <1>3, <1>4, AloneKeeps

LEMMA ScheduleKeeps ==
    ASSUME WaitInv, NEW s \in Sleepers, Schedule(s)
    PROVE  WaitInv'
<1>1. WaitTyped'
  BY DEF WaitInv, WaitTyped, Schedule, Goto, WaitPcs, InWait
<1>2. Alone(s)
  BY DEF WaitInv, WaitTyped, Schedule, Goto, Alone, listVars
<1>3. Paid(s)'
  BY DEF WaitInv, WaitTyped, WaitsPaid, Schedule, Goto, Paid, WaitPcs, InWait
<1>4. Held(s)'
  BY DEF WaitInv, WaitTyped, StartedInWait, Schedule, Goto, Held, MayBeStarted, InWait, listVars
<1> QED
  BY <1>1, <1>2, <1>3, <1>4, AloneKeeps

LEMMA StampKeeps ==
    ASSUME WaitInv, NEW s \in Sleepers, Stamp(s)
    PROVE  WaitInv'
<1>0. now - since[s] \in Nat /\ diff' = [diff EXCEPT ![s] = now - since[s]]
  BY TimerAssumption DEF WaitInv, WaitTyped, WaitsPaid, Stamp, Paid, Elapsed
<1>1. WaitTyped'
  BY <1>0 DEF WaitInv, WaitTyped, Stamp, Goto, WaitPcs, InWait
<1>2. Alone(s)
  BY <1>0 DEF WaitInv, WaitTyped, Stamp, Goto, Alone, listVars
<1>3. Paid(s)'
  <2>1. /\ tpc'[s] = "close" /\ rem'[s] = rem[s] /\ begun'[s] = begun[s] /\ now' = now
        /\ diff'[s] = now - since[s]
    BY <1>0 DEF WaitInv, WaitTyped, Stamp, Goto
  <2>2. /\ rem[s] \in 1..Timeout[s] /\ Timeout[s] <= MaxTime
        /\ since[s] - begun[s] >= Timeout[s] - rem[s]
    BY DEF WaitInv, WaitsPaid, Paid, Stamp, WaitPcs, InWait
  <2> QED
    BY <2>1, <2>2, Numbers DEF Paid, WaitPcs, InWait
<1>4. Held(s)'
  BY DEF WaitInv, WaitTyped, StartedInWait, Stamp, Goto, Held, MayBeStarted, InWait, listVars
<1> QED
  BY <1>1, <1>2, <1>3, <1>4, AloneKeeps

LEMMA CloseKeeps ==
    ASSUME WaitInv, NEW s \in Sleepers, NEW c \in CPUs, Close(s, c),
           started \in [Sleepers -> BOOLEAN],
           started' = [started EXCEPT ![s] = FALSE]
    PROVE  WaitInv'
<1>0. /\ now' = now /\ posted' = posted /\ finished' = finished
      /\ linked' = [linked EXCEPT ![s] = FALSE]
      /\ ~started'[s] /\ \A r \in Sleepers \ {s} : started'[r] = started[r]
  BY DEF Close
<1>1. CASE /\ diff[s] < rem[s]
           /\ rem' = [rem EXCEPT ![s] = @ - diff[s]]
           /\ waiting' = [waiting EXCEPT ![s] = TRUE]
           /\ since' = [since EXCEPT ![s] = 0]
           /\ diff' = [diff EXCEPT ![s] = 0]
           /\ Goto(s, "check")
           /\ UNCHANGED <<cond, begun>>
  <2>0. rem[s] - diff[s] \in Nat
    BY <1>1 DEF WaitInv, WaitTyped
  <2>1. WaitTyped'
    BY <1>0, <1>1, <2>0 DEF WaitInv, WaitTyped, Goto, WaitPcs
  <2>2. Alone(s)
    BY <1>0, <1>1 DEF WaitInv, WaitTyped, Goto, Alone
  <2>3. Paid(s)'
    <3>1. /\ tpc[s] = "close" /\ rem[s] \in 1..Timeout[s] /\ Timeout[s] <= MaxTime
          /\ now - begun[s] >= Timeout[s] - rem[s] + diff[s]
      BY DEF Close, WaitInv, WaitsPaid, Paid, WaitPcs, InWait
    <3>2. tpc'[s] = "check" /\ rem'[s] = rem[s] - diff[s] /\ begun'[s] = begun[s]
      BY <1>1 DEF WaitInv, WaitTyped, Goto
    <3> QED
      BY <3>1, <3>2, Numbers, <1>0, <1>1 DEF Paid, WaitPcs, InWait
  <2>4. Held(s)'
    BY <1>0, <1>1 DEF WaitInv, WaitTyped, Goto, Held, MayBeStarted, InWait
  <2> QED
    BY <2>1, <2>2, <2>3, <2>4, AloneKeeps
<1>2. CASE diff[s] >= rem[s] /\ Forget(s, "idle")
  <2>1. WaitTyped'
    BY <1>0, <1>2, ForgetIs DEF WaitInv, WaitTyped
  <2>2. Alone(s)
    BY <1>0, <1>2, ForgetIs DEF WaitInv, WaitTyped, Alone
  <2>3. Paid(s)'
    BY <1>2, ForgetIs
  <2>4. Held(s)'
    BY <1>0, <1>2, ForgetIs DEF Held, MayBeStarted, InWait
  <2> QED
    BY <2>1, <2>2, <2>3, <2>4, AloneKeeps
<1> QED
  BY <1>1, <1>2 DEF Close

\* A wakeup only moves sleeping threads.
LEMMA WakeupIs ==
    ASSUME WaitInv, NEW S, Wakeup(S)
    PROVE  /\ waiting' \in [Sleepers -> BOOLEAN]
           /\ tpc' \in [Sleepers -> {"idle", "freed"} \cup WaitPcs]
           /\ \A r \in Sleepers : \/ tpc'[r] = tpc[r]
                                  \/ r \in S /\ tpc[r] = "asleep" /\ tpc'[r] = "back"
BY DEF WaitInv, WaitTyped, Wakeup, WaitPcs, InWait

LEMMA EventKeeps ==
    ASSUME WaitInv, NEW s \in Sleepers, Event(s)
    PROVE  WaitInv'
<1>0. /\ Wakeup({s}) /\ cond' = [cond EXCEPT ![s] = TRUE]
      /\ now' = now /\ started' = started /\ posted' = posted /\ linked' = linked
      /\ rem' = rem /\ since' = since /\ diff' = diff /\ begun' = begun
      /\ finished' = finished
  BY DEF Event, listVars
<1>1. WaitTyped'
  BY <1>0, WakeupIs DEF WaitInv, WaitTyped
<1>2. Alone(s)
  <2>1. \A r \in Sleepers \ {s} : tpc'[r] = tpc[r]
    BY <1>0, WakeupIs, Zenon
  <2> QED
    BY <1>0, <2>1 DEF Alone
<1>3. tpc'[s] = tpc[s] \/ (tpc[s] = "asleep" /\ tpc'[s] = "back")
  <2>1. \A r \in Sleepers : \/ tpc'[r] = tpc[r]
                            \/ r \in {s} /\ tpc[r] = "asleep" /\ tpc'[r] = "back"
    BY <1>0, WakeupIs
  <2> QED
    BY <2>1
<1>4. Paid(s)'
  BY <1>0, <1>3 DEF WaitInv, WaitsPaid, Paid, WaitPcs, InWait
<1>5. Held(s)'
  BY <1>0, <1>3 DEF WaitInv, StartedInWait, Held, MayBeStarted, InWait
<1> QED
  BY <1>1, <1>2, <1>4, <1>5, AloneKeeps

LEMMA TerminateKeeps ==
    ASSUME WaitInv, NEW s \in Sleepers, Terminate(s)
    PROVE  WaitInv'
BY DEF WaitInv, WaitTyped, StartedInWait, Held, WaitsPaid, Paid, Terminate, listVars, waitVars

LEMMA DeleteKeeps ==
    ASSUME WaitInv, NEW s \in Sleepers, NEW c \in CPUs, Delete(s, c),
           started \in [Sleepers -> BOOLEAN],
           started' = [started EXCEPT ![s] = FALSE]
    PROVE  WaitInv'
<1>0. /\ now' = now /\ posted' = posted /\ finished' = finished \ {s}
      /\ linked' = [linked EXCEPT ![s] = FALSE]
      /\ ~started'[s] /\ \A r \in Sleepers \ {s} : started'[r] = started[r]
      /\ Forget(s, "freed")
  BY DEF Delete, WaitDeinit
<1>1. WaitTyped'
  BY <1>0, ForgetIs DEF WaitInv, WaitTyped
<1>2. Alone(s)
  BY <1>0, ForgetIs DEF WaitInv, WaitTyped, Alone
<1>3. Paid(s)'
  BY <1>0, ForgetIs
<1>4. Held(s)'
  BY <1>0, ForgetIs DEF Held, MayBeStarted, InWait
<1> QED
  BY <1>1, <1>2, <1>3, <1>4, AloneKeeps

LEMMA CreateKeeps ==
    ASSUME WaitInv, NEW s \in Sleepers, Create(s)
    PROVE  WaitInv'
<1>1. WaitTyped'
  BY DEF WaitInv, WaitTyped, Create, Goto, WaitPcs, InWait
<1>2. Alone(s)
  BY DEF WaitInv, WaitTyped, Create, Goto, Alone, listVars
<1>3. Paid(s)'
  BY DEF WaitInv, WaitTyped, Create, Goto, Paid, WaitPcs, InWait
<1>4. Held(s)'
  BY DEF WaitInv, WaitTyped, StartedInWait, Create, Goto, Held, MayBeStarted, InWait, listVars
<1> QED
  BY <1>1, <1>2, <1>3, <1>4, AloneKeeps

LEMMA TickKeeps ==
    ASSUME WaitInv, NEW c \in CPUs, Tick(c)
    PROVE  WaitInv'
<1>0. /\ now' \in 0..MaxTime /\ now' >= now
      /\ started' = started /\ linked' = linked /\ tpc' = tpc /\ waiting' = waiting
      /\ cond' = cond /\ rem' = rem /\ since' = since /\ diff' = diff
      /\ begun' = begun /\ finished' = finished
  BY TimerAssumption DEF WaitInv, WaitTyped, Tick, listVars, waitVars
<1>1. posted' \in [CPUs -> BOOLEAN]
  <2>1. posted' = [posted EXCEPT ![c] = posted[c] \/ HeadDue(c, now')]
    BY DEF Tick
  <2>2. (posted[c] \/ HeadDue(c, now')) \in BOOLEAN
    OBVIOUS
  <2> QED
    BY <2>1, <2>2, Zenon DEF WaitInv, WaitTyped
<1>2. WaitTyped'
  BY <1>0, <1>1 DEF WaitInv, WaitTyped
<1>3. StartedInWait'
  BY <1>0 DEF WaitInv, StartedInWait, Held
<1>4. ASSUME NEW s \in Sleepers PROVE Paid(s)'
  <2>1. now' \in Int
    BY <1>0, Numbers
  <2> QED
    BY <1>0, <2>1, Numbers DEF WaitInv, WaitsPaid, Paid
<1> QED
  BY <1>2, <1>3, <1>4 DEF WaitInv, WaitsPaid

LEMMA TickerWaits ==
    ASSUME WaitInv, NEW c \in CPUs, TickerAdd(c) \/ TickerDel(c)
    PROVE  WaitInv'
BY DEF WaitInv, WaitTyped, StartedInWait, Held, WaitsPaid, Paid, TickerAdd, TickerDel, waitVars

LEMMA HandlerWaits ==
    ASSUME WaitInv, NEW c \in CPUs, Handler(c),
           started' = [s \in Sleepers |-> started[s] /\ s \notin Fired(c)]
    PROVE  WaitInv'
<1>1. PICK S : Wakeup(S)
  BY DEF Handler
<1>2. /\ now' = now /\ linked' = linked /\ cond' = cond /\ rem' = rem /\ since' = since
      /\ diff' = diff /\ begun' = begun /\ finished' = finished
      /\ posted' = [posted EXCEPT ![c] = FALSE]
  BY DEF Handler
<1>3. WaitTyped'
  BY <1>1, <1>2, WakeupIs DEF WaitInv, WaitTyped
<1>4. \A r \in Sleepers : tpc'[r] = tpc[r] \/ (tpc[r] = "asleep" /\ tpc'[r] = "back")
  <2>1. \A r \in Sleepers : \/ tpc'[r] = tpc[r]
                            \/ r \in S /\ tpc[r] = "asleep" /\ tpc'[r] = "back"
    BY <1>1, WakeupIs
  <2> QED
    BY <2>1
<1>5. WaitsPaid'
  BY <1>2, <1>4 DEF WaitInv, WaitsPaid, Paid, WaitPcs, InWait
<1>6. StartedInWait'
  <2>1. \A s \in Sleepers : started'[s] => started[s]
    OBVIOUS
  <2> QED
    BY <1>2, <1>4, <2>1 DEF WaitInv, StartedInWait, Held, MayBeStarted, InWait
<1> QED
  BY <1>3, <1>5, <1>6 DEF WaitInv

-----------------------------------------------------------------------------
(* Every step keeps the invariant.                                           *)

LEMMA InitInv == Init => IInv
<1> SUFFICES ASSUME Init PROVE IInv
  OBVIOUS
<1>1. Typed
  <2>1. <<>> \in Seq(Entry)
    BY EmptySeq
  <2>2. due \in [CPUs -> Dues] /\ list \in [CPUs -> Seq(Entry)] /\ astray \in BOOLEAN
    BY <2>1 DEF Init, Dues
  <2>3. /\ started \in [Sleepers -> BOOLEAN] /\ shared \subseteq CPUs
        /\ owner \in [Sleepers -> CPUs \cup {None}]
    BY DEF Init
  <2>4. /\ now \in 0..MaxTime /\ posted \in [CPUs -> BOOLEAN] /\ finished \subseteq Mortal
        /\ rem \in [Sleepers -> Nat] /\ since \in [Sleepers -> Nat]
        /\ diff \in [Sleepers -> Nat] /\ begun \in [Sleepers -> Nat]
    BY TimerAssumption DEF Init
  <2>5. /\ tpc \in [Sleepers -> {"idle", "freed"} \cup WaitPcs]
        /\ waiting \in [Sleepers -> BOOLEAN] /\ linked \in [Sleepers -> BOOLEAN]
        /\ cond \in [Sleepers -> BOOLEAN]
    BY DEF Init
  <2> QED
    BY <2>2, <2>3, <2>4, <2>5 DEF Typed
<1>2. ListsShow
  <2>1. ASSUME NEW c \in CPUs PROVE Shows(list[c], due[c])
    <3>1. list[c] = <<>> /\ \A t \in Timers : due[c][t] = None
      BY DEF Init
    <3>2. <<>> \in Seq(Entry) /\ Len(<<>>) = 0
      BY EmptySeq
    <3> QED
      BY <3>1, <3>2 DEF Shows
  <2> QED
    BY <2>1 DEF ListsShow
<1>3. FlagsTell /\ StartedInWait
  BY TimersAre DEF Init, FlagsTell, Trusted, StartedInWait, Held, InWait
<1>4. WaitsPaid
  BY DEF Init, WaitsPaid, Paid, WaitPcs, InWait
<1> QED
  BY <1>1, <1>2, <1>3, <1>4 DEF IInv

\* A step of sleeper s out of one point of its wait into another leaves the
\* timers that are not initialised as they are, unless one of the two is "raw".
LEMMA RawQuiet ==
    ASSUME WaitInv, NEW s \in Sleepers, tpc[s] # "raw", NEW p, p # "raw", Goto(s, p)
    PROVE  Raw' = Raw
BY DEF WaitInv, WaitTyped, Goto, Raw

LEMMA NextInv ==
    ASSUME IInv, [Next]_vars
    PROVE  IInv'
<1> SUFFICES ListInv' /\ WaitInv'
  BY PartsNext
<1>0. ListInv /\ WaitInv /\ started \in [Sleepers -> BOOLEAN]
  BY Parts DEF ListInv, ListTyped
<1>1. ASSUME NEW s \in Sleepers,
             \/ Begin(s) \/ Satisfied(s) \/ Schedule(s) \/ Stamp(s)
             \/ Event(s) \/ Terminate(s) \/ Create(s)
      PROVE  ListInv' /\ WaitInv'
  <2>1. UNCHANGED listVars
    BY <1>1 DEF Begin, Satisfied, Schedule, Stamp, Event, Terminate, Create
  <2>2. Raw' = Raw
    <3>1. CASE Begin(s) \/ Satisfied(s) \/ Stamp(s) \/ Create(s)
      <4>1. PICK q \in {"idle", "check", "close"} : Goto(s, q)
        BY <3>1 DEF Begin, Satisfied, Stamp, Create, Forget
      <4>2. tpc[s] # "raw"
        BY <3>1 DEF Begin, Satisfied, Stamp, Create
      <4> QED
        BY <1>0, <4>1, <4>2, RawQuiet
    <3>2. CASE Schedule(s)
      BY <1>0, <3>2 DEF WaitInv, WaitTyped, Schedule, Goto, Raw
    <3>3. CASE Event(s)
      BY <3>3 DEF Event, Wakeup, Raw
    <3>4. CASE Terminate(s)
      BY <3>4 DEF Terminate, waitVars, Raw
    <3> QED
      BY <1>1, <3>1, <3>2, <3>3, <3>4
  <2>3. ListInv'
    BY <1>0, <2>1, <2>2, ListQuiet
  <2>4. WaitInv'
    BY <1>0, <1>1, BeginKeeps, SatisfiedKeeps, ScheduleKeeps, StampKeeps, EventKeeps,
       TerminateKeeps, CreateKeeps, Zenon
  <2> QED
    BY <2>3, <2>4
<1>2. ASSUME NEW s \in Sleepers, NEW c \in CPUs, Arm(s, c) PROVE ListInv' /\ WaitInv'
  BY <1>0, <1>2, ArmKeeps, ArmWaits
<1>9. ASSUME NEW s \in Sleepers, Link(s) \/ SysTimerInit(s) PROVE ListInv' /\ WaitInv'
  BY <1>0, <1>9, LinkKeeps, LinkWaits, SysTimerInitWaits
<1>3. ASSUME NEW s \in Sleepers, NEW c \in CPUs, Close(s, c) PROVE ListInv' /\ WaitInv'
  <2>1. SysTimerStop(s, c) /\ s \notin Raw
    BY <1>3 DEF Close, Raw
  <2>2. Raw' = Raw
    <3>1. PICK q \in {"idle", "check"} : Goto(s, q)
      BY <1>3 DEF Close, Forget
    <3> QED
      BY <1>0, <1>3, <3>1, RawQuiet DEF Close
  <2> QED
    BY <1>0, <1>3, <2>1, <2>2, StopKeeps, CloseKeeps
<1>4. ASSUME NEW s \in Sleepers, NEW c \in CPUs, Delete(s, c) PROVE ListInv' /\ WaitInv'
  <2>0. Goto(s, "freed")
    BY <1>4 DEF Delete, Forget
  <2>1. ListInv' /\ started' = [started EXCEPT ![s] = FALSE]
    <3>1. CASE s \in Raw
      <4>1. linked[s]
        BY <1>0, <3>1 DEF WaitInv, StartedInWait, Held, Raw
      <4>2. SysTimerClose(s, c)
        BY <1>4, <4>1 DEF Delete, WaitDeinit
      <4>3. Raw' = Raw \ {s}
        BY <1>0, <2>0 DEF WaitInv, WaitTyped, Goto, Raw
      <4> QED
        BY <1>0, <3>1, <4>2, <4>3, CloseRawKeeps
    <3>2. CASE s \notin Raw
      <4>1. Raw' = Raw
        BY <1>0, <2>0, <3>2, RawQuiet DEF Raw
      <4>2. CASE linked[s]
        <5>1. SysTimerStop(s, c)
          BY <1>4, <3>2, <4>2 DEF Delete, WaitDeinit, SysTimerClose
        <5> QED
          BY <1>0, <3>2, <4>1, <5>1, StopKeeps
      <4>3. CASE ~linked[s]
        <5>1. UNCHANGED listVars
          BY <1>4, <4>3 DEF Delete, WaitDeinit
        <5>2. ~started[s]
          BY <1>0, <4>3 DEF WaitInv, StartedInWait, Held, MayBeStarted
        <5>3. started = [started EXCEPT ![s] = FALSE]
          BY <1>0, <5>2
        <5> QED
          BY <1>0, <4>1, <5>1, <5>3, ListQuiet DEF listVars
      <4> QED
        BY <4>2, <4>3
    <3> QED
      BY <3>1, <3>2
  <2>2. WaitInv'
    BY <1>0, <1>4, <2>1, DeleteKeeps
  <2> QED
    BY <2>1, <2>2
<1>5. ASSUME NEW c \in CPUs, Tick(c) PROVE ListInv' /\ WaitInv'
  <2>1. UNCHANGED listVars /\ Raw' = Raw
    BY <1>5 DEF Tick, waitVars, Raw
  <2> QED
    BY <1>0, <1>5, <2>1, ListQuiet, TickKeeps
<1>6. ASSUME NEW c \in CPUs, Handler(c) PROVE ListInv' /\ WaitInv'
  BY <1>0, <1>6, HandlerKeeps, HandlerWaits
<1>7. ASSUME NEW c \in CPUs, TickerAdd(c) \/ TickerDel(c) PROVE ListInv' /\ WaitInv'
  BY <1>0, <1>7, TickerKeeps, TickerWaits
<1>8. CASE UNCHANGED vars
  BY <1>0, <1>8 DEF vars, listVars, waitVars, ListInv, ListTyped, ListsShow, FlagsTell, Trusted,
              Raw, WaitInv, WaitTyped, StartedInWait, Held, WaitsPaid, Paid
<1> QED
  BY <1>1, <1>2, <1>3, <1>4, <1>5, <1>6, <1>7, <1>8, <1>9
  DEF Next, WaitStep, ThreadStep, CpuTick, CpuHandler, CpuTicker, Halted

\* The invariant holds in every reachable state.
THEOREM Correct == Spec => []IInv
<1>1. Init => IInv
  BY InitInv
<1>2. IInv /\ [Next]_vars => IInv'
  BY NextInv
<1> QED
  BY <1>1, <1>2, PTL DEF Spec

-----------------------------------------------------------------------------
(* What the invariant says.                                                  *)

\* The types, and with them that no counter of a delta list ever goes below
\* zero: the subtractions of __timer_strat_start() do not wrap around.
THEOREM TypeCorrect == Spec => []TypeOK
<1>1. IInv => TypeOK
  <2> SUFFICES ASSUME IInv PROVE TypeOK
    OBVIOUS
  <2>1. \A c \in CPUs : list[c] \in Seq(Entry)
    BY DEF IInv, ListsShow, Shows
  <2>2. list \in [CPUs -> Seq([tmr : Timers, cnt : Nat])]
    BY <2>1 DEF IInv, Typed, Entry
  <2> QED
    BY <2>2 DEF IInv, Typed, TypeOK, Dues
<1> QED
  BY <1>1, Correct, PTL

\* From sys_timer_init() on, the started flag and the owner_cpu of a timer tell
\* the truth about the lists, and so do the ticker's bits; a timer that has not
\* been initialised is on no list, whatever its flag and owner_cpu say.
LEMMA QueuedAsToldHolds == Spec => []QueuedAsTold
<1>1. IInv => QueuedAsTold
  <2> SUFFICES ASSUME IInv PROVE QueuedAsTold
    OBVIOUS
  <2>1. ASSUME NEW c \in CPUs, NEW t \in Timers
        PROVE  /\ due[c][t] = None <=> Places(t, list[c]) = {}
               /\ \A i, j \in Places(t, list[c]) : i = j
    <3>1. due[c] \in Dues /\ Shows(list[c], due[c])
      BY DEF IInv, Typed, ListsShow
    <3>2. \A q : \A D \in Dues :
             Shows(q, D) => /\ D[t] = None <=> Places(t, q) = {}
                            /\ \A i \in Places(t, q) : Sum(q, i) = D[t]
                            /\ \A i, j \in Places(t, q) : i = j
      BY ShowsPlaces, Zenon
    <3> QED
      BY <3>1, <3>2, Zenon
  <2>2. ASSUME NEW s \in Sleepers, NEW c \in CPUs
        PROVE  Places(s, list[c]) # {} <=> s \notin Raw /\ started[s] /\ owner[s] = c
    <3>1. due[c][s] # None <=> s \notin Raw /\ started[s] /\ owner[s] = c
      BY DEF IInv, FlagsTell, Trusted
    <3>2. due[c][s] = None <=> Places(s, list[c]) = {}
      BY <2>1, TimersAre
    <3> QED
      BY <3>1, <3>2, Zenon
  <2>3. ASSUME NEW c \in CPUs
        PROVE  Places(Ticker, list[c]) # {} <=> c \in shared
    <3>1. due[c][Ticker] # None <=> c \in shared
      BY DEF IInv, FlagsTell
    <3>2. due[c][Ticker] = None <=> Places(Ticker, list[c]) = {}
      BY <2>1, TimersAre
    <3> QED
      BY <3>1, <3>2, Zenon
  <2> QED
    BY <2>1, <2>2, <2>3, Zenon DEF QueuedAsTold
<1> QED
  BY <1>1, Correct, PTL

\* A stop goes astray only where the timer of a terminated thread is closed that
\* was preempted between thread_wait_add() and sys_timer_init(): everywhere else
\* timer_strat_stop() finds the timer on the list that owner_cpu names.
LEMMA StrayOnlyInWindow == Spec => [][astray' # astray => InWindow]_vars
<1>1. IInv /\ [Next]_vars => [astray' # astray => InWindow]_vars
  <2> SUFFICES ASSUME IInv, Next, astray' # astray
               PROVE  InWindow
    OBVIOUS
  <2>0. ListInv /\ WaitInv
    BY Parts
  <2>1. ASSUME NEW s \in Sleepers,
               \/ Begin(s) \/ Satisfied(s) \/ Link(s) \/ SysTimerInit(s) \/ Schedule(s)
               \/ Stamp(s) \/ Event(s) \/ Terminate(s) \/ Create(s)
        PROVE  FALSE
    BY <2>1 DEF Begin, Satisfied, Link, SysTimerInit, Schedule, Stamp, Event, Terminate,
                Create, listVars
  <2>2. ASSUME NEW s \in Sleepers, NEW c \in CPUs, Arm(s, c) PROVE FALSE
    BY <2>2 DEF Arm
  <2>3. ASSUME NEW c \in CPUs, Tick(c) \/ Handler(c) \/ TickerAdd(c) \/ TickerDel(c)
        PROVE  FALSE
    BY <2>3 DEF Tick, Handler, TickerAdd, TickerDel, listVars
  <2>4. ASSUME NEW s \in Sleepers, NEW c \in CPUs, SysTimerStop(s, c), s \notin Raw
        PROVE  FALSE
    <3>1. CASE started[s]
      <4>1. PICK o \in CPUs : o = owner[s] /\ due[o][s] # None
        BY <2>0, <2>4, <3>1 DEF ListInv, FlagsTell, Trusted
      <4>2. OnOwnersList(s)
        BY <2>0, <4>1, DueIsListed, TimersAre DEF OnOwnersList
      <4> QED
        BY <2>4, <3>1, <4>2 DEF SysTimerStop
    <3>2. CASE ~started[s]
      BY <2>4, <3>2 DEF SysTimerStop, listVars
    <3> QED
      BY <3>1, <3>2
  <2>5. ASSUME NEW s \in Sleepers, NEW c \in CPUs, Close(s, c) PROVE FALSE
    BY <2>4, <2>5 DEF Close, Raw
  <2>6. ASSUME NEW s \in Sleepers, NEW c \in CPUs, Delete(s, c)
        PROVE  s \in finished /\ tpc[s] = "raw" /\ tpc'[s] = "freed"
    <3>1. s \in Raw
      BY <2>4, <2>6 DEF Delete, WaitDeinit, SysTimerClose, listVars
    <3> QED
      BY <2>0, <2>6, <3>1 DEF Delete, Forget, Goto, Raw, WaitInv, WaitTyped
  <2> QED
    BY <2>1, <2>2, <2>3, <2>5, <2>6
    DEF Next, WaitStep, ThreadStep, CpuTick, CpuHandler, CpuTicker, Halted, vars, listVars,
        InWindow
<1> QED
  BY <1>1, Correct, PTL DEF Spec

\* The started flag and owner_cpu can be relied on where a timer is stopped: they
\* tell where it is, and only the deletion of a thread terminated between
\* thread_wait_add() and sys_timer_init() stops one that is on no list.
THEOREM StartedIsQueuedHolds == Spec => StartedIsQueued
  BY QueuedAsToldHolds, StrayOnlyInWindow DEF StartedIsQueued

\* The deltas up to a timer sum to the time it was asked to fire at.
THEOREM DeltasExactHolds == Spec => []DeltasExact
<1>1. IInv => DeltasExact
  <2> SUFFICES ASSUME IInv, NEW c \in CPUs, NEW t \in Timers
               PROVE  /\ due[c][t] = None <=> Places(t, list[c]) = {}
                      /\ \A i \in Places(t, list[c]) : Sum(list[c], i) = due[c][t]
    BY DEF DeltasExact
  <2>1. due[c] \in Dues /\ Shows(list[c], due[c])
    BY DEF IInv, Typed, ListsShow
  <2> QED
    BY <2>1, ShowsPlaces
<1> QED
  BY <1>1, Correct, PTL

\* A timer on a list belongs to a call that has not returned, of a thread whose
\* stack has not been freed.
THEOREM NoDanglingTimerHolds == Spec => []NoDanglingTimer
<1>1. IInv => NoDanglingTimer
  <2> SUFFICES ASSUME IInv, NEW c \in CPUs, NEW s \in Sleepers, Places(s, list[c]) # {}
               PROVE  linked[s] /\ tpc[s] \in InWait
    BY DEF NoDanglingTimer
  <2>1. due[c] \in Dues /\ Shows(list[c], due[c])
    BY DEF IInv, Typed, ListsShow
  <2>2. due[c][s] # None
    BY <2>1, TimersAre, ShowsPlaces
  <2> QED
    BY <2>2 DEF IInv, FlagsTell, Trusted, StartedInWait, Held, MayBeStarted, Raw
<1> QED
  BY <1>1, Correct, PTL

\* A wait that times out has lasted as long as it was asked to, however often
\* its thread was woken in between.
THEOREM NoEarlyTimeoutHolds == Spec => NoEarlyTimeout
<1> DEFINE A == \A s \in Sleepers :
                  tpc[s] = "close" /\ tpc'[s] = "idle" => now - begun[s] >= Timeout[s]
<1>1. IInv /\ [Next]_vars => [A]_vars
  <2> SUFFICES ASSUME IInv, Next, NEW s \in Sleepers, tpc[s] = "close", tpc'[s] = "idle"
               PROVE  now - begun[s] >= Timeout[s]
    OBVIOUS
  <2>0. WaitInv
    BY Parts
  <2>1. PICK c \in CPUs : Close(s, c) \/ Delete(s, c)
    <3>1. ASSUME NEW r \in Sleepers,
                 \/ Begin(r) \/ Satisfied(r) \/ Link(r) \/ SysTimerInit(r)
                 \/ Schedule(r) \/ Stamp(r) \/ Create(r)
          PROVE  FALSE
      BY <2>0, <3>1 DEF WaitInv, WaitTyped, Begin, Satisfied, Link, SysTimerInit, Schedule,
                        Stamp, Create, Forget, Goto
    <3>2. ASSUME NEW r \in Sleepers, Terminate(r) PROVE FALSE
      BY <3>2 DEF Terminate, waitVars
    <3>3. ASSUME NEW S, Wakeup(S) PROVE FALSE
      BY <3>3 DEF Wakeup
    <3>4. ASSUME NEW c \in CPUs, Tick(c) \/ TickerAdd(c) \/ TickerDel(c) PROVE FALSE
      BY <3>4 DEF Tick, TickerAdd, TickerDel, waitVars
    <3>5. ASSUME NEW r \in Sleepers, NEW c \in CPUs, Arm(r, c) PROVE FALSE
      BY <2>0, <3>5 DEF WaitInv, WaitTyped, Arm, Goto
    <3>6. ASSUME NEW r \in Sleepers, NEW c \in CPUs, Close(r, c) \/ Delete(r, c) PROVE r = s
      BY <2>0, <3>6 DEF WaitInv, WaitTyped, Close, Delete, Forget, Goto
    <3>7. ASSUME NEW r \in Sleepers, Event(r) PROVE FALSE
      BY <3>3, <3>7 DEF Event
    <3>8. ASSUME NEW c \in CPUs, Handler(c) PROVE FALSE
      BY <3>3, <3>8 DEF Handler
    <3> QED
      BY <3>1, <3>2, <3>4, <3>5, <3>6, <3>7, <3>8
      DEF Next, WaitStep, ThreadStep, CpuTick, CpuHandler, CpuTicker, Halted, vars, waitVars
  <2>2. ~Delete(s, c)
    BY <2>0 DEF WaitInv, WaitTyped, Delete, Forget, Goto
  <2>3. diff[s] >= rem[s]
    BY <2>0, <2>1, <2>2 DEF WaitInv, WaitTyped, Close, Goto
  <2>4. now - begun[s] >= Timeout[s] - rem[s] + diff[s]
    BY <2>0 DEF WaitInv, WaitsPaid, Paid
  <2> QED
    BY <2>0, <2>3, <2>4, Numbers
<1> QED
  BY <1>1, Correct, PTL DEF Spec, NoEarlyTimeout

-----------------------------------------------------------------------------
(* The delta lists implement a set of timers with due times.                 *)

LEMMA InitRefines == Init => TS!Init
BY DEF Init, TS!Init

\* A step that leaves the clock and the due times alone.
LEMMA StutterRefines ==
    ASSUME now' = now, due' = due
    PROVE  [TS!Next]_(TS!vars)
BY DEF TS!vars

\* sys_timer_stop() of an initialised timer disarms it if it is armed.
LEMMA StopRefines ==
    ASSUME ListInv, NEW s \in Sleepers, NEW c \in CPUs, SysTimerStop(s, c), now' = now,
           s \notin Raw
    PROVE  [TS!Next]_(TS!vars)
<1>1. CASE started[s]
  <2>1. PICK o \in CPUs : o = owner[s]
    BY <1>1 DEF ListInv, FlagsTell, Trusted
  <2>3. s \in Timers /\ due[o][s] # None
    BY <1>1, <2>1, TimersAre DEF ListInv, FlagsTell, Trusted
  <2>5. OnOwnersList(s)
    BY <2>1, <2>3, DueIsListed DEF OnOwnersList
  <2>2. due' = [due EXCEPT ![o][s] = None]
    BY <1>1, <2>1, <2>5 DEF SysTimerStop
  <2>4. TS!Disarm(o, s)
    BY <2>2, <2>3 DEF TS!Disarm
  <2> QED
    BY <2>3, <2>4 DEF TS!Next
<1>2. CASE ~started[s]
  BY <1>2, StutterRefines DEF SysTimerStop, listVars
<1> QED
  BY <1>1, <1>2

\* Every step of the lists is a step of the set of timers, or none: what
\* clock_handler() fires on a CPU is exactly what is due there.
LEMMA NextRefines ==
    ASSUME IInv, [Next]_vars, Interval <= MaxTime
    PROVE  [TS!Next]_(TS!vars)
<1>0. ListInv /\ WaitInv
  BY Parts
<1>1. ASSUME NEW s \in Sleepers,
             \/ Begin(s) \/ Satisfied(s) \/ Link(s) \/ SysTimerInit(s) \/ Schedule(s)
             \/ Stamp(s) \/ Event(s) \/ Terminate(s) \/ Create(s)
      PROVE  [TS!Next]_(TS!vars)
  <2>1. now' = now /\ due' = due
    BY <1>1 DEF Begin, Satisfied, Link, SysTimerInit, Schedule, Stamp, Event, Terminate,
                Create, listVars
  <2> QED
    BY <2>1, StutterRefines
<1>2. ASSUME NEW s \in Sleepers, NEW c \in CPUs, Arm(s, c) PROVE [TS!Next]_(TS!vars)
  <2>1. /\ due' = [due EXCEPT ![c][s] = now + rem[s]] /\ now' = now
        /\ tpc[s] = "inited"
    BY <1>2 DEF Arm
  <2>2. s \in Timers /\ due[c][s] = None
    BY <1>0, <2>1, TimersAre DEF WaitInv, StartedInWait, Held, MayBeStarted, InWait, ListInv,
                                 FlagsTell, Trusted
  <2>3. rem[s] \in 1..MaxTime
    <3>1. rem[s] \in 1..Timeout[s] /\ Timeout[s] <= MaxTime
      BY <1>0, <2>1 DEF WaitInv, WaitsPaid, Paid, WaitPcs
    <3> QED
      BY <3>1, <1>0, Numbers
  <2>4. TS!Arm(c, s)
    BY <2>1, <2>2, <2>3 DEF TS!Arm
  <2> QED
    BY <2>2, <2>4 DEF TS!Next
<1>3. ASSUME NEW s \in Sleepers, NEW c \in CPUs, Close(s, c) PROVE [TS!Next]_(TS!vars)
  BY <1>0, <1>3, StopRefines DEF Close, Raw
<1>4. ASSUME NEW s \in Sleepers, NEW c \in CPUs, Delete(s, c) PROVE [TS!Next]_(TS!vars)
  <2>1. now' = now
    BY <1>4 DEF Delete
  <2>2. CASE s \in Raw
    <3>1. SysTimerClose(s, c)
      BY <1>0, <1>4, <2>2 DEF Delete, WaitDeinit, WaitInv, StartedInWait, Held, Raw
    <3>2. Raw' = Raw \ {s}
      BY <1>0, <1>4 DEF Delete, Forget, Goto, WaitInv, WaitTyped, Raw
    <3> QED
      BY <1>0, <2>1, <2>2, <3>1, <3>2, CloseRawKeeps, StutterRefines
  <2>3. CASE s \notin Raw
    <3>1. SysTimerStop(s, c) \/ due' = due
      BY <1>4, <2>3 DEF Delete, WaitDeinit, SysTimerClose, listVars
    <3> QED
      BY <1>0, <2>1, <2>3, <3>1, StopRefines, StutterRefines
  <2> QED
    BY <2>2, <2>3
<1>5. ASSUME NEW c \in CPUs, Tick(c) PROVE [TS!Next]_(TS!vars)
  <2>1. due' = due /\ (now' = now + 1 \/ now' = now)
    BY <1>5 DEF Tick, listVars
  <2>2. CASE now' = now + 1
    BY <2>1, <2>2 DEF TS!Next, TS!Advance
  <2>3. CASE now' = now
    BY <2>1, <2>3, StutterRefines
  <2> QED
    BY <2>1, <2>2, <2>3
<1>6. ASSUME NEW c \in CPUs, Handler(c) PROVE [TS!Next]_(TS!vars)
  <2> DEFINE fired == {t \in Timers : due[c][t] # None /\ due[c][t] <= now}
             E == [t \in Timers |-> IF t \notin fired THEN due[c][t]
                                    ELSE IF t \in {Ticker} THEN now + Interval
                                    ELSE None]
  <2>1. /\ now' = now
        /\ due' = [due EXCEPT ![c] = [t \in Timers |->
                        IF due[c][t] # None /\ due[c][t] <= now
                        THEN IF t = Ticker THEN now + Interval ELSE None
                        ELSE due[c][t]]]
    BY <1>0, <1>6, HandlerKeeps DEF Handler
  <2>2. [t \in Timers |-> IF due[c][t] # None /\ due[c][t] <= now
                          THEN IF t = Ticker THEN now + Interval ELSE None
                          ELSE due[c][t]] = E
    OBVIOUS
  <2>3. due' = [due EXCEPT ![c] = E]
    BY <2>1, <2>2
  <2>4. CASE fired # {}
    <3>1. TS!Fire(c)
      BY <2>1, <2>3, <2>4 DEF TS!Fire
    <3> QED
      BY <3>1 DEF TS!Next
  <2>5. CASE fired = {}
    <3>1. E = [t \in Timers |-> due[c][t]]
      BY <2>5
    <3>2. E = due[c]
      BY <1>0, <3>1 DEF ListInv, ListTyped, Dues
    <3>3. due' = due
      <4> HIDE DEF E
      <4> QED
        BY <1>0, <2>3, <3>2 DEF ListInv, ListTyped
    <3> QED
      BY <2>1, <3>3, StutterRefines
  <2> QED
    BY <2>4, <2>5
<1>7. ASSUME NEW c \in CPUs, TickerAdd(c) PROVE [TS!Next]_(TS!vars)
  <2>1. /\ due' = [due EXCEPT ![c][Ticker] = now + Interval] /\ now' = now
        /\ due[c][Ticker] = None /\ Ticker \in Timers
    BY <1>0, <1>7, TimersAre DEF TickerAdd, ListInv, FlagsTell
  <2>2. Interval \in 1..MaxTime
    BY TimerAssumption
  <2>3. TS!Arm(c, Ticker)
    BY <2>1, <2>2 DEF TS!Arm
  <2> QED
    BY <2>1, <2>3 DEF TS!Next
<1>8. ASSUME NEW c \in CPUs, TickerDel(c) PROVE [TS!Next]_(TS!vars)
  <2>1. /\ due' = [due EXCEPT ![c][Ticker] = None] /\ now' = now
        /\ due[c][Ticker] # None /\ Ticker \in Timers
    BY <1>0, <1>8, TimersAre DEF TickerDel, ListInv, FlagsTell
  <2>2. TS!Disarm(c, Ticker)
    BY <2>1 DEF TS!Disarm
  <2> QED
    BY <2>1, <2>2 DEF TS!Next
<1>9. CASE UNCHANGED vars
  BY <1>9, StutterRefines DEF vars, listVars
<1> QED
  BY <1>1, <1>2, <1>3, <1>4, <1>5, <1>6, <1>7, <1>8, <1>9
  DEF Next, WaitStep, ThreadStep, CpuTick, CpuHandler, CpuTicker, Halted

\* The delta lists of head_timer_smp.c, with timers stopped from other CPUs and
\* one counter per list for the ticker, implement the set of timers with
\* absolute due times.  (The load of the ticker is one of the model's.)
THEOREM TimerSetRefined ==
    ASSUME Interval <= MaxTime
    PROVE  Spec => ImplementsTimerSet
<1>1. Init => TS!Init
  BY InitRefines
<1>2. IInv /\ [Next]_vars => [TS!Next]_(TS!vars)
  BY NextRefines
<1> QED
  BY <1>1, <1>2, Correct, PTL DEF Spec, ImplementsTimerSet, TS!Spec
==============================================================================
