---------------------------- MODULE CriticalProofs ----------------------------
(***************************************************************************)
(* Proofs about Critical.                                                  *)
(***************************************************************************)
EXTENDS Critical, FiniteSetTheorems, SequenceTheorems, TLAPS

-----------------------------------------------------------------------------
(* Frames.                                                                   *)

\* Open sections; those of a level; those that promise the BKL; those harder than
\* a SCHED section.
Openers == {"try", "in", "rel", "pick", "lt", "out"}
Opens == {f \in FrameSet : f.fn \in Openers}
OpenAt(level) ==
    {f \in FrameSet : \/ f.fn \in Openers /\ Level(f.sec) = level
                      \/ f.fn = "pick" /\ level = 3}
Bkls == {f \in FrameSet : f.fn \in Openers /\ Level(f.sec) # 3}
Harders == {f \in FrameSet : f.fn \in Openers /\ (Level(f.sec) # 4 \/ f.fn = "pick")}

\* The frames there are.
Calls == {"call", "disp"}
Legals ==
    {f \in FrameSet :
        /\ \/ f.sec \in {"sched", "irqlock", "irq"} /\ f.fn \in {"enter", "in"} \cup Calls
           \/ f.sec = "spin" /\ f.fn \in Calls
           \/ f.sec = "guard" /\ f.fn \in {"spin", "try", "in", "rel"}
           \/ f.sec = "rq" /\ f.fn \in {"spin", "in", "rel"}
           \/ f.sec \in {"schedule", "preempt"} /\ f.fn \in {"enter", "in", "pick", "lt", "out"}
           \/ f.sec = "fresh" /\ f.fn = "out"
        /\ f.ipl = (f.sec \in {"irqlock", "irq", "preempt"} /\ f.fn \notin Calls)}

\* Sections that the thread's own code has opened or is opening; those inside
\* which it may open others.
Owns == {f \in FrameSet : /\ f.sec \in {"sched", "irqlock", "guard", "rq", "schedule"}
                          /\ f.fn \notin Calls}
Bases == {f \in FrameSet : f.sec \in {"sched", "irqlock", "guard"} /\ f.fn = "in"}
IrqLocks == {f \in FrameSet : f.sec = "irqlock" /\ f.fn = "in"}
Guards == {f \in FrameSet : f.sec = "guard" /\ f.fn = "in"}

\* Interrupts are masked while such a frame is the last; most of them stay last.
Maskeds ==
    {f \in FrameSet :
        \/ f.fn \in {"pick", "disp"}
        \/ f.fn \in {"enter", "in"} /\ f.sec \in {"irqlock", "irq", "preempt"}
        \/ f.fn = "in" /\ f.sec = "rq"
        \/ f.fn = "call" /\ f.sec = "irq"}
Lasts == {f \in Maskeds : f.fn # "disp" /\ f \notin IrqLocks}

-----------------------------------------------------------------------------
(* Stacks.                                                                   *)

\* The last frame; a frame of a set is in the stack.
Tip(s) == IF s = <<>> THEN Bottom ELSE s[Len(s)]
Has(s, F) == \E i \in 1..Len(s) : s[i] \in F

\* f may stand on s.
Fits(s, f) ==
    /\ f \in Legals
    /\ ~Has(s, Lasts)
    /\ f \in Owns => Len(s) < MaxNest /\ ~Has(s, FrameSet \ Bases)
    /\ Has(s, IrqLocks) => f.sec = "irqlock" /\ f.fn \in {"enter", "in"}
    /\ f.sec \in {"guard", "fresh"} => s = <<>>
    /\ f.fn \in Calls /\ f.sec # "irq" => s = <<>> \/ Tip(s).fn = "spin"
    /\ f.fn \in Calls \/ f.sec = "preempt" => ~Has(s, Opens)
    /\ f.fn = "enter" => ~Has(s, Bkls)
    /\ f.sec = "schedule" => ~Has(s, Harders)
    /\ f.sec = "preempt" => Tip(s).fn = "disp"
    /\ f.sec = "irq" => Tip(s) \notin Maskeds

Good(s) == \A i \in 1..Len(s) : Fits(SubSeq(s, 1, i - 1), s[i])

\* The count of a stack.
Tally(s, F) == Cardinality({i \in 1..Len(s) : s[i] \in F})
Total(s) ==
    Tally(s, OpenAt(1)) * Weight[1] + Tally(s, OpenAt(2)) * Weight[2]
      + Tally(s, OpenAt(3)) * Weight[3] + Tally(s, OpenAt(4)) * Weight[4]

\* What a frame adds to it.
Val(f) ==
    (IF f \in OpenAt(1) THEN Weight[1] ELSE 0) + (IF f \in OpenAt(2) THEN Weight[2] ELSE 0)
      + (IF f \in OpenAt(3) THEN Weight[3] ELSE 0) + (IF f \in OpenAt(4) THEN Weight[4] ELSE 0)

\* Pushing a frame.
LEMMA PushIs ==
    ASSUME NEW s \in Seq(FrameSet), NEW f \in FrameSet
    PROVE  LET r == Append(s, f)
           IN  /\ r \in Seq(FrameSet) /\ r # <<>>
               /\ Len(s) \in Nat /\ Len(r) = Len(s) + 1
               /\ \A i \in 1..Len(s) : r[i] = s[i]
               /\ r[Len(s) + 1] = f /\ Tip(r) = f
BY AppendProperties DEF Tip

LEMMA HasPush ==
    ASSUME NEW s \in Seq(FrameSet), NEW f \in FrameSet, NEW F
    PROVE  Has(Append(s, f), F) <=> Has(s, F) \/ f \in F
<1>1. PICK r : r = Append(s, f)
  OBVIOUS
<1>2. /\ Len(s) \in Nat /\ Len(r) = Len(s) + 1
      /\ \A i \in 1..Len(s) : r[i] = s[i]
      /\ r[Len(s) + 1] = f
  BY <1>1, PushIs
<1>3. Has(r, F) => Has(s, F) \/ f \in F
  <2>1. \A i \in 1..Len(r) : i \in 1..Len(s) \/ i = Len(s) + 1
    BY <1>2
  <2> QED
    BY <2>1, <1>2 DEF Has
<1>4. Has(s, F) \/ f \in F => Has(r, F)
  <2>1. Len(s) + 1 \in 1..Len(r) /\ \A i \in 1..Len(s) : i \in 1..Len(r)
    BY <1>2
  <2> QED
    BY <2>1, <1>2 DEF Has
<1> QED
  BY <1>1, <1>3, <1>4

LEMMA HasEmpty == ASSUME NEW F PROVE ~Has(<<>>, F)
BY DEF Has

\* A stack is empty, or a frame on a stack.
LEMMA PopIs ==
    ASSUME NEW s \in Seq(FrameSet), s # <<>>
    PROVE  /\ Front(s) \in Seq(FrameSet) /\ s[Len(s)] \in FrameSet
           /\ s = Append(Front(s), s[Len(s)])
<1>1. Len(s) \in Nat /\ Len(s) # 0
  BY EmptySeq
<1>2. PICK n \in Nat : n = Len(s) - 1 /\ n + 1 = Len(s)
  BY <1>1
<1>3. PICK q : q = SubSeq(s, 1, n)
  OBVIOUS
<1>4. q \in Seq(FrameSet) /\ Len(q) = n /\ \A i \in 1..n : q[i] = s[i]
  BY <1>2, <1>3
<1>5. s[n + 1] \in FrameSet
  BY <1>2, ElementOfSeq
<1>6. PICK r : r = Append(q, s[n + 1])
  OBVIOUS
<1>7. r \in Seq(FrameSet) /\ Len(r) = n + 1 /\ (\A i \in 1..n : r[i] = q[i]) /\ r[n + 1] = s[n + 1]
  BY <1>4, <1>5, <1>6, PushIs
<1>8. \A i \in 1..Len(s) : r[i] = s[i]
  <2>1. \A i \in 1..Len(s) : i \in 1..n \/ i = n + 1
    BY <1>2
  <2> QED
    BY <2>1, <1>4, <1>7
<1>9. r = s
  BY <1>2, <1>7, <1>8, SeqEqual
<1> QED
  BY <1>2, <1>3, <1>4, <1>5, <1>6, <1>9 DEF Front

LEMMA PairIs == ASSUME NEW g \in FrameSet, NEW h \in FrameSet PROVE <<g, h>> = <<g>> \o <<h>>
<1>1. <<g>> \in Seq(FrameSet) /\ <<h>> \in Seq(FrameSet)
  OBVIOUS
<1>2. PICK r : r = Append(<<g>>, h)
  OBVIOUS
<1>3. r \in Seq(FrameSet) /\ Len(r) = 2 /\ r[1] = g /\ r[2] = h
  BY <1>1, <1>2
<1>4. <<g, h>> \in Seq(FrameSet) /\ Len(<<g, h>>) = 2 /\ <<g, h>>[1] = g /\ <<g, h>>[2] = h
  OBVIOUS
<1>5. PICK p : p = <<g, h>>
  OBVIOUS
<1>6. \A i \in 1..2 : i = 1 \/ i = 2
  OBVIOUS
<1>7. r = p
  BY <1>3, <1>4, <1>5, <1>6, SeqEqual
<1>8. Append(<<g>>, h) = <<g>> \o <<h>>
  BY <1>1, AppendIsConcat
<1> QED
  BY <1>2, <1>5, <1>7, <1>8

\* Replacing the last frame.
LEMMA ReplaceIs ==
    ASSUME NEW q \in Seq(FrameSet), NEW f \in FrameSet
    PROVE  /\ Front(Append(q, f)) = q
           /\ q \o <<>> = q
           /\ \A g \in FrameSet : q \o <<g>> = Append(q, g)
           /\ \A g, h \in FrameSet : q \o <<g, h>> = Append(Append(q, g), h)
<1>1. Front(Append(q, f)) = q
  <2>1. PICK r : r = Append(q, f)
    OBVIOUS
  <2>2. r \in Seq(FrameSet) /\ Len(r) = Len(q) + 1 /\ Len(q) \in Nat /\ \A i \in 1..Len(q) : r[i] = q[i]
    BY <2>1, PushIs
  <2>3. PICK n \in Nat : n = Len(q) /\ Len(r) - 1 = n
    BY <2>2
  <2>4. PICK p : p = SubSeq(r, 1, n)
    OBVIOUS
  <2>5. p \in Seq(FrameSet) /\ Len(p) = n /\ \A i \in 1..n : p[i] = r[i]
    BY <2>2, <2>3, <2>4
  <2>6. p = q
    BY <2>2, <2>3, <2>5, SeqEqual
  <2> QED
    BY <2>1, <2>3, <2>4, <2>6 DEF Front
<1>2. q \o <<>> = q
  BY ConcatEmptySeq
<1>3. ASSUME NEW g \in FrameSet PROVE q \o <<g>> = Append(q, g)
  BY AppendIsConcat
<1>4. ASSUME NEW g \in FrameSet, NEW h \in FrameSet PROVE q \o <<g, h>> = Append(Append(q, g), h)
  <2>2. <<g>> \in Seq(FrameSet) /\ <<h>> \in Seq(FrameSet)
    OBVIOUS
  <2>1. <<g, h>> = <<g>> \o <<h>>
    BY PairIs
  <2>3. q \o (<<g>> \o <<h>>) = (q \o <<g>>) \o <<h>>
    BY <2>2, ConcatAssociative
  <2>4. Append(q, g) \in Seq(FrameSet)
    BY PushIs
  <2>5. Append(q, g) \o <<h>> = Append(Append(q, g), h)
    BY <2>4, <1>3
  <2> QED
    BY <2>1, <2>3, <2>5, <1>3
<1> QED
  BY <1>1, <1>2, <1>3, <1>4

\* Goodness of a stack is goodness of each push.
LEMMA GoodPush ==
    ASSUME NEW s \in Seq(FrameSet), NEW f \in FrameSet
    PROVE  Good(Append(s, f)) <=> Good(s) /\ Fits(s, f)
<1>1. PICK r : r = Append(s, f)
  OBVIOUS
<1>2. /\ r \in Seq(FrameSet)
      /\ Len(s) \in Nat /\ Len(r) = Len(s) + 1
      /\ \A i \in 1..Len(s) : r[i] = s[i]
      /\ r[Len(s) + 1] = f
  BY <1>1, PushIs
<1>3. PICK n \in Nat : n = Len(s)
  BY <1>2
<1>4. ASSUME NEW m \in 0..n PROVE SubSeq(r, 1, m) = SubSeq(s, 1, m)
  <2>1. /\ SubSeq(r, 1, m) \in Seq(FrameSet) /\ Len(SubSeq(r, 1, m)) = m
        /\ \A i \in 1..m : SubSeq(r, 1, m)[i] = r[i]
    BY <1>2, <1>3
  <2>2. /\ SubSeq(s, 1, m) \in Seq(FrameSet) /\ Len(SubSeq(s, 1, m)) = m
        /\ \A i \in 1..m : SubSeq(s, 1, m)[i] = s[i]
    BY <1>2, <1>3
  <2>3. \A i \in 1..m : r[i] = s[i]
    BY <1>2, <1>3
  <2> QED
    BY <2>1, <2>2, <2>3, SeqEqual
<1>5. SubSeq(s, 1, n) = s
  <2>1. /\ SubSeq(s, 1, n) \in Seq(FrameSet) /\ Len(SubSeq(s, 1, n)) = n
        /\ \A i \in 1..n : SubSeq(s, 1, n)[i] = s[i]
    BY <1>3
  <2> QED
    BY <2>1, <1>3, SeqEqual
<1>6. \A i \in 1..(n + 1) : i \in 1..n \/ i = n + 1
  OBVIOUS
<1>7. ASSUME NEW i \in 1..n PROVE Fits(SubSeq(r, 1, i - 1), r[i]) <=> Fits(SubSeq(s, 1, i - 1), s[i])
  <2>1. PICK m \in 0..n : m = i - 1
    OBVIOUS
  <2>2. SubSeq(r, 1, i - 1) = SubSeq(s, 1, i - 1) /\ r[i] = s[i]
    BY <2>1, <1>2, <1>3, <1>4
  <2> QED
    BY <2>2, Zenon
<1>20. PICK k \in 1..(n + 1) : k = n + 1
  OBVIOUS
<1>8. Fits(SubSeq(r, 1, k - 1), r[k]) <=> Fits(s, f)
  <2>1. PICK m \in 0..n : m = n /\ k - 1 = m
    BY <1>20
  <2>2. SubSeq(r, 1, k - 1) = s /\ r[k] = f
    BY <2>1, <1>20, <1>2, <1>3, <1>4, <1>5
  <2> QED
    BY <2>2, Zenon
<1>9. Good(r) <=> \A i \in 1..(n + 1) : Fits(SubSeq(r, 1, i - 1), r[i])
  BY <1>2, <1>3 DEF Good
<1>10. Good(s) <=> \A i \in 1..n : Fits(SubSeq(s, 1, i - 1), s[i])
  BY <1>3 DEF Good
<1>11. n + 1 \in 1..(n + 1) /\ \A i \in 1..n : i \in 1..(n + 1)
  OBVIOUS
<1>12. ASSUME Good(r) PROVE Good(s) /\ Fits(s, f)
  <2>1. \A i \in 1..(n + 1) : Fits(SubSeq(r, 1, i - 1), r[i])
    BY <1>12, <1>9, Zenon
  <2>2. \A i \in 1..n : Fits(SubSeq(s, 1, i - 1), s[i])
    <3> TAKE i \in 1..n
    <3>1. Fits(SubSeq(r, 1, i - 1), r[i])
      BY <2>1, <1>11
    <3> QED
      BY <3>1, <1>7
  <2>3. Fits(SubSeq(r, 1, k - 1), r[k])
    BY <2>1, Zenon
  <2> QED
    BY <2>2, <2>3, <1>8, <1>10, Zenon
<1>13. ASSUME Good(s), Fits(s, f) PROVE Good(r)
  <2>1. ASSUME NEW i \in 1..(n + 1) PROVE Fits(SubSeq(r, 1, i - 1), r[i])
    <3>1. CASE i \in 1..n
      <4>1. Fits(SubSeq(s, 1, i - 1), s[i])
        BY <3>1, <1>10, <1>13
      <4> QED
        BY <4>1, <3>1, <1>7
    <3>2. CASE i = n + 1
      <4>1. i = k
        BY <3>2, <1>20
      <4> QED
        BY <4>1, <1>8, <1>13, Zenon
    <3> QED
      BY <3>1, <3>2, <1>6
  <2> QED
    BY <2>1, <1>9, Zenon
<1> QED
  BY <1>1, <1>12, <1>13, Zenon

LEMMA GoodEmpty == Good(<<>>)
BY DEF Good

-----------------------------------------------------------------------------
(* Counting.                                                                 *)

LEMMA TallyPush ==
    ASSUME NEW s \in Seq(FrameSet), NEW f \in FrameSet, NEW F
    PROVE  /\ Tally(s, F) \in Nat
           /\ Tally(Append(s, f), F) = Tally(s, F) + (IF f \in F THEN 1 ELSE 0)
<1>1. PICK r : r = Append(s, f)
  OBVIOUS
<1>2. /\ Len(s) \in Nat /\ Len(r) = Len(s) + 1
      /\ \A i \in 1..Len(s) : r[i] = s[i]
      /\ r[Len(s) + 1] = f
  BY <1>1, PushIs
<1>3. PICK n \in Nat : n = Len(s)
  BY <1>2
<1> DEFINE I == {i \in 1..n : s[i] \in F}
           J == {i \in 1..(n + 1) : r[i] \in F}
<1>4. IsFiniteSet(I) /\ Cardinality(I) \in Nat
  <2>1. IsFiniteSet(1..n)
    BY FS_Interval
  <2>2. I \in SUBSET (1..n)
    OBVIOUS
  <2> HIDE DEF I
  <2> QED
    BY <2>1, <2>2, FS_Subset, FS_CardinalityType
<1>5. J = IF f \in F THEN I \cup {n + 1} ELSE I
  <2>1. \A i : i \in 1..(n + 1) <=> i \in 1..n \/ i = n + 1
    OBVIOUS
  <2>2. \A i \in 1..n : r[i] = s[i]
    BY <1>2, <1>3
  <2>3. r[n + 1] = f
    BY <1>2, <1>3
  <2> QED
    BY <2>1, <2>2, <2>3
<1>6. n + 1 \notin I
  OBVIOUS
<1>7. Cardinality(J) = Cardinality(I) + (IF f \in F THEN 1 ELSE 0)
  <2> HIDE DEF I, J
  <2>1. Cardinality(I \cup {n + 1}) = Cardinality(I) + 1
    BY <1>4, <1>6, FS_AddElement
  <2> QED
    BY <1>4, <1>5, <2>1
<1>8. Tally(s, F) = Cardinality(I) /\ Tally(r, F) = Cardinality(J)
  BY <1>2, <1>3 DEF Tally
<1> HIDE DEF I, J
<1> QED
  BY <1>1, <1>4, <1>7, <1>8

LEMMA TallyEmpty == ASSUME NEW F PROVE Tally(<<>>, F) = 0
<1>1. {i \in 1..Len(<<>>) : <<>>[i] \in F} = {}
  OBVIOUS
<1> QED
  BY <1>1, FS_EmptySet DEF Tally

\* Nothing is counted exactly when nothing is there.
LEMMA TallyHas ==
    ASSUME NEW s \in Seq(FrameSet), NEW F
    PROVE  Tally(s, F) \in Nat /\ (Tally(s, F) = 0 <=> ~Has(s, F))
<1>1. PICK n \in Nat : n = Len(s)
  OBVIOUS
<1> DEFINE I == {i \in 1..n : s[i] \in F}
<1>2. IsFiniteSet(I)
  <2>1. IsFiniteSet(1..n)
    BY FS_Interval
  <2>2. I \in SUBSET (1..n)
    OBVIOUS
  <2> HIDE DEF I
  <2> QED
    BY <2>1, <2>2, FS_Subset
<1>3. Tally(s, F) = Cardinality(I) /\ (Has(s, F) <=> I # {})
  BY <1>1 DEF Tally, Has
<1> HIDE DEF I
<1> QED
  BY <1>2, <1>3, FS_EmptySet, FS_CardinalityType

\* What is only found at the first m positions is counted to m at most.
LEMMA TallyBound ==
    ASSUME NEW s \in Seq(FrameSet), NEW F, NEW m \in Nat,
           \A i \in 1..Len(s) : s[i] \in F => i <= m
    PROVE  Tally(s, F) \in 0..m
<1>1. PICK n \in Nat : n = Len(s)
  OBVIOUS
<1> DEFINE I == {i \in 1..n : s[i] \in F}
<1>2. I \in SUBSET (1..m)
  BY <1>1
<1>3. IsFiniteSet(1..m) /\ Cardinality(1..m) = m
  BY FS_Interval
<1>4. Tally(s, F) = Cardinality(I)
  BY <1>1 DEF Tally
<1> HIDE DEF I
<1>5. IsFiniteSet(I) /\ Cardinality(I) <= m
  BY <1>2, <1>3, FS_Subset
<1> QED
  BY <1>4, <1>5, FS_CardinalityType

\* What is only found at one position is counted once at most.
LEMMA TallyOnce ==
    ASSUME NEW s \in Seq(FrameSet), NEW F, NEW m,
           \A i \in 1..Len(s) : s[i] \in F => i = m
    PROVE  Tally(s, F) \in 0..1
<1> DEFINE I == {i \in 1..Len(s) : s[i] \in F}
<1>2. I \in SUBSET {m}
  OBVIOUS
<1>3. IsFiniteSet({m}) /\ Cardinality({m}) = 1
  BY FS_Singleton
<1>4. Tally(s, F) = Cardinality(I)
  BY DEF Tally
<1> HIDE DEF I
<1>5. IsFiniteSet(I) /\ Cardinality(I) <= 1
  BY <1>2, <1>3, FS_Subset
<1> QED
  BY <1>4, <1>5, FS_CardinalityType

LEMMA WeightIs ==
    /\ Radix \in Nat /\ Radix > 1 /\ MaxNest \in Nat /\ MaxNest < Radix
    /\ Weight[1] = 1 /\ Weight[2] = Radix
    /\ Weight[3] = Radix * Radix /\ Weight[4] = Radix * Radix * Radix
    /\ \A i \in 1..4 : Weight[i] \in Nat /\ Weight[i] > 0
<1>1. /\ Radix \in Nat /\ Radix > 1 /\ MaxNest \in Nat /\ MaxNest < Radix
  BY CriticalAssumption
<1>2. /\ Weight[1] = 1 /\ Weight[2] = Radix
      /\ Weight[3] = Radix * Radix /\ Weight[4] = Radix * Radix * Radix
  BY DEF Weight
<1>3. Radix * Radix \in Nat /\ Radix * Radix > 0
  BY <1>1
<1>4. Radix * Radix * Radix \in Nat /\ Radix * Radix * Radix > 0
  BY <1>1, <1>3
<1> QED
  BY <1>1, <1>2, <1>3, <1>4

\* Pushing a frame adds what it counts for.
LEMMA TotalPush ==
    ASSUME NEW s \in Seq(FrameSet), NEW f \in FrameSet
    PROVE  /\ Total(s) \in Nat /\ Val(f) \in Nat
           /\ Total(Append(s, f)) = Total(s) + Val(f)
<1>1. ASSUME NEW i \in 1..4
      PROVE  /\ Tally(s, OpenAt(i)) * Weight[i] \in Nat
             /\ Tally(Append(s, f), OpenAt(i)) * Weight[i] =
                    Tally(s, OpenAt(i)) * Weight[i] + (IF f \in OpenAt(i) THEN Weight[i] ELSE 0)
  <2>1. PICK a \in Nat : a = Tally(s, OpenAt(i))
    BY TallyPush
  <2>2. PICK w \in Nat : w = Weight[i]
    BY WeightIs
  <2>3. Tally(Append(s, f), OpenAt(i)) = a + (IF f \in OpenAt(i) THEN 1 ELSE 0)
    BY <2>1, TallyPush
  <2>4. (a + 1) * w = a * w + w /\ a * w \in Nat /\ (a + 0) * w = a * w
    OBVIOUS
  <2>5. CASE f \in OpenAt(i)
    BY <2>1, <2>2, <2>3, <2>4, <2>5
  <2>6. CASE f \notin OpenAt(i)
    BY <2>1, <2>2, <2>3, <2>4, <2>6
  <2> QED
    BY <2>5, <2>6
<1>2. PICK a \in Nat, b \in Nat, c \in Nat, d \in Nat :
        /\ a = Tally(s, OpenAt(1)) * Weight[1] /\ b = Tally(s, OpenAt(2)) * Weight[2]
        /\ c = Tally(s, OpenAt(3)) * Weight[3] /\ d = Tally(s, OpenAt(4)) * Weight[4]
  BY <1>1
<1>3. Total(s) = a + b + c + d
  BY <1>2 DEF Total
<1>4. PICK w1 \in Nat, w2 \in Nat, w3 \in Nat, w4 \in Nat :
        /\ w1 = (IF f \in OpenAt(1) THEN Weight[1] ELSE 0)
        /\ w2 = (IF f \in OpenAt(2) THEN Weight[2] ELSE 0)
        /\ w3 = (IF f \in OpenAt(3) THEN Weight[3] ELSE 0)
        /\ w4 = (IF f \in OpenAt(4) THEN Weight[4] ELSE 0)
  BY WeightIs
<1>5. Val(f) = w1 + w2 + w3 + w4
  BY <1>4 DEF Val
<1>6. /\ Tally(Append(s, f), OpenAt(1)) * Weight[1] = a + w1
      /\ Tally(Append(s, f), OpenAt(2)) * Weight[2] = b + w2
      /\ Tally(Append(s, f), OpenAt(3)) * Weight[3] = c + w3
      /\ Tally(Append(s, f), OpenAt(4)) * Weight[4] = d + w4
  BY <1>1, <1>2, <1>4
<1>7. Total(Append(s, f)) = (a + w1) + (b + w2) + (c + w3) + (d + w4)
  BY <1>6 DEF Total
<1> QED
  BY <1>3, <1>5, <1>7

LEMMA TotalEmpty == Total(<<>>) = 0
<1>1. \A i \in 1..4 : Tally(<<>>, OpenAt(i)) = 0
  BY TallyEmpty
<1>2. 1 \in 1..4 /\ 2 \in 1..4 /\ 3 \in 1..4 /\ 4 \in 1..4
  OBVIOUS
<1> QED
  BY <1>1, <1>2, WeightIs DEF Total

\* What the kinds of frames count for.
LEMMA ValIs ==
    ASSUME NEW f \in FrameSet
    PROVE  /\ f.fn \notin Openers => Val(f) = 0
           /\ f.fn \in Openers /\ f.fn # "pick" => Val(f) = Unit(f.sec)
           /\ f.fn = "pick" /\ Level(f.sec) = 4 => Val(f) = Unit(f.sec) + Unit("rq")
           /\ Unit(f.sec) \in Nat
<1>1. Level(f.sec) \in 1..4 /\ Level("rq") = 3
  BY DEF Level
<1>2. /\ f \in OpenAt(1) <=> f.fn \in Openers /\ Level(f.sec) = 1
      /\ f \in OpenAt(2) <=> f.fn \in Openers /\ Level(f.sec) = 2
      /\ f \in OpenAt(3) <=> f.fn \in Openers /\ (Level(f.sec) = 3 \/ f.fn = "pick")
      /\ f \in OpenAt(4) <=> f.fn \in Openers /\ Level(f.sec) = 4
  BY DEF OpenAt, Openers
<1>3. "pick" \in Openers
  BY DEF Openers
<1>4. PICK l \in 1..4 : l = Level(f.sec)
  BY <1>1
<1>5. l = 1 \/ l = 2 \/ l = 3 \/ l = 4
  OBVIOUS
<1>6. PICK w1 \in Nat, w2 \in Nat, w3 \in Nat, w4 \in Nat :
        w1 = Weight[1] /\ w2 = Weight[2] /\ w3 = Weight[3] /\ w4 = Weight[4]
  BY WeightIs
<1>7. Val(f) = (IF f \in OpenAt(1) THEN w1 ELSE 0) + (IF f \in OpenAt(2) THEN w2 ELSE 0)
                + (IF f \in OpenAt(3) THEN w3 ELSE 0) + (IF f \in OpenAt(4) THEN w4 ELSE 0)
  BY <1>6 DEF Val
<1>8. Unit(f.sec) = Weight[l] /\ Unit("rq") = w3
  BY <1>1, <1>4, <1>6 DEF Unit
<1> QED
  BY <1>2, <1>3, <1>4, <1>5, <1>6, <1>7, <1>8

\* What goodness says about a position.
LEMMA GoodAt ==
    ASSUME NEW s \in Seq(FrameSet), Good(s), NEW i \in 1..Len(s)
    PROVE  /\ s[i] \in Legals
           /\ \A j \in 1..(i - 1) : s[j] \in FrameSet /\ s[j] \notin Lasts
           /\ s[i] \in Owns => i <= MaxNest /\ \A j \in 1..(i - 1) : s[j] \in Bases
           /\ s[i].sec = "preempt" => \A j \in 1..(i - 1) : s[j] \notin Opens
           /\ s[i].sec = "schedule" => \A j \in 1..(i - 1) : s[j] \notin Harders
           /\ s[i].sec \in {"guard", "fresh"} => i = 1
<1>1. Len(s) \in Nat /\ \A j \in 1..Len(s) : s[j] \in FrameSet
  BY ElementOfSeq
<1>2. PICK n \in Nat : n = i - 1 /\ n < Len(s) /\ i = n + 1
  BY <1>1
<1>3. PICK q : q = SubSeq(s, 1, n)
  OBVIOUS
<1>4. q \in Seq(FrameSet) /\ Len(q) = n /\ \A j \in 1..n : q[j] = s[j]
  BY <1>1, <1>2, <1>3
<1>5. Fits(q, s[i])
  BY <1>2, <1>3 DEF Good
<1>6. \A F : Has(q, F) <=> \E j \in 1..n : s[j] \in F
  BY <1>4 DEF Has
<1>7. \A j \in 1..n : s[j] \in FrameSet
  BY <1>1, <1>2
<1>8. q = <<>> => n = 0
  BY <1>4
<1>9. /\ s[i] \in Legals
      /\ \A j \in 1..n : s[j] \in FrameSet /\ s[j] \notin Lasts
      /\ s[i] \in Owns => n < MaxNest /\ \A j \in 1..n : s[j] \in Bases
      /\ s[i].sec = "preempt" => \A j \in 1..n : s[j] \notin Opens
      /\ s[i].sec = "schedule" => \A j \in 1..n : s[j] \notin Harders
      /\ s[i].sec \in {"guard", "fresh"} => n = 0
  BY <1>4, <1>5, <1>6, <1>7, <1>8 DEF Fits
<1>10. n < MaxNest => i <= MaxNest
  BY <1>2, WeightIs
<1> QED
  BY <1>2, <1>9, <1>10

\* The frames of a level in a good stack.
LEMMA LegalOpens ==
    ASSUME NEW f \in Legals
    PROVE  /\ f \in FrameSet
           /\ f \in OpenAt(1) <=> f \in IrqLocks
           /\ f \in OpenAt(2) => f \in Lasts
           /\ f \in OpenAt(1) \cup OpenAt(3) \cup OpenAt(4) =>
                 f \in Owns \/ (f \notin Bases /\ f.sec \in {"preempt", "fresh"})
           /\ f \in Opens <=> f \in OpenAt(1) \/ f \in OpenAt(2) \/ f \in OpenAt(3) \/ f \in OpenAt(4)
           /\ f \in Bkls <=> f \in OpenAt(1) \/ f \in OpenAt(2) \/ f \in OpenAt(4)
           /\ f \in Harders <=> f \in OpenAt(1) \/ f \in OpenAt(2) \/ f \in OpenAt(3)
<1> USE DEF Legals, FrameSet, OpenAt, Openers, Level, Calls
<1>1. f \in FrameSet /\ (f \in OpenAt(1) <=> f \in IrqLocks)
  BY DEF IrqLocks
<1>2. f \in OpenAt(2) => f \in Lasts
  BY DEF Lasts, Maskeds, IrqLocks
<1>3. f \in OpenAt(1) \cup OpenAt(3) \cup OpenAt(4) =>
        f \in Owns \/ (f \notin Bases /\ f.sec \in {"preempt", "fresh"})
  BY DEF Owns, Bases
<1>4. f \in Opens <=> f \in OpenAt(1) \/ f \in OpenAt(2) \/ f \in OpenAt(3) \/ f \in OpenAt(4)
  BY DEF Opens
<1>5. f \in Bkls <=> f \in OpenAt(1) \/ f \in OpenAt(2) \/ f \in OpenAt(4)
  BY DEF Bkls
<1>6. f \in Harders <=> f \in OpenAt(1) \/ f \in OpenAt(2) \/ f \in OpenAt(3)
  BY DEF Harders
<1> QED
  BY <1>1, <1>2, <1>3, <1>4, <1>5, <1>6, Zenon

\* A level has less than Radix open sections: the thread's own ones nest to
\* MaxNest, and sched_preempt(), the start of a thread and an interrupt are alone
\* on their level.
LEMMA TallyFits ==
    ASSUME NEW s \in Seq(FrameSet), Good(s), NEW l \in 1..4
    PROVE  Tally(s, OpenAt(l)) \in 0..(Radix - 1)
<1>1. Radix \in Nat /\ Radix > 1 /\ MaxNest \in Nat /\ MaxNest < Radix /\ Len(s) \in Nat
  BY WeightIs
<1>2. ASSUME NEW i \in 1..Len(s), NEW j \in 1..Len(s), j < i PROVE j \in 1..(i - 1)
  BY <1>1, <1>2
<1>3. SUFFICES Tally(s, OpenAt(l)) \in 0..1 \/ Tally(s, OpenAt(l)) \in 0..MaxNest
  BY <1>1
<1>4. CASE l = 2
  <2>1. ASSUME NEW i \in 1..Len(s), s[i] \in OpenAt(l) PROVE i = Len(s)
    <3>1. s[i] \in Lasts
      BY <2>1, <1>4, GoodAt, LegalOpens
    <3>2. PICK n \in 1..Len(s) : n = Len(s)
      BY <1>1
    <3>3. ~(i < n)
      BY <3>1, <1>2, GoodAt
    <3> QED
      BY <3>2, <3>3, <1>1
  <2> QED
    BY <2>1, TallyOnce
<1>5. CASE l # 2
  <2>1. ASSUME NEW i \in 1..Len(s), s[i] \in OpenAt(l)
        PROVE  /\ s[i] \in Opens
               /\ s[i] \in Owns \/ (s[i] \notin Bases /\ s[i].sec \in {"preempt", "fresh"})
    <3>1. s[i] \in Legals
      BY GoodAt
    <3>2. l = 1 \/ l = 3 \/ l = 4
      BY <1>5
    <3> QED
      BY <3>1, <3>2, <2>1, LegalOpens
  <2>2. CASE \A i \in 1..Len(s) : s[i] \in OpenAt(l) => s[i] \in Owns
    <3>1. \A i \in 1..Len(s) : s[i] \in OpenAt(l) => i <= MaxNest
      BY <2>2, GoodAt
    <3> QED
      BY <3>1, <1>1, TallyBound
  <2>3. ASSUME NEW i \in 1..Len(s), s[i] \in OpenAt(l), s[i] \notin Owns
        PROVE  Tally(s, OpenAt(l)) \in 0..1
    <3>1. s[i] \in Opens /\ s[i] \notin Bases /\ s[i].sec \in {"preempt", "fresh"}
      BY <2>1, <2>3
    <3>2. ASSUME NEW j \in 1..Len(s), s[j] \in OpenAt(l) PROVE j = i
      <4>1. s[j] \in Opens /\ (s[j] \in Owns \/ s[j].sec \in {"preempt", "fresh"})
        BY <2>1, <3>2
      <4>2. ~(j < i)
        <5> SUFFICES ASSUME j < i PROVE FALSE
          OBVIOUS
        <5>1. j \in 1..(i - 1) /\ i # 1
          BY <1>2, <1>1
        <5> QED
          BY <5>1, <4>1, <3>1, GoodAt
      <4>3. ~(i < j)
        <5> SUFFICES ASSUME i < j PROVE FALSE
          OBVIOUS
        <5>1. i \in 1..(j - 1) /\ j # 1
          BY <1>2, <1>1
        <5> QED
          BY <5>1, <4>1, <3>1, GoodAt
      <4> QED
        BY <4>2, <4>3, <1>1
    <3> QED
      BY <3>2, TallyOnce
  <2> QED
    BY <2>2, <2>3
<1> QED
  BY <1>4, <1>5

-----------------------------------------------------------------------------
(* The digits of a count.                                                    *)

\* Quotient and remainder.
LEMMA QuotientIs ==
    ASSUME NEW b \in Nat \ {0}, NEW w \in Nat, NEW r \in 0..(b - 1)
    PROVE  (w * b + r) \div b = w /\ (w * b + r) % b = r
OBVIOUS

\* The number with the given digits to the base Radix.
Number(a, b, c, d) == a * Weight[1] + b * Weight[2] + c * Weight[3] + d * Weight[4]

LEMMA NumberZero ==
    ASSUME NEW a, NEW b, NEW c, NEW d, a \in Nat, b \in Nat, c \in Nat, d \in Nat
    PROVE  /\ Number(a, b, c, d) \in Nat
           /\ Number(a, b, c, d) = 0 <=> a = 0 /\ b = 0 /\ c = 0 /\ d = 0
<1>1. ASSUME NEW k \in Nat, NEW i \in 1..4
      PROVE  k * Weight[i] \in Nat /\ (k * Weight[i] = 0 <=> k = 0)
  <2>1. PICK w \in Nat : w = Weight[i] /\ w > 0
    BY WeightIs
  <2>2. k * w \in Nat /\ (k * w = 0 <=> k = 0)
    BY <2>1
  <2> QED
    BY <2>1, <2>2
<1>2. PICK A \in Nat : A = a * Weight[1] /\ (A = 0 <=> a = 0)
  BY <1>1
<1>3. PICK B \in Nat : B = b * Weight[2] /\ (B = 0 <=> b = 0)
  BY <1>1
<1>4. PICK C \in Nat : C = c * Weight[3] /\ (C = 0 <=> c = 0)
  BY <1>1
<1>5. PICK D \in Nat : D = d * Weight[4] /\ (D = 0 <=> d = 0)
  BY <1>1
<1>6. PICK n \in Nat : n = A + B + C + D
  OBVIOUS
<1>7. n = Number(a, b, c, d)
  BY <1>2, <1>3, <1>4, <1>5, <1>6, Zenon DEF Number
<1>8. n = 0 <=> A = 0 /\ B = 0 /\ C = 0 /\ D = 0
  BY <1>6
<1> QED
  BY <1>2, <1>3, <1>4, <1>5, <1>7, <1>8, Zenon

\* One section more on a level.
LEMMA NumberNext1 ==
    ASSUME NEW a, NEW b, NEW c, NEW d, NEW e,
           a \in Nat, b \in Nat, c \in Nat, d \in Nat, e = a + 1
    PROVE  Number(e, b, c, d) = Number(a, b, c, d) + Weight[1]
<1>1. PICK w \in Nat : w = Weight[1]
  BY WeightIs
<1>2. a * Weight[1] \in Nat /\ e * Weight[1] = a * Weight[1] + w
  <2>1. (a + 1) * w = a * w + w /\ a * w \in Nat
    OBVIOUS
  <2> QED
    BY <2>1, <1>1
<1>3. \A k \in Nat, i \in 1..4 : k * Weight[i] \in Nat
  <2>1. \A k \in Nat, u \in Nat : k * u \in Nat
    OBVIOUS
  <2> QED
    BY <2>1, WeightIs
<1>4. PICK A \in Nat : A = a * Weight[1]
  BY <1>3
<1>5. PICK B \in Nat : B = b * Weight[2]
  BY <1>3
<1>6. PICK C \in Nat : C = c * Weight[3]
  BY <1>3
<1>7. PICK D \in Nat : D = d * Weight[4]
  BY <1>3
<1>8. Number(a, b, c, d) = A + B + C + D /\ Number(e, b, c, d) = (A + w) + B + C + D
  BY <1>2, <1>4, <1>5, <1>6, <1>7, Zenon DEF Number
<1>9. (A + w) + B + C + D = (A + B + C + D) + w
  OBVIOUS
<1> QED
  BY <1>1, <1>8, <1>9, Zenon

LEMMA NumberNext2 ==
    ASSUME NEW a, NEW b, NEW c, NEW d, NEW e,
           a \in Nat, b \in Nat, c \in Nat, d \in Nat, e = b + 1
    PROVE  Number(a, e, c, d) = Number(a, b, c, d) + Weight[2]
<1>1. PICK w \in Nat : w = Weight[2]
  BY WeightIs
<1>2. b * Weight[2] \in Nat /\ e * Weight[2] = b * Weight[2] + w
  <2>1. (b + 1) * w = b * w + w /\ b * w \in Nat
    OBVIOUS
  <2> QED
    BY <2>1, <1>1
<1>3. \A k \in Nat, i \in 1..4 : k * Weight[i] \in Nat
  <2>1. \A k \in Nat, u \in Nat : k * u \in Nat
    OBVIOUS
  <2> QED
    BY <2>1, WeightIs
<1>4. PICK A \in Nat : A = a * Weight[1]
  BY <1>3
<1>5. PICK B \in Nat : B = b * Weight[2]
  BY <1>3
<1>6. PICK C \in Nat : C = c * Weight[3]
  BY <1>3
<1>7. PICK D \in Nat : D = d * Weight[4]
  BY <1>3
<1>8. Number(a, b, c, d) = A + B + C + D /\ Number(a, e, c, d) = A + (B + w) + C + D
  BY <1>2, <1>4, <1>5, <1>6, <1>7, Zenon DEF Number
<1>9. A + (B + w) + C + D = (A + B + C + D) + w
  OBVIOUS
<1> QED
  BY <1>1, <1>8, <1>9, Zenon

LEMMA NumberNext4 ==
    ASSUME NEW a, NEW b, NEW c, NEW d, NEW e,
           a \in Nat, b \in Nat, c \in Nat, d \in Nat, e = d + 1
    PROVE  Number(a, b, c, e) = Number(a, b, c, d) + Weight[4]
<1>1. PICK w \in Nat : w = Weight[4]
  BY WeightIs
<1>2. d * Weight[4] \in Nat /\ e * Weight[4] = d * Weight[4] + w
  <2>1. (d + 1) * w = d * w + w /\ d * w \in Nat
    OBVIOUS
  <2> QED
    BY <2>1, <1>1
<1>3. \A k \in Nat, i \in 1..4 : k * Weight[i] \in Nat
  <2>1. \A k \in Nat, u \in Nat : k * u \in Nat
    OBVIOUS
  <2> QED
    BY <2>1, WeightIs
<1>4. PICK A \in Nat : A = a * Weight[1]
  BY <1>3
<1>5. PICK B \in Nat : B = b * Weight[2]
  BY <1>3
<1>6. PICK C \in Nat : C = c * Weight[3]
  BY <1>3
<1>7. PICK D \in Nat : D = d * Weight[4]
  BY <1>3
<1>8. Number(a, b, c, d) = A + B + C + D /\ Number(a, b, c, e) = A + B + C + (D + w)
  BY <1>2, <1>4, <1>5, <1>6, <1>7, Zenon DEF Number
<1>9. A + B + C + (D + w) = (A + B + C + D) + w
  OBVIOUS
<1> QED
  BY <1>1, <1>8, <1>9, Zenon

\* Its digits are what the code takes out of it.
LEMMA DigitsAre ==
    ASSUME NEW a \in 0..(Radix - 1), NEW b \in 0..(Radix - 1),
           NEW c \in 0..(Radix - 1), NEW d \in 0..(Radix - 1)
    PROVE  /\ Number(a, b, c, d) \in 0..(Radix * Weight[4] - 1)
           /\ Field(Number(a, b, c, d), 1) = a /\ Field(Number(a, b, c, d), 2) = b
           /\ Field(Number(a, b, c, d), 3) = c /\ Field(Number(a, b, c, d), 4) = d
           /\ BklPart(Number(a, b, c, d)) = Number(a, b, 0, d)
           /\ Number(a, b, c, d) % Weight[4] = Number(a, b, c, 0)
<1>0. PICK n : n = Number(a, b, c, d)
  OBVIOUS
<1>1. PICK R \in Nat \ {0} : R = Radix /\ R > 1
  BY WeightIs
<1>2. PICK S \in Nat \ {0} : S = R * R /\ S = Weight[3]
  BY <1>1, WeightIs
<1>3. PICK T \in Nat \ {0} : T = S * R /\ T = Weight[4]
  <2>1. Weight[4] \in Nat \ {0} /\ Weight[4] = Radix * Radix * Radix
    BY WeightIs
  <2> QED
    BY <2>1, <1>1, <1>2
<1>4. a \in Nat /\ b \in Nat /\ c \in Nat /\ d \in Nat /\ Weight[1] = 1 /\ Weight[2] = R
  BY <1>1, WeightIs
<1>5. PICK bR \in Nat : bR = b * R /\ bR + R <= S
  <2>1. b * R \in Nat
    BY <1>4
  <2>2. b * R + R = (b + 1) * R /\ (b + 1) * R <= R * R
    BY <1>1, <1>4
  <2> QED
    BY <2>1, <2>2, <1>2
<1>6. PICK cS \in Nat : cS = c * S /\ cS + S <= T
  <2>1. c * S \in Nat
    BY <1>4
  <2>2. c * S + S = (c + 1) * S /\ (c + 1) * S <= R * S
    BY <1>1, <1>2, <1>4
  <2> QED
    BY <2>1, <2>2, <1>3
<1>7. PICK dT \in Nat : dT = d * T /\ dT + T <= R * T
  <2>1. d * T \in Nat
    BY <1>4
  <2>2. d * T + T = (d + 1) * T /\ (d + 1) * T <= R * T
    BY <1>1, <1>3, <1>4
  <2> QED
    BY <2>1, <2>2
<1>8. n = a + bR + cS + dT
  BY <1>0, <1>1, <1>2, <1>3, <1>4, <1>5, <1>6, <1>7 DEF Number
<1>9. a + R <= R * 1 + a /\ a < R
  BY <1>1
<1>10. n \in 0..(Radix * Weight[4] - 1)
  <2>1. n \in Nat /\ n < R * T
    BY <1>5, <1>6, <1>7, <1>8, <1>9
  <2> QED
    BY <2>1, <1>1, <1>3
<1>11. n \div 1 = n /\ n % R = a /\ n \div R = b + c * R + d * S
  <2>1. PICK w \in Nat : w = b + c * R + d * S
    BY <1>4
  <2>2. w * R = b * R + c * S + d * T
    BY <2>1, <1>2, <1>3, <1>4
  <2>3. n = w * R + a
    BY <2>2, <1>4, <1>5, <1>6, <1>7, <1>8
  <2>4. a \in 0..(R - 1)
    BY <1>1
  <2>5. (w * R + a) \div R = w /\ (w * R + a) % R = a
    BY <2>4, QuotientIs
  <2>6. n \div 1 = n
    BY <1>10
  <2> QED
    BY <2>1, <2>3, <2>5, <2>6
<1>12. (b + c * R + d * S) % R = b
  <2>1. PICK w \in Nat : w = c + d * R
    BY <1>4
  <2>2. w * R + b = b + c * R + d * S
    BY <2>1, <1>2, <1>4
  <2>3. b \in 0..(R - 1)
    BY <1>1
  <2> QED
    BY <2>2, <2>3, QuotientIs
<1>13. n \div S = c + d * R /\ (c + d * R) % R = c
  <2>1. PICK w \in Nat : w = c + d * R
    BY <1>4
  <2>2. w * S = c * S + d * T
    BY <2>1, <1>3, <1>4
  <2>3. PICK r \in 0..(S - 1) : r = a + bR
    BY <1>4, <1>5, <1>9
  <2>4. n = w * S + r
    BY <2>2, <2>3, <1>4, <1>6, <1>7, <1>8
  <2>5. n \div S = w
    BY <2>4, QuotientIs
  <2>6. w = d * R + c /\ c \in 0..(R - 1)
    BY <2>1, <1>1, <1>4
  <2>7. w % R = c
    BY <2>6, <1>4, QuotientIs
  <2> QED
    BY <2>1, <2>5, <2>7
<1>14. n \div T = d /\ n % T = a + bR + cS /\ d % R = d
  <2>1. PICK r \in 0..(T - 1) : r = a + bR + cS
    BY <1>4, <1>5, <1>6, <1>9
  <2>2. n = d * T + r
    BY <2>1, <1>7, <1>8
  <2>3. (d * T + r) \div T = d /\ (d * T + r) % T = r
    BY <1>4, QuotientIs
  <2>4. d \in 0..(R - 1) /\ d = 0 * R + d
    BY <1>1
  <2>5. d % R = d
    BY <2>4, QuotientIs
  <2> QED
    BY <2>1, <2>2, <2>3, <2>5
<1>15. Field(n, 1) = a /\ Field(n, 2) = b /\ Field(n, 3) = c /\ Field(n, 4) = d
  BY <1>1, <1>2, <1>3, <1>4, <1>11, <1>12, <1>13, <1>14 DEF Field
<1>16. Unit("rq") = S
  BY <1>2 DEF Unit, Level
<1>17. BklPart(n) = a + bR + dT
  BY <1>15, <1>16, <1>6, <1>8, <1>4 DEF BklPart
<1>18. Number(a, b, 0, d) = a + bR + dT /\ Number(a, b, c, 0) = a + bR + cS
  BY <1>2, <1>3, <1>4, <1>5, <1>6, <1>7 DEF Number
<1> QED
  BY <1>0, <1>10, <1>15, <1>17, <1>14, <1>3, <1>18

\* What the count of a good stack tells about its open sections.
LEMMA CountTells ==
    ASSUME NEW s \in Seq(FrameSet), Good(s)
    PROVE  /\ Total(s) \in 0..(Radix * Weight[4] - 1)
           /\ \A l \in 1..4 : Field(Total(s), l) = Tally(s, OpenAt(l))
           /\ BklPart(Total(s)) =
                 Number(Tally(s, OpenAt(1)), Tally(s, OpenAt(2)), 0, Tally(s, OpenAt(4)))
           /\ Total(s) = 0 <=> ~Has(s, Opens)
           /\ BklPart(Total(s)) = 0 <=> ~Has(s, Bkls)
           /\ Total(s) % Weight[4] = 0 <=> ~Has(s, Harders)
           /\ Field(Total(s), 1) = 0 <=> ~Has(s, IrqLocks)
<1>1. PICK n : n = Total(s)
  OBVIOUS
<1>2. PICK a \in 0..(Radix - 1), b \in 0..(Radix - 1), c \in 0..(Radix - 1), d \in 0..(Radix - 1) :
        /\ a = Tally(s, OpenAt(1)) /\ b = Tally(s, OpenAt(2))
        /\ c = Tally(s, OpenAt(3)) /\ d = Tally(s, OpenAt(4))
  BY TallyFits
<1>3. n = Number(a, b, c, d)
  BY <1>1, <1>2 DEF Total, Number
<1>4. /\ n \in 0..(Radix * Weight[4] - 1)
      /\ Field(n, 1) = a /\ Field(n, 2) = b /\ Field(n, 3) = c /\ Field(n, 4) = d
      /\ BklPart(n) = Number(a, b, 0, d)
      /\ n % Weight[4] = Number(a, b, c, 0)
  <2>1. /\ Number(a, b, c, d) \in 0..(Radix * Weight[4] - 1)
        /\ Field(Number(a, b, c, d), 1) = a /\ Field(Number(a, b, c, d), 2) = b
        /\ Field(Number(a, b, c, d), 3) = c /\ Field(Number(a, b, c, d), 4) = d
        /\ BklPart(Number(a, b, c, d)) = Number(a, b, 0, d)
        /\ Number(a, b, c, d) % Weight[4] = Number(a, b, c, 0)
    BY DigitsAre
  <2> QED
    BY <2>1, <1>3
<1>5. a \in Nat /\ b \in Nat /\ c \in Nat /\ d \in Nat /\ 0 \in Nat
  BY WeightIs
<1>6. a = 0 <=> ~Has(s, OpenAt(1))
  BY <1>2, TallyHas
<1>7. b = 0 <=> ~Has(s, OpenAt(2))
  BY <1>2, TallyHas
<1>8. c = 0 <=> ~Has(s, OpenAt(3))
  BY <1>2, TallyHas
<1>9. d = 0 <=> ~Has(s, OpenAt(4))
  BY <1>2, TallyHas
<1>10. \A i \in 1..Len(s) :
        /\ s[i] \in OpenAt(1) <=> s[i] \in IrqLocks
        /\ s[i] \in Opens <=> s[i] \in OpenAt(1) \/ s[i] \in OpenAt(2) \/ s[i] \in OpenAt(3) \/ s[i] \in OpenAt(4)
        /\ s[i] \in Bkls <=> s[i] \in OpenAt(1) \/ s[i] \in OpenAt(2) \/ s[i] \in OpenAt(4)
        /\ s[i] \in Harders <=> s[i] \in OpenAt(1) \/ s[i] \in OpenAt(2) \/ s[i] \in OpenAt(3)
  BY GoodAt, LegalOpens
<1>11. Has(s, OpenAt(1)) <=> Has(s, IrqLocks)
  BY <1>10 DEF Has
<1>12. Has(s, Opens) <=> Has(s, OpenAt(1)) \/ Has(s, OpenAt(2)) \/ Has(s, OpenAt(3)) \/ Has(s, OpenAt(4))
  BY <1>10, Zenon DEF Has
<1>13. Has(s, Bkls) <=> Has(s, OpenAt(1)) \/ Has(s, OpenAt(2)) \/ Has(s, OpenAt(4))
  BY <1>10, Zenon DEF Has
<1>14. Has(s, Harders) <=> Has(s, OpenAt(1)) \/ Has(s, OpenAt(2)) \/ Has(s, OpenAt(3))
  BY <1>10, Zenon DEF Has
<1>15. n = 0 <=> ~Has(s, Opens)
  <2>1. Number(a, b, c, d) = 0 <=> a = 0 /\ b = 0 /\ c = 0 /\ d = 0
    BY <1>5, NumberZero
  <2> QED
    BY <2>1, <1>3, <1>6, <1>7, <1>8, <1>9, <1>12, Zenon
<1>16. BklPart(n) = 0 <=> ~Has(s, Bkls)
  <2>1. Number(a, b, 0, d) = 0 <=> a = 0 /\ b = 0 /\ d = 0
    BY <1>5, NumberZero
  <2> QED
    BY <2>1, <1>4, <1>6, <1>7, <1>9, <1>13, Zenon
<1>17. n % Weight[4] = 0 <=> ~Has(s, Harders)
  <2>1. Number(a, b, c, 0) = 0 <=> a = 0 /\ b = 0 /\ c = 0
    BY <1>5, NumberZero
  <2> QED
    BY <2>1, <1>4, <1>6, <1>7, <1>8, <1>14, Zenon
<1>18. Field(n, 1) = 0 <=> ~Has(s, IrqLocks)
  BY <1>4, <1>6, <1>11
<1>19. \A l \in 1..4 : Field(n, l) = Tally(s, OpenAt(l))
  <2>1. \A l \in 1..4 : l = 1 \/ l = 2 \/ l = 3 \/ l = 4
    OBVIOUS
  <2> QED
    BY <2>1, <1>2, <1>4
<1> QED
  BY <1>1, <1>2, <1>4, <1>15, <1>16, <1>17, <1>18, <1>19

\* critical_leave() of the last frame: the test for the last BKL section.
LEMMA LeaveTells ==
    ASSUME NEW q \in Seq(FrameSet), NEW f \in FrameSet, Good(Append(q, f)),
           f.fn \in Openers, f.fn # "pick", Level(f.sec) # 3
    PROVE  BklPart(Total(Append(q, f))) = Unit(f.sec) <=> ~Has(q, Bkls)
<1>1. PICK r \in Seq(FrameSet) : r = Append(q, f)
  BY PushIs
<1>2. Good(q) /\ Good(r)
  BY <1>1, GoodPush
<1>3. PICK a \in Nat, b \in Nat, d \in Nat :
        a = Tally(q, OpenAt(1)) /\ b = Tally(q, OpenAt(2)) /\ d = Tally(q, OpenAt(4))
  BY TallyHas
<1>4. PICK n \in Nat : n = Number(a, b, 0, d)
  BY NumberZero
<1>5. PICK l \in {1, 2, 4} : l = Level(f.sec)
  BY DEF Level
<1>6. /\ f \in OpenAt(1) <=> l = 1
      /\ f \in OpenAt(2) <=> l = 2
      /\ f \in OpenAt(4) <=> l = 4
  BY <1>5 DEF OpenAt
<1>7. /\ Tally(r, OpenAt(1)) = a + (IF l = 1 THEN 1 ELSE 0)
      /\ Tally(r, OpenAt(2)) = b + (IF l = 2 THEN 1 ELSE 0)
      /\ Tally(r, OpenAt(4)) = d + (IF l = 4 THEN 1 ELSE 0)
  BY <1>1, <1>3, <1>6, TallyPush
<1>8. BklPart(Total(q)) = n /\ (n = 0 <=> ~Has(q, Bkls))
  BY <1>2, <1>3, <1>4, CountTells
<1>9. BklPart(Total(r)) =
        Number(Tally(r, OpenAt(1)), Tally(r, OpenAt(2)), 0, Tally(r, OpenAt(4)))
  BY <1>2, CountTells
<1>10. Unit(f.sec) = Weight[l] /\ Weight[l] \in Nat
  BY <1>5, WeightIs DEF Unit
<1>11. BklPart(Total(r)) = n + Weight[l]
  <2>1. a + 0 = a /\ b + 0 = b /\ d + 0 = d
    OBVIOUS
  <2>2. CASE l = 1
    <3>1. BklPart(Total(r)) = Number(a + 1, b, 0, d)
      BY <2>1, <2>2, <1>7, <1>9
    <3> QED
      <4>0. PICK e \in Nat : e = a + 1
        OBVIOUS
      <4>1. Number(e, b, 0, d) = Number(a, b, 0, d) + Weight[1]
        <5>1. 0 \in Nat
          OBVIOUS
        <5> QED
          BY <4>0, <5>1, NumberNext1, SMTT(60)
      <4> QED
        BY <4>0, <4>1, <3>1, <2>2, <1>4, Zenon
  <2>3. CASE l = 2
    <3>1. BklPart(Total(r)) = Number(a, b + 1, 0, d)
      BY <2>1, <2>3, <1>7, <1>9
    <3> QED
      <4>0. PICK e \in Nat : e = b + 1
        OBVIOUS
      <4>1. Number(a, e, 0, d) = Number(a, b, 0, d) + Weight[2]
        <5>1. 0 \in Nat
          OBVIOUS
        <5> QED
          BY <4>0, <5>1, NumberNext2, SMTT(60)
      <4> QED
        BY <4>0, <4>1, <3>1, <2>3, <1>4, Zenon
  <2>4. CASE l = 4
    <3>1. BklPart(Total(r)) = Number(a, b, 0, d + 1)
      BY <2>1, <2>4, <1>7, <1>9
    <3> QED
      <4>0. PICK e \in Nat : e = d + 1
        OBVIOUS
      <4>1. Number(a, b, 0, e) = Number(a, b, 0, d) + Weight[4]
        <5>1. 0 \in Nat
          OBVIOUS
        <5> QED
          BY <4>0, <5>1, NumberNext4, SMTT(60)
      <4> QED
        BY <4>0, <4>1, <3>1, <2>4, <1>4, Zenon
  <2> QED
    BY <2>2, <2>3, <2>4
<1>12. n + Weight[l] = Weight[l] <=> n = 0
  BY <1>10
<1> QED
  BY <1>1, <1>8, <1>10, <1>11, <1>12

\* irq_unlock(): the test for the last irq_lock().
LEMMA UnlockTells ==
    ASSUME NEW q \in Seq(FrameSet), NEW f \in IrqLocks, Good(Append(q, f))
    PROVE  LET n == Field(Total(Append(q, f)), 1)
           IN  /\ n \in Nat /\ n >= 1
               /\ n = 1 <=> ~Has(q, IrqLocks)
<1>1. f \in FrameSet /\ f \in OpenAt(1)
  BY DEF IrqLocks, OpenAt, Openers, Level
<1>2. Append(q, f) \in Seq(FrameSet) /\ Good(q) /\ 1 \in 1..4
  BY <1>1, PushIs, GoodPush
<1>3. PICK a \in Nat : a = Tally(q, OpenAt(1)) /\ (a = 0 <=> ~Has(q, IrqLocks))
  <2>1. Tally(q, OpenAt(1)) \in Nat
    BY TallyHas
  <2>2. Field(Total(q), 1) = Tally(q, OpenAt(1)) /\ (Field(Total(q), 1) = 0 <=> ~Has(q, IrqLocks))
    BY <1>2, CountTells
  <2> QED
    BY <2>1, <2>2
<1>4. Field(Total(Append(q, f)), 1) = a + 1
  <2>1. Field(Total(Append(q, f)), 1) = Tally(Append(q, f), OpenAt(1))
    BY <1>2, CountTells, Zenon
  <2> QED
    BY <2>1, <1>1, <1>3, TallyPush
<1> QED
  BY <1>3, <1>4

-----------------------------------------------------------------------------
(* The inductive invariant.                                                  *)

\* With such a frame last the thread holds rq.lock, or is about to look at the
\* queue of its CPU.
RqHolders == {f \in FrameSet : f.fn = "pick" \/ (f.fn = "in" /\ f.sec = "rq")}
Lookers == {f \in FrameSet : f.fn \in Calls \/ (f.fn = "enter" /\ f.sec = "irq")}

\* The state of a CPU agrees with the stack s of its thread: n is its count, big,
\* rq and guard say which locks it holds, off that interrupts are masked there,
\* asked that a switch is asked for.
Agrees(s, n, big, rq, guard, off, asked) ==
    /\ Good(s)
    /\ n = Total(s)
    /\ big <=> Has(s, Bkls)
    /\ rq <=> Tip(s) \in RqHolders
    /\ guard <=> Has(s, Guards)
    /\ Tip(s).fn = "out" \/ (off <=> Tip(s) \in Maskeds)
    /\ asked /\ n = 0 => Tip(s) \in Lookers

Typed ==
    /\ cur \in [CPUs -> Threads]
    /\ stk \in [Threads -> Seq(FrameSet)]
    /\ count \in [CPUs -> Nat] /\ saved \in [Threads -> 0..(Radix * Weight[4] - 1)]
    /\ masked \in [CPUs -> BOOLEAN] /\ stash \in [CPUs -> BOOLEAN]
    /\ bkl \in CPUs \cup {None}
    /\ spin \in [{"rq", "guard"} -> CPUs \cup {None}]
    /\ pending \in [CPUs -> BOOLEAN]
    /\ calls \in [Threads -> Nat] /\ \A t \in Threads : calls[t] <= MaxCalls[t]
    /\ events \in 0..MaxEvents

\* A thread is on one CPU at most.
Apart == \A c, d \in CPUs : cur[c] = cur[d] => c = d

\* irq_lock() is called with interrupts on, but for a nested call.
NothingStashed == \A c \in CPUs : ~stash[c]

CpusAgree ==
    \A c \in CPUs : Agrees(stk[cur[c]], count[c], bkl = c, spin["rq"] = c,
                           spin["guard"] = c, masked[c], pending[c])

\* A thread that is switched out is past the switch and has its count saved.
AwayAgree ==
    \A t \in Threads : (\A c \in CPUs : cur[c] # t) =>
        /\ Good(stk[t]) /\ Tip(stk[t]).fn = "out" /\ saved[t] = Total(stk[t])

CInv == Typed /\ Apart /\ NothingStashed /\ CpusAgree /\ AwayAgree

-----------------------------------------------------------------------------
(* Good stacks.                                                              *)

LEMMA HasSub ==
    ASSUME NEW s, NEW F, NEW G, F \subseteq G, Has(s, F)
    PROVE  Has(s, G)
BY DEF Has

\* Nothing but Bottom is no frame.
LEMMA BottomIs ==
    /\ Bottom.fn = "base" /\ Bottom \notin FrameSet
    /\ Bottom \notin Maskeds /\ Bottom \notin RqHolders /\ Bottom \notin Lookers
BY DEF Bottom, Frame, FrameSet, Maskeds, RqHolders, Lookers

LEMMA KindsOverlap ==
    /\ RqHolders \subseteq Lasts /\ Lasts \subseteq Maskeds /\ Lasts \subseteq FrameSet \ Bases
    /\ Bases \subseteq Owns /\ Bases \subseteq Opens /\ IrqLocks \subseteq Maskeds
    /\ Guards \subseteq Harders /\ Harders \subseteq Opens /\ Bkls \subseteq Opens
    /\ IrqLocks \subseteq Bkls
<1> USE DEF FrameSet
<1>1. RqHolders \subseteq Lasts
  BY DEF RqHolders, Lasts, Maskeds, IrqLocks
<1>2. Lasts \subseteq Maskeds
  BY DEF Lasts
<1>3. Lasts \subseteq FrameSet \ Bases
  BY DEF Lasts, Maskeds, IrqLocks, Bases
<1>4. Bases \subseteq Owns
  BY DEF Owns, Bases, Calls
<1>5. Bases \subseteq Opens
  BY DEF Opens, Bases, Openers
<1>6. IrqLocks \subseteq Maskeds
  BY DEF Maskeds, IrqLocks
<1>7. Guards \subseteq Harders
  BY DEF Guards, Harders, Openers, Level
<1>8. Harders \subseteq Opens
  BY DEF Harders, Opens
<1>9. Bkls \subseteq Opens
  BY DEF Bkls, Opens
<1>10. IrqLocks \subseteq Bkls
  BY DEF Bkls, IrqLocks, Openers, Level
<1> QED
  BY <1>1, <1>2, <1>3, <1>4, <1>5, <1>6, <1>7, <1>8, <1>9, <1>10

\* A stack is empty or has a last frame that fits.
LEMMA TipFits ==
    ASSUME NEW s \in Seq(FrameSet), Good(s)
    PROVE  \/ s = <<>> /\ Tip(s) = Bottom
           \/ \E q \in Seq(FrameSet) : \E f \in FrameSet :
                s = Append(q, f) /\ Tip(s) = f /\ Good(q) /\ Fits(q, f)
<1>1. CASE s = <<>>
  BY <1>1 DEF Tip
<1>2. CASE s # <<>>
  <2>1. PICK q \in Seq(FrameSet) : q = Front(s)
    BY <1>2, PopIs
  <2>2. PICK f \in FrameSet : f = s[Len(s)]
    BY <1>2, PopIs
  <2>3. s = Append(q, f)
    BY <1>2, <2>1, <2>2, PopIs
  <2>4. Good(q) /\ Fits(q, f)
    BY <2>3, GoodPush
  <2>5. Tip(s) = f
    BY <1>2, <2>2 DEF Tip
  <2> QED
    BY <2>3, <2>4, <2>5
<1> QED
  BY <1>1, <1>2

\* A frame that stays last is last.
LEMMA NoLasts ==
    ASSUME NEW s \in Seq(FrameSet), Good(s), Tip(s) \notin Lasts
    PROVE  ~Has(s, Lasts)
<1>1. CASE s = <<>>
  BY <1>1, HasEmpty
<1>2. CASE s # <<>>
  <2>1. PICK q \in Seq(FrameSet), f \in FrameSet :
          s = Append(q, f) /\ Tip(s) = f /\ Good(q) /\ Fits(q, f)
    BY <1>2, TipFits
  <2> QED
    BY <2>1, HasPush DEF Fits
<1> QED
  BY <1>1, <1>2

\* Inside irq_lock() there is only irq_lock().
LEMMA NoIrqLocks ==
    ASSUME NEW s \in Seq(FrameSet), Good(s), Tip(s) \notin Maskeds
    PROVE  ~Has(s, IrqLocks)
<1>1. CASE s = <<>>
  BY <1>1, HasEmpty
<1>2. CASE s # <<>>
  <2>1. PICK q \in Seq(FrameSet), f \in FrameSet :
          s = Append(q, f) /\ Tip(s) = f /\ Good(q) /\ Fits(q, f)
    BY <1>2, TipFits
  <2>2. ~Has(q, IrqLocks)
    BY <2>1 DEF Fits, Maskeds
  <2>3. f \notin IrqLocks
    BY <2>1, KindsOverlap
  <2> QED
    BY <2>1, <2>2, <2>3, HasPush
<1> QED
  BY <1>1, <1>2

\* A thread's own code runs inside its own sections only.
LEMMA OwnCode ==
    ASSUME NEW s \in Seq(FrameSet), Good(s), s = <<>> \/ Tip(s) \in Bases
    PROVE  ~Has(s, FrameSet \ Bases) /\ ~Has(s, Lasts)
<1>1. CASE s = <<>>
  BY <1>1, HasEmpty
<1>2. CASE s # <<>>
  <2>1. PICK q \in Seq(FrameSet), f \in FrameSet :
          s = Append(q, f) /\ Tip(s) = f /\ Good(q) /\ Fits(q, f)
    BY <1>2, TipFits
  <2>2. ~Has(q, FrameSet \ Bases)
    BY <1>2, <2>1, KindsOverlap DEF Fits
  <2>3. ~Has(s, FrameSet \ Bases)
    BY <1>2, <2>1, <2>2, HasPush
  <2> QED
    BY <2>3, KindsOverlap, HasSub
<1> QED
  BY <1>1, <1>2

\* The count is zero in its own code outside every section.
LEMMA OwnEmpty ==
    ASSUME NEW s \in Seq(FrameSet), ~Has(s, FrameSet \ Bases), ~Has(s, Opens)
    PROVE  s = <<>>
<1> SUFFICES ASSUME s # <<>> PROVE FALSE
  OBVIOUS
<1>1. PICK q \in Seq(FrameSet) : q = Front(s)
  BY PopIs
<1>2. PICK f \in FrameSet : f = s[Len(s)] /\ s = Append(q, f)
  BY <1>1, PopIs
<1> QED
  BY <1>2, HasPush, KindsOverlap

\* Agreement with a stack that has a last frame.
Matches(s, f, n, big, rq, guard, off, asked) ==
    /\ Good(s) /\ Fits(s, f)
    /\ n = Total(s) + Val(f)
    /\ big <=> Has(s, Bkls) \/ f \in Bkls
    /\ rq <=> f \in RqHolders
    /\ guard <=> Has(s, Guards) \/ f \in Guards
    /\ f.fn = "out" \/ (off <=> f \in Maskeds)
    /\ asked /\ n = 0 => f \in Lookers

LEMMA AgreePush ==
    ASSUME NEW s \in Seq(FrameSet), NEW f \in FrameSet,
           NEW n, NEW big, NEW rq, NEW guard, NEW off, NEW asked
    PROVE  Agrees(Append(s, f), n, big, rq, guard, off, asked) <=>
             Matches(s, f, n, big, rq, guard, off, asked)
<1>1. Good(Append(s, f)) <=> Good(s) /\ Fits(s, f)
  BY GoodPush
<1>2. Total(Append(s, f)) = Total(s) + Val(f)
  BY TotalPush
<1>3. /\ Has(Append(s, f), Bkls) <=> Has(s, Bkls) \/ f \in Bkls
      /\ Has(Append(s, f), Guards) <=> Has(s, Guards) \/ f \in Guards
  BY HasPush
<1>4. Tip(Append(s, f)) = f
  BY PushIs
<1> QED
  BY <1>1, <1>2, <1>3, <1>4, Zenon DEF Agrees, Matches

\* The other CPUs have the locks they had.
OthersKeep(c) ==
    \A d \in CPUs \ {c} :
        /\ (bkl' = d) = (bkl = d)
        /\ (spin'["rq"] = d) = (spin["rq"] = d)
        /\ (spin'["guard"] = d) = (spin["guard"] = d)

\* What a step of CPU c that does not switch threads leaves alone.
Around(c) ==
    /\ cur' = cur /\ saved' = saved /\ stash' = stash
    /\ bkl' \in CPUs \cup {None}
    /\ spin' \in [{"rq", "guard"} -> CPUs \cup {None}]
    /\ OthersKeep(c)
    /\ calls' \in [Threads -> Nat] /\ \A t \in Threads : calls'[t] <= calls[t]
    /\ events' \in 0..MaxEvents

\* Such a step: the thread of c then has the stack r, the count is n, off and asked
\* say whether interrupts are masked and a switch is asked for there.
Local(c, r, n, off, asked) ==
    /\ r \in Seq(FrameSet) /\ n \in Nat /\ off \in BOOLEAN /\ asked \in BOOLEAN
    /\ Around(c)
    /\ stk' = [stk EXCEPT ![cur[c]] = r]
    /\ count' = [count EXCEPT ![c] = n]
    /\ masked' = [masked EXCEPT ![c] = off]
    /\ pending' = [pending EXCEPT ![c] = asked]
    /\ Agrees(r, n, bkl' = c, spin'["rq"] = c, spin'["guard"] = c, off, asked)

\* It does not disturb the others.
LEMMA LocalStep ==
    ASSUME CInv, NEW c \in CPUs, NEW r, NEW n, NEW off, NEW asked, Local(c, r, n, off, asked)
    PROVE  CInv'
<1>0. /\ r \in Seq(FrameSet) /\ n \in Nat /\ off \in BOOLEAN /\ asked \in BOOLEAN
      /\ cur' = cur /\ saved' = saved /\ stash' = stash
      /\ stk' = [stk EXCEPT ![cur[c]] = r] /\ count' = [count EXCEPT ![c] = n]
      /\ masked' = [masked EXCEPT ![c] = off] /\ pending' = [pending EXCEPT ![c] = asked]
  BY DEF Local, Around
<1>1. Typed'
  <2>1. ASSUME NEW t \in Threads PROVE calls'[t] <= MaxCalls[t]
    <3>1. calls[t] \in Nat /\ calls[t] <= MaxCalls[t]
      BY DEF CInv, Typed
    <3>2. calls'[t] \in Nat /\ calls'[t] <= calls[t]
      BY DEF Local, Around
    <3>3. MaxCalls[t] \in Nat
      BY CriticalAssumption
    <3> QED
      BY <3>1, <3>2, <3>3
  <2> QED
    BY <2>1 DEF CInv, Typed, Local, Around
<1>2. Apart' /\ NothingStashed'
  BY <1>0 DEF CInv, Apart, NothingStashed
<1>3. CpusAgree'
  <2>1. ASSUME NEW d \in CPUs, d # c
        PROVE  Agrees(stk'[cur'[d]], count'[d], bkl' = d, spin'["rq"] = d,
                      spin'["guard"] = d, masked'[d], pending'[d])
    <3>1. cur[d] # cur[c] /\ cur[d] \in Threads
      BY <2>1 DEF CInv, Apart, Typed
    <3>2. stk'[cur'[d]] = stk[cur[d]] /\ count'[d] = count[d] /\ masked'[d] = masked[d] /\ pending'[d] = pending[d]
      BY <1>0, <2>1, <3>1 DEF CInv, Typed
    <3>3. Agrees(stk[cur[d]], count[d], bkl = d, spin["rq"] = d, spin["guard"] = d, masked[d], pending[d])
      BY DEF CInv, CpusAgree
    <3>4. (bkl' = d <=> bkl = d) /\ (spin'["rq"] = d <=> spin["rq"] = d)
          /\ (spin'["guard"] = d <=> spin["guard"] = d)
      <4>1. OthersKeep(c)
        BY DEF Local, Around
      <4> QED
        BY <4>1, <2>1 DEF OthersKeep
    <3>5. Agrees(stk[cur[d]], count[d], bkl' = d, spin'["rq"] = d, spin'["guard"] = d, masked[d], pending[d])
      BY <3>3, <3>4 DEF Agrees
    <3> QED
      BY <3>2, <3>5
  <2>2. Agrees(stk'[cur'[c]], count'[c], bkl' = c, spin'["rq"] = c,
                      spin'["guard"] = c, masked'[c], pending'[c])
    <3>1. stk'[cur'[c]] = r /\ count'[c] = n /\ masked'[c] = off /\ pending'[c] = asked
      BY <1>0 DEF CInv, Typed
    <3>2. Agrees(r, n, bkl' = c, spin'["rq"] = c, spin'["guard"] = c, off, asked)
      BY DEF Local, Around
    <3> QED
      BY <3>1, <3>2
  <2> QED
    BY <2>1, <2>2 DEF CpusAgree
<1>4. AwayAgree'
  BY <1>0 DEF CInv, Typed, AwayAgree
<1> QED
  BY <1>1, <1>2, <1>3, <1>4 DEF CInv

-----------------------------------------------------------------------------
(* Entering a section.                                                       *)

Masking == {"irqlock", "irq", "preempt"}
Entered == {"sched", "schedule"} \cup Masking

LEMMA UnitIs == ASSUME NEW sec PROVE Unit(sec) \in Nat /\ Unit(sec) > 0
<1>1. Level(sec) \in 1..4
  BY DEF Level
<1> QED
  BY <1>1, WeightIs DEF Unit

\* The frame of a section that is entered, and of the wait for it.
LEMMA EnterFrames ==
    ASSUME NEW sec \in Entered, NEW ipl, ipl = (sec \in Masking),
           NEW f, f = Frame("in", sec, ipl), NEW g, g = Frame("enter", sec, ipl)
    PROVE  /\ f \in FrameSet /\ f.fn = "in" /\ f.sec = sec /\ f.ipl = ipl
           /\ g \in FrameSet /\ g.fn = "enter" /\ g.sec = sec /\ g.ipl = ipl
           /\ f \in Legals /\ g \in Legals
           /\ f \in Owns <=> sec \notin {"irq", "preempt"}
           /\ g \in Owns <=> sec \notin {"irq", "preempt"}
           /\ Val(f) = Unit(sec) /\ Val(g) = 0
           /\ f \in Bkls /\ g \notin Bkls
           /\ f \notin Guards /\ g \notin Guards
           /\ f \notin RqHolders /\ g \notin RqHolders
           /\ (f \in Maskeds <=> ipl) /\ (g \in Maskeds <=> ipl)
           /\ g \in Lookers <=> sec = "irq"
<1> USE DEF Entered, Masking
<1>1. /\ f \in FrameSet /\ f.fn = "in" /\ f.sec = sec /\ f.ipl = ipl
      /\ g \in FrameSet /\ g.fn = "enter" /\ g.sec = sec /\ g.ipl = ipl
  BY DEF Frame, FrameSet
<1>2. f \in Legals /\ g \in Legals
  BY <1>1 DEF Legals, Calls
<1>3. /\ f \in Owns <=> sec \notin {"irq", "preempt"}
      /\ g \in Owns <=> sec \notin {"irq", "preempt"}
  BY <1>1 DEF Owns, Calls
<1>4. Val(f) = Unit(sec) /\ Val(g) = 0
  BY <1>1, ValIs DEF Openers
<1>5. f \in Bkls /\ g \notin Bkls
  BY <1>1 DEF Bkls, Openers, Level
<1>6. f \notin Guards /\ g \notin Guards /\ f \notin RqHolders /\ g \notin RqHolders
  BY <1>1 DEF Guards, RqHolders
<1>7. (f \in Maskeds <=> ipl) /\ (g \in Maskeds <=> ipl)
  BY <1>1 DEF Maskeds
<1>8. g \in Lookers <=> sec = "irq"
  BY <1>1 DEF Lookers, Calls
<1> QED
  BY <1>1, <1>2, <1>3, <1>4, <1>5, <1>6, <1>7, <1>8

\* critical_enter(): a count that promises the BKL is raised, any other waits.
LEMMA EnterAgrees ==
    ASSUME NEW s \in Seq(FrameSet), NEW n, NEW big, NEW rq, NEW guard, NEW off, NEW asked,
           Agrees(s, n, big, rq, guard, off, asked),
           NEW sec \in Entered, NEW ipl, ipl = (sec \in Masking),
           NEW f, f = Frame("in", sec, ipl), NEW g, g = Frame("enter", sec, ipl),
           Fits(s, f),
           sec = "irq" \/ ~asked \/ Tip(s) \notin Lookers
    PROVE  /\ n \in Nat /\ n + Unit(sec) \in Nat
           /\ Append(s, f) \in Seq(FrameSet) /\ Append(s, g) \in Seq(FrameSet)
           /\ BklPart(n) # 0 => Agrees(Append(s, f), n + Unit(sec), big, rq, guard, ipl, asked)
           /\ BklPart(n) = 0 => Agrees(Append(s, g), n, big, rq, guard, ipl, asked)
<1>1. /\ f \in FrameSet /\ f.fn = "in" /\ f.sec = sec
      /\ g \in FrameSet /\ g.fn = "enter" /\ g.sec = sec
      /\ f \in Legals /\ g \in Legals
      /\ f \in Owns <=> g \in Owns
  BY EnterFrames
<1>2. /\ Val(f) = Unit(sec) /\ Val(g) = 0
      /\ f \in Bkls /\ g \notin Bkls
      /\ f \notin Guards /\ g \notin Guards
      /\ f \notin RqHolders /\ g \notin RqHolders
      /\ (f \in Maskeds <=> ipl) /\ (g \in Maskeds <=> ipl)
      /\ g \in Lookers <=> sec = "irq"
  BY EnterFrames
<1>3. /\ Good(s) /\ n = Total(s) /\ (big <=> Has(s, Bkls)) /\ (rq <=> Tip(s) \in RqHolders)
      /\ (guard <=> Has(s, Guards)) /\ (asked /\ n = 0 => Tip(s) \in Lookers)
  BY DEF Agrees
<1>4. n \in Nat /\ n + 0 = n /\ n + Unit(sec) \in Nat /\ n + Unit(sec) # 0
  <2>1. n \in Nat
    BY <1>1, <1>3, TotalPush
  <2> QED
    BY <2>1, UnitIs
<1>5. ~rq
  <2>1. ~Has(s, Lasts)
    BY DEF Fits
  <2>2. Tip(s) \notin Lasts
    <3>1. CASE s = <<>>
      BY <3>1, BottomIs, KindsOverlap DEF Tip
    <3>2. CASE s # <<>>
      <4>1. Len(s) \in 1..Len(s)
        BY <3>2, EmptySeq
      <4> QED
        BY <4>1, <3>2, <2>1 DEF Tip, Has
    <3> QED
      BY <3>1, <3>2
  <2> QED
    BY <2>2, <1>3, KindsOverlap
<1>6. ASSUME BklPart(n) # 0
      PROVE  Agrees(Append(s, f), n + Unit(sec), big, rq, guard, ipl, asked)
  <2>1. Has(s, Bkls)
    BY <1>3, <1>6, CountTells
  <2>2. PICK m : m = n + Unit(sec) /\ m # 0
    BY <1>4
  <2>3. m = Total(s) + Val(f)
    BY <2>2, <1>2, <1>3
  <2>4. Agrees(Append(s, f), m, big, rq, guard, ipl, asked)
    <3>1. Matches(s, f, m, big, rq, guard, ipl, asked)
      BY <2>1, <2>2, <2>3, <1>1, <1>2, <1>3, <1>5, Zenon DEF Matches
    <3> QED
      BY <3>1, <1>1, AgreePush
  <2> QED
    BY <2>2, <2>4
<1>7. ASSUME BklPart(n) = 0
      PROVE  Agrees(Append(s, g), n, big, rq, guard, ipl, asked)
  <2>1. ~Has(s, Bkls)
    BY <1>3, <1>7, CountTells
  <2>2. Fits(s, g)
    BY <2>1, <1>1 DEF Fits, Calls
  <2>3. n = Total(s) + Val(g)
    BY <1>2, <1>3, <1>4
  <2>4. Matches(s, g, n, big, rq, guard, ipl, asked)
    BY <2>1, <2>2, <2>3, <1>1, <1>2, <1>3, <1>5, Zenon DEF Matches
  <2> QED
    BY <2>4, <1>1, AgreePush
<1> QED
  BY <1>1, <1>4, <1>6, <1>7, PushIs

\* The CPU of a step.
LEMMA Here ==
    ASSUME CInv, NEW c \in CPUs
    PROVE  /\ cur[c] \in Threads /\ stk[cur[c]] \in Seq(FrameSet)
           /\ Top(c) = Tip(stk[cur[c]])
           /\ Agrees(stk[cur[c]], count[c], bkl = c, spin["rq"] = c, spin["guard"] = c,
                     masked[c], pending[c])
           /\ count[c] \in Nat /\ masked[c] \in BOOLEAN /\ pending[c] \in BOOLEAN
           /\ stash[c] = FALSE
<1>1. cur[c] \in Threads /\ stk[cur[c]] \in Seq(FrameSet)
  BY DEF CInv, Typed
<1>2. Top(c) = Tip(stk[cur[c]])
  BY DEF Top, Tip, Last
<1>3. Agrees(stk[cur[c]], count[c], bkl = c, spin["rq"] = c, spin["guard"] = c,
             masked[c], pending[c])
  BY DEF CInv, CpusAgree
<1>4. count[c] \in Nat /\ masked[c] \in BOOLEAN /\ pending[c] \in BOOLEAN /\ stash[c] = FALSE
  BY DEF CInv, Typed, NothingStashed
<1> QED
  BY <1>1, <1>2, <1>3, <1>4

\* A thread that calls is in its own code, with interrupts on unless inside
\* irq_lock().
LEMMA CallingIs ==
    ASSUME CInv, NEW c \in CPUs, NEW S, S \subseteq {"sched", "irqlock", "guard"}, Calling(c, S)
    PROVE  LET s == stk[cur[c]]
           IN  /\ s = <<>> \/ (Tip(s) \in Bases /\ Tip(s).sec \in S)
               /\ Len(s) < MaxNest
               /\ ~Has(s, FrameSet \ Bases) /\ ~Has(s, Lasts)
               /\ Tip(s) \notin Lookers /\ Tip(s) \notin RqHolders
               /\ "irqlock" \notin S => masked[c] = FALSE /\ ~Has(s, IrqLocks)
               /\ (Tip(s) \notin Maskeds) = (masked[c] = FALSE)
               /\ calls' \in [Threads -> Nat] /\ \A t \in Threads : calls'[t] <= calls[t]
<1>1. PICK s \in Seq(FrameSet) : s = stk[cur[c]]
  BY Here
<1>2. Good(s) /\ Tip(s) = Top(c) /\ (Tip(s).fn = "out" \/ (masked[c] <=> Tip(s) \in Maskeds)) /\ masked[c] \in BOOLEAN
  BY <1>1, Here DEF Agrees
<1>3. s = <<>> \/ (Tip(s) \in Bases /\ Tip(s).sec \in S)
  <2> SUFFICES ASSUME s # <<>> PROVE Tip(s) \in Bases /\ Tip(s).sec \in S
    OBVIOUS
  <2>1. Tip(s) \in FrameSet
    BY PopIs DEF Tip
  <2>2. Tip(s) # Bottom
    BY <2>1, BottomIs
  <2>3. Tip(s).fn = "in" /\ Tip(s).sec \in S
    BY <2>2, <1>2 DEF Calling
  <2> QED
    BY <2>1, <2>3 DEF Bases
<1>4. ~Has(s, FrameSet \ Bases) /\ ~Has(s, Lasts)
  BY <1>2, <1>3, OwnCode
<1>5. Len(s) < MaxNest
  BY <1>1 DEF Calling
<1>6. Tip(s) \notin Lookers /\ Tip(s) \notin RqHolders /\ Tip(s).fn # "out"
  <2>1. CASE s = <<>>
    BY <2>1, BottomIs DEF Tip
  <2>2. CASE Tip(s) \in Bases
    BY <2>2 DEF Bases, Lookers, RqHolders, Calls
  <2> QED
    BY <2>1, <2>2, <1>3
<1>7. ASSUME "irqlock" \notin S PROVE Tip(s) \notin Maskeds
  <2>1. CASE s = <<>>
    BY <2>1, BottomIs DEF Tip
  <2>2. CASE Tip(s) \in Bases /\ Tip(s).sec \in S
    <3>1. Tip(s).sec \in {"sched", "guard"} /\ Tip(s).fn = "in"
      BY <2>2, <1>7 DEF Bases
    <3> QED
      BY <3>1 DEF Maskeds
  <2> QED
    BY <2>1, <2>2, <1>3
<1>8. "irqlock" \notin S => masked[c] = FALSE /\ ~Has(s, IrqLocks)
  BY <1>2, <1>6, <1>7, NoIrqLocks
<1>9. calls' \in [Threads -> Nat] /\ \A t \in Threads : calls'[t] <= calls[t]
  <2>1. calls \in [Threads -> Nat] /\ cur[c] \in Threads
    BY DEF CInv, Typed
  <2>2. calls[cur[c]] > 0 /\ calls' = [calls EXCEPT ![cur[c]] = calls[cur[c]] - 1]
    BY DEF Calling
  <2> QED
    BY <2>1, <2>2
<1> QED
  BY <1>1, <1>2, <1>3, <1>4, <1>5, <1>6, <1>8, <1>9

\* A section of the thread's own fits on its own code.
LEMMA OwnFits ==
    ASSUME NEW s \in Seq(FrameSet), NEW f \in Legals, f \in Owns, f.fn # "enter",
           Len(s) < MaxNest, ~Has(s, FrameSet \ Bases), ~Has(s, Lasts),
           (f.sec = "irqlock" /\ f.fn = "in") \/ ~Has(s, IrqLocks),
           f.sec = "guard" => s = <<>>,
           f.sec = "schedule" => ~Has(s, Harders)
    PROVE  Fits(s, f)
<1>1. f.fn \notin Calls /\ f.sec \notin {"fresh", "preempt", "irq"}
  BY DEF Owns, Legals
<1> QED
  BY <1>1 DEF Fits

LEMMA EnterStep ==
    ASSUME CInv, NEW c \in CPUs, NEW sec \in Entered, NEW ipl, ipl = (sec \in Masking),
           Fits(stk[cur[c]], Frame("in", sec, ipl)),
           sec = "irq" \/ Tip(stk[cur[c]]) \notin Lookers,
           Enter(c, sec, ipl),
           UNCHANGED <<cur, saved, bkl, spin, pending>>, stash' = stash,
           calls' \in [Threads -> Nat], \A t \in Threads : calls'[t] <= calls[t],
           events' \in 0..MaxEvents
    PROVE  CInv'
<1>1. PICK s \in Seq(FrameSet) : s = stk[cur[c]]
  BY Here
<1>2. PICK f \in FrameSet : f = Frame("in", sec, ipl)
  BY EnterFrames
<1>3. PICK g \in FrameSet : g = Frame("enter", sec, ipl)
  BY EnterFrames
<1>4. PICK n \in Nat : n = count[c]
  BY Here
<1>5. Agrees(s, n, bkl = c, spin["rq"] = c, spin["guard"] = c, masked[c], pending[c])
  BY <1>1, <1>4, Here
<1>6. /\ n + Unit(sec) \in Nat
      /\ Append(s, f) \in Seq(FrameSet) /\ Append(s, g) \in Seq(FrameSet)
      /\ BklPart(n) # 0 => Agrees(Append(s, f), n + Unit(sec), bkl = c, spin["rq"] = c,
                                  spin["guard"] = c, ipl, pending[c])
      /\ BklPart(n) = 0 => Agrees(Append(s, g), n, bkl = c, spin["rq"] = c,
                                  spin["guard"] = c, ipl, pending[c])
  <2>1. Fits(s, f) /\ (sec = "irq" \/ ~pending[c] \/ Tip(s) \notin Lookers)
    BY <1>1, <1>2
  <2> QED
    BY <1>2, <1>3, <1>5, <2>1, EnterAgrees
<1>7. /\ ipl \in BOOLEAN /\ pending[c] \in BOOLEAN
      /\ masked' = [masked EXCEPT ![c] = ipl]
      /\ pending' = [pending EXCEPT ![c] = pending[c]]
      /\ bkl' \in CPUs \cup {None} /\ bkl' = bkl /\ spin' = spin
      /\ spin' \in [{"rq", "guard"} -> CPUs \cup {None}]
  BY DEF Enter, Mask, CInv, Typed
<1>8. \/ BklPart(n) # 0 /\ count' = [count EXCEPT ![c] = n + Unit(sec)]
         /\ stk' = [stk EXCEPT ![cur[c]] = Append(s, f)]
      \/ BklPart(n) = 0 /\ count' = [count EXCEPT ![c] = n]
         /\ stk' = [stk EXCEPT ![cur[c]] = Append(s, g)]
  BY <1>1, <1>2, <1>3, <1>4 DEF Enter, Add, Push, CInv, Typed
<1>9. PICK r \in Seq(FrameSet), m \in Nat :
        /\ stk' = [stk EXCEPT ![cur[c]] = r] /\ count' = [count EXCEPT ![c] = m]
        /\ Agrees(r, m, bkl' = c, spin'["rq"] = c, spin'["guard"] = c, ipl, pending[c])
  BY <1>6, <1>7, <1>8
<1>10. OthersKeep(c)
  BY <1>7 DEF OthersKeep
<1>11. cur' = cur /\ saved' = saved
  OBVIOUS
<1>12. Local(c, r, m, ipl, pending[c])
  BY <1>7, <1>9, <1>10, <1>11, Zenon DEF Local, Around
<1> QED
  BY <1>7, <1>12, LocalStep

\* sched_lock()
LEMMA SchedLockKeeps == ASSUME CInv, NEW c \in CPUs, SchedLock(c) PROVE CInv'
<1>1. PICK s \in Seq(FrameSet) : s = stk[cur[c]]
  BY Here
<1>2. Calling(c, {"sched", "guard"}) /\ Enter(c, "sched", masked[c])
      /\ UNCHANGED <<cur, saved, stash, bkl, spin, pending, events>>
  BY DEF SchedLock
<1>3. /\ Len(s) < MaxNest /\ ~Has(s, FrameSet \ Bases) /\ ~Has(s, Lasts) /\ Tip(s) \notin Lookers
      /\ masked[c] = FALSE /\ ~Has(s, IrqLocks)
      /\ calls' \in [Threads -> Nat] /\ \A t \in Threads : calls'[t] <= calls[t]
  <2>1. PICK S : S = {"sched", "guard"}
    OBVIOUS
  <2>2. S \subseteq {"sched", "irqlock", "guard"} /\ "irqlock" \notin S /\ Calling(c, S)
    BY <2>1, <1>2
  <2> QED
    BY <1>1, <2>2, CallingIs
<1>4. PICK f : f = Frame("in", "sched", FALSE)
  OBVIOUS
<1>5. f \in Legals /\ f \in Owns /\ f.fn = "in" /\ f.sec = "sched"
  BY <1>4 DEF Frame, FrameSet, Legals, Owns, Calls
<1>6. Fits(s, f)
  BY <1>3, <1>5, OwnFits
<1>7. "sched" \in Entered /\ FALSE = ("sched" \in Masking)
  BY DEF Entered, Masking
<1>8. events' \in 0..MaxEvents
  BY <1>2 DEF CInv, Typed
<1> QED
  BY <1>1, <1>2, <1>3, <1>4, <1>6, <1>7, <1>8, EnterStep

\* irq_lock(): nothing is stashed but that interrupts are on.
LEMMA IrqLockKeeps == ASSUME CInv, NEW c \in CPUs, IrqLock(c) PROVE CInv'
<1>1. PICK s \in Seq(FrameSet) : s = stk[cur[c]]
  BY Here
<1>2. Calling(c, {"sched", "irqlock"}) /\ Enter(c, "irqlock", TRUE) /\ Stash(c)
      /\ UNCHANGED <<cur, saved, bkl, spin, pending, events>>
  BY DEF IrqLock
<1>3. /\ Len(s) < MaxNest /\ ~Has(s, FrameSet \ Bases) /\ ~Has(s, Lasts) /\ Tip(s) \notin Lookers
      /\ s = <<>> \/ (Tip(s) \in Bases /\ Tip(s).sec \in {"sched", "irqlock"})
      /\ (Tip(s) \notin Maskeds) = (masked[c] = FALSE)
      /\ calls' \in [Threads -> Nat] /\ \A t \in Threads : calls'[t] <= calls[t]
  <2>1. PICK S : S = {"sched", "irqlock"}
    OBVIOUS
  <2>2. S \subseteq {"sched", "irqlock", "guard"} /\ Calling(c, S)
    BY <2>1, <1>2
  <2> QED
    BY <1>1, <2>1, <2>2, CallingIs
<1>4. PICK f : f = Frame("in", "irqlock", TRUE)
  OBVIOUS
<1>5. f \in Legals /\ f \in Owns /\ f.fn = "in" /\ f.sec = "irqlock"
  BY <1>4 DEF Frame, FrameSet, Legals, Owns, Calls
<1>6. Fits(s, f)
  BY <1>3, <1>5, OwnFits
<1>7. "irqlock" \in Entered /\ TRUE = ("irqlock" \in Masking)
  BY DEF Entered, Masking
<1>8. stash' = stash
  <2>1. stash \in [CPUs -> BOOLEAN] /\ stash[c] = FALSE
    BY Here DEF CInv, Typed
  <2>2. ASSUME Field(count[c], 1) = 0 PROVE masked[c] = FALSE
    <3>1. Good(s) /\ count[c] = Total(s)
      BY <1>1, Here DEF Agrees
    <3>2. ~Has(s, IrqLocks)
      BY <2>2, <3>1, CountTells
    <3>3. Tip(s) \notin IrqLocks
      <4>1. CASE s = <<>>
        BY <4>1, BottomIs, KindsOverlap DEF Tip
      <4>2. CASE s # <<>>
        <5>1. Len(s) \in 1..Len(s)
          BY <4>2, EmptySeq
        <5> QED
          BY <4>2, <5>1, <3>2 DEF Tip, Has
      <4> QED
        BY <4>1, <4>2
    <3>4. Tip(s) \notin Maskeds
      <4>1. CASE s = <<>>
        BY <4>1, BottomIs DEF Tip
      <4>2. CASE Tip(s) \in Bases /\ Tip(s).sec \in {"sched", "irqlock"}
        BY <4>2, <3>3 DEF Bases, IrqLocks, Maskeds
      <4> QED
        BY <4>1, <4>2, <1>3
    <3> QED
      BY <3>4, <1>3
  <2> QED
    BY <2>1, <2>2, <1>2 DEF Stash
<1>9. events' \in 0..MaxEvents
  BY <1>2 DEF CInv, Typed
<1> QED
  BY <1>1, <1>2, <1>3, <1>4, <1>6, <1>7, <1>8, <1>9, EnterStep

\* schedule(): no harder section is open.
LEMMA ScheduleKeeps == ASSUME CInv, NEW c \in CPUs, Schedule(c) PROVE CInv'
<1>1. PICK s \in Seq(FrameSet) : s = stk[cur[c]]
  BY Here
<1>2. Calling(c, {"sched"}) /\ Enter(c, "schedule", masked[c]) /\ count[c] % Unit("schedule") = 0
      /\ UNCHANGED <<cur, saved, stash, bkl, spin, pending, events>>
  BY DEF Schedule
<1>3. /\ Len(s) < MaxNest /\ ~Has(s, FrameSet \ Bases) /\ ~Has(s, Lasts) /\ Tip(s) \notin Lookers
      /\ masked[c] = FALSE /\ ~Has(s, IrqLocks)
      /\ calls' \in [Threads -> Nat] /\ \A t \in Threads : calls'[t] <= calls[t]
  <2>1. PICK S : S = {"sched"}
    OBVIOUS
  <2>2. S \subseteq {"sched", "irqlock", "guard"} /\ "irqlock" \notin S /\ Calling(c, S)
    BY <2>1, <1>2
  <2> QED
    BY <1>1, <2>2, CallingIs
<1>4. PICK f : f = Frame("in", "schedule", FALSE)
  OBVIOUS
<1>5. f \in Legals /\ f \in Owns /\ f.fn = "in" /\ f.sec = "schedule"
  BY <1>4 DEF Frame, FrameSet, Legals, Owns, Calls
<1>10. ~Has(s, Harders)
  <2>1. Good(s) /\ count[c] = Total(s)
    BY <1>1, Here DEF Agrees
  <2>2. Unit("schedule") = Weight[4]
    BY DEF Unit, Level
  <2> QED
    BY <2>1, <2>2, <1>2, CountTells
<1>6. Fits(s, f)
  BY <1>3, <1>5, <1>10, OwnFits
<1>7. "schedule" \in Entered /\ FALSE = ("schedule" \in Masking)
  BY DEF Entered, Masking
<1>8. events' \in 0..MaxEvents
  BY <1>2 DEF CInv, Typed
<1> QED
  BY <1>1, <1>2, <1>3, <1>4, <1>6, <1>7, <1>8, EnterStep

\* The bounds of a step that makes no call.
LEMMA BoundsKept ==
    ASSUME CInv, calls' = calls, events' = events \/ (events > 0 /\ events' = events - 1)
    PROVE  /\ events' \in 0..MaxEvents
           /\ calls' \in [Threads -> Nat] /\ \A t \in Threads : calls'[t] <= calls[t]
<1>1. events \in 0..MaxEvents /\ MaxEvents \in Nat /\ calls \in [Threads -> Nat]
  BY CriticalAssumption DEF CInv, Typed
<1>2. events' \in 0..MaxEvents
  BY <1>1
<1>3. \A n \in Nat : n <= n
  OBVIOUS
<1>4. \A t \in Threads : calls'[t] <= calls[t]
  BY <1>1, <1>3
<1> QED
  BY <1>1, <1>2, <1>4

\* An interrupt.
LEMMA InterruptKeeps == ASSUME CInv, NEW c \in CPUs, Interrupt(c) PROVE CInv'
<1>1. PICK s \in Seq(FrameSet) : s = stk[cur[c]]
  BY Here
<1>2. ~masked[c] /\ events > 0 /\ events' = events - 1 /\ Enter(c, "irq", TRUE)
      /\ UNCHANGED <<cur, saved, stash, bkl, spin, pending, calls>>
  BY DEF Interrupt
<1>3. Good(s) /\ Tip(s) \notin Maskeds
  <2>1. Good(s) /\ (Tip(s).fn = "out" \/ (masked[c] <=> Tip(s) \in Maskeds))
    BY <1>1, Here DEF Agrees
  <2>2. Tip(s).fn = "out" => Tip(s) \notin Maskeds
    BY DEF Maskeds
  <2> QED
    BY <1>2, <2>1, <2>2
<1>4. PICK f : f = Frame("in", "irq", TRUE)
  OBVIOUS
<1>5. f \in Legals /\ f \notin Owns /\ f.fn = "in" /\ f.sec = "irq"
  BY <1>4 DEF Frame, FrameSet, Legals, Owns, Calls
<1>6. Fits(s, f)
  <2>1. ~Has(s, Lasts)
    BY <1>3, NoLasts, KindsOverlap
  <2>2. ~Has(s, IrqLocks)
    BY <1>3, NoIrqLocks
  <2> QED
    BY <2>1, <2>2, <1>3, <1>5 DEF Fits, Calls
<1>7. "irq" \in Entered /\ TRUE = ("irq" \in Masking)
  BY DEF Entered, Masking
<1>8. events' \in 0..MaxEvents /\ calls' \in [Threads -> Nat] /\ \A t \in Threads : calls'[t] <= calls[t]
  BY <1>2, BoundsKept
<1> QED
  BY <1>1, <1>2, <1>4, <1>6, <1>7, <1>8, EnterStep

\* A step that only touches the locks of CPU c.
LEMMA AroundIs ==
    ASSUME CInv, NEW c \in CPUs,
           UNCHANGED <<cur, saved, stash, calls>>,
           events' = events \/ (events > 0 /\ events' = events - 1),
           bkl' = bkl \/ (bkl \in {c, None} /\ bkl' \in {c, None}),
           \/ spin' = spin
           \/ \E l \in {"rq", "guard"}, v \in {c, None} :
                spin[l] \in {c, None} /\ spin' = [spin EXCEPT ![l] = v]
    PROVE  Around(c)
<1>1. bkl \in CPUs \cup {None} /\ spin \in [{"rq", "guard"} -> CPUs \cup {None}] /\ None \notin CPUs
  BY CriticalAssumption DEF CInv, Typed
<1>2. bkl' \in CPUs \cup {None} /\ spin' \in [{"rq", "guard"} -> CPUs \cup {None}]
  BY <1>1
<1>3. ASSUME NEW d \in CPUs \ {c}
      PROVE  /\ (bkl' = d) = (bkl = d)
             /\ (spin'["rq"] = d) = (spin["rq"] = d)
             /\ (spin'["guard"] = d) = (spin["guard"] = d)
  <2>1. d # c /\ d # None
    BY <1>1
  <2>2. (bkl' = d) = (bkl = d)
    BY <2>1
  <2>3. ASSUME NEW m \in {"rq", "guard"} PROVE (spin'[m] = d) = (spin[m] = d)
    <3>1. CASE spin' = spin
      BY <3>1
    <3>2. ASSUME NEW l \in {"rq", "guard"}, NEW v \in {c, None},
                 spin[l] \in {c, None}, spin' = [spin EXCEPT ![l] = v]
          PROVE  (spin'[m] = d) = (spin[m] = d)
      BY <3>2, <2>1, <1>1
    <3> QED
      BY <3>1, <3>2
  <2> QED
    BY <2>2, <2>3
<1>4. OthersKeep(c)
  BY <1>3 DEF OthersKeep
<1>5. /\ events' \in 0..MaxEvents
      /\ calls' \in [Threads -> Nat] /\ \A t \in Threads : calls'[t] <= calls[t]
  BY BoundsKept
<1> QED
  BY <1>2, <1>4, <1>5 DEF Around

-----------------------------------------------------------------------------
(* The frame a thread is in.                                                 *)

\* f is the last frame of the thread on CPU c, on q.
On(c, q, f) ==
    /\ stk[cur[c]] = Append(q, f)
    /\ Top(c) = f
    /\ Matches(q, f, count[c], bkl = c, spin["rq"] = c, spin["guard"] = c, masked[c], pending[c])

LEMMA TopIs ==
    ASSUME CInv, NEW c \in CPUs, Top(c).fn # "base"
    PROVE  \E q \in Seq(FrameSet) : \E f \in FrameSet : On(c, q, f)
<1>1. PICK s \in Seq(FrameSet) : s = stk[cur[c]]
  BY Here
<1>2. Agrees(s, count[c], bkl = c, spin["rq"] = c, spin["guard"] = c, masked[c], pending[c])
      /\ Top(c) = Tip(s)
  BY <1>1, Here
<1>3. Good(s)
  BY <1>2 DEF Agrees
<1>4. s # <<>>
  BY <1>2, BottomIs DEF Tip
<1>5. PICK q \in Seq(FrameSet), f \in FrameSet : s = Append(q, f) /\ Tip(s) = f
  BY <1>3, <1>4, TipFits
<1>6. Agrees(Append(q, f), count[c], bkl = c, spin["rq"] = c, spin["guard"] = c, masked[c], pending[c])
  BY <1>2, <1>5
<1>7. Matches(q, f, count[c], bkl = c, spin["rq"] = c, spin["guard"] = c, masked[c], pending[c])
  BY <1>6, AgreePush
<1> QED
  BY <1>1, <1>2, <1>5, <1>7 DEF On

\* What it tells.
LEMMA OnIs ==
    ASSUME CInv, NEW c \in CPUs, NEW q \in Seq(FrameSet), NEW f \in FrameSet, On(c, q, f)
    PROVE  /\ Good(q) /\ Fits(q, f) /\ f \in Legals /\ ~Has(q, Lasts) /\ Tip(q) \notin RqHolders
           /\ Total(q) \in Nat /\ Val(f) \in Nat /\ count[c] = Total(q) + Val(f)
           /\ ((bkl = c) <=> (Has(q, Bkls) \/ f \in Bkls))
           /\ ((spin["rq"] = c) <=> (f \in RqHolders))
           /\ ((spin["guard"] = c) <=> (Has(q, Guards) \/ f \in Guards))
           /\ f.fn = "out" \/ (masked[c] <=> f \in Maskeds)
           /\ masked[c] \in BOOLEAN /\ pending[c] \in BOOLEAN
           /\ (pending[c] /\ count[c] = 0) => f \in Lookers
<1>1. Matches(q, f, count[c], bkl = c, spin["rq"] = c, spin["guard"] = c, masked[c], pending[c])
  BY DEF On
<1>2. masked[c] \in BOOLEAN /\ pending[c] \in BOOLEAN
  BY Here
<1>3. Good(q) /\ Fits(q, f) /\ f \in Legals /\ ~Has(q, Lasts)
  BY <1>1 DEF Matches, Fits
<1>4. Tip(q) \notin RqHolders
  <2>1. CASE q = <<>>
    BY <2>1, BottomIs DEF Tip
  <2>2. CASE q # <<>>
    <3>1. Len(q) \in 1..Len(q)
      BY <2>2, EmptySeq
    <3> QED
      BY <2>2, <3>1, <1>3, KindsOverlap DEF Tip, Has
  <2> QED
    BY <2>1, <2>2
<1>5. Total(q) \in Nat /\ Val(f) \in Nat
  BY TotalPush
<1> QED
  BY <1>1, <1>2, <1>3, <1>4, <1>5 DEF Matches

\* Replacing it.
LEMMA ReplaceOn ==
    ASSUME CInv, NEW c \in CPUs, NEW q \in Seq(FrameSet), NEW f \in FrameSet, On(c, q, f)
    PROVE  /\ Replace(c, <<>>) => stk' = [stk EXCEPT ![cur[c]] = q]
           /\ \A g \in FrameSet : Replace(c, <<g>>) => stk' = [stk EXCEPT ![cur[c]] = Append(q, g)]
           /\ \A g, h \in FrameSet :
                Replace(c, <<g, h>>) => stk' = [stk EXCEPT ![cur[c]] = Append(Append(q, g), h)]
<1>1. stk[cur[c]] = Append(q, f)
  BY DEF On
<1>2. Front(stk[cur[c]]) = q
  BY <1>1, ReplaceIs
<1>3. \A frames : Replace(c, frames) => stk' = [stk EXCEPT ![cur[c]] = q \o frames]
  BY <1>2 DEF Replace
<1>4. Replace(c, <<>>) => stk' = [stk EXCEPT ![cur[c]] = q]
  BY <1>3, ReplaceIs, Zenon
<1>5. ASSUME NEW g \in FrameSet, Replace(c, <<g>>) PROVE stk' = [stk EXCEPT ![cur[c]] = Append(q, g)]
  <2>1. q \o <<g>> = Append(q, g)
    BY ReplaceIs
  <2> QED
    BY <2>1, <1>3, <1>5, Zenon
<1>6. ASSUME NEW g \in FrameSet, NEW h \in FrameSet, Replace(c, <<g, h>>)
      PROVE  stk' = [stk EXCEPT ![cur[c]] = Append(Append(q, g), h)]
  <2>1. q \o <<g, h>> = Append(Append(q, g), h)
    BY ReplaceIs
  <2> QED
    BY <2>1, <1>3, <1>6, Zenon
<1> QED
  BY <1>4, <1>5, <1>6

\* A step of CPU c sets its count, its mask and its queue.
Sets(c, n, off, asked) ==
    /\ off \in BOOLEAN /\ asked \in BOOLEAN
    /\ Around(c)
    /\ count' = [count EXCEPT ![c] = n]
    /\ masked' = [masked EXCEPT ![c] = off]
    /\ pending' = [pending EXCEPT ![c] = asked]

\* The last frame becomes another one.
LEMMA SwapStep ==
    ASSUME CInv, NEW c \in CPUs, NEW q \in Seq(FrameSet), NEW f \in FrameSet, On(c, q, f),
           NEW g \in FrameSet, NEW n, NEW off, NEW asked,
           Sets(c, n, off, asked), Replace(c, <<g>>),
           Fits(q, g),
           n = Total(q) + Val(g),
           (bkl' = c) <=> (Has(q, Bkls) \/ g \in Bkls),
           (spin'["rq"] = c) <=> (g \in RqHolders),
           (spin'["guard"] = c) <=> (Has(q, Guards) \/ g \in Guards),
           g.fn = "out" \/ (off <=> g \in Maskeds),
           asked /\ n = 0 => g \in Lookers
    PROVE  CInv'
<1>1. stk' = [stk EXCEPT ![cur[c]] = Append(q, g)]
  BY ReplaceOn
<1>2. Append(q, g) \in Seq(FrameSet) /\ n \in Nat
  BY PushIs, TotalPush
<1>3. Good(q)
  BY OnIs
<1>4. Matches(q, g, n, bkl' = c, spin'["rq"] = c, spin'["guard"] = c, off, asked)
  BY <1>3 DEF Matches
<1>5. Agrees(Append(q, g), n, bkl' = c, spin'["rq"] = c, spin'["guard"] = c, off, asked)
  BY <1>4, AgreePush
<1>6. Local(c, Append(q, g), n, off, asked)
  BY <1>1, <1>2, <1>5, Zenon DEF Sets, Local
<1> QED
  BY <1>6, LocalStep, Zenon

\* The last frame goes.
LEMMA PopStep ==
    ASSUME CInv, NEW c \in CPUs, NEW q \in Seq(FrameSet), NEW f \in FrameSet, On(c, q, f),
           NEW n, NEW off, NEW asked,
           Sets(c, n, off, asked), Replace(c, <<>>),
           n = Total(q),
           (bkl' = c) <=> Has(q, Bkls),
           spin'["rq"] # c,
           (spin'["guard"] = c) <=> Has(q, Guards),
           Tip(q).fn = "out" \/ (off <=> Tip(q) \in Maskeds),
           asked /\ n = 0 => Tip(q) \in Lookers
    PROVE  CInv'
<1>1. stk' = [stk EXCEPT ![cur[c]] = q]
  BY ReplaceOn
<1>2. Good(q) /\ Tip(q) \notin RqHolders /\ n \in Nat
  BY OnIs
<1>3. Agrees(q, n, bkl' = c, spin'["rq"] = c, spin'["guard"] = c, off, asked)
  BY <1>2 DEF Agrees
<1>4. Local(c, q, n, off, asked)
  BY <1>1, <1>2, <1>3, Zenon DEF Sets, Local
<1> QED
  BY <1>4, LocalStep, Zenon

\* The last section of the thread's own code goes, and critical_dispatch_pending()
\* is called.
LEMMA DispatchStep ==
    ASSUME CInv, NEW c \in CPUs, NEW q \in Seq(FrameSet), NEW f \in FrameSet, On(c, q, f),
           NEW sec \in {"sched", "irqlock", "spin"}, NEW n, NEW asked,
           Sets(c, n, FALSE, asked), ThenDispatch(c, sec),
           ~Has(q, FrameSet \ Bases), ~Has(q, IrqLocks),
           n = Total(q),
           (bkl' = c) <=> Has(q, Bkls),
           spin'["rq"] # c,
           (spin'["guard"] = c) <=> Has(q, Guards)
    PROVE  CInv'
<1>1. count'[c] = n
  BY DEF Sets, CInv, Typed
<1>2. Good(q)
  BY OnIs
<1>5. PICK off : off = FALSE /\ Sets(c, n, off, asked)
  OBVIOUS
<1>3. CASE n = 0
  <2>1. PICK g : g = Frame("call", sec, FALSE)
    OBVIOUS
  <2>2. Replace(c, <<g>>)
    BY <2>1, <1>1, <1>3 DEF ThenDispatch
  <2>3. q = <<>>
    BY <1>2, <1>3, CountTells, OwnEmpty
  <2>4. g \in FrameSet /\ g.fn = "call" /\ g.sec = sec /\ g.ipl = FALSE
    BY <2>1 DEF Frame, FrameSet
  <2>5. g \in Legals /\ g \notin Owns /\ g \notin Maskeds /\ g \notin Bkls /\ g \notin Guards
        /\ g \notin RqHolders /\ g \in Lookers
    BY <2>4 DEF Legals, Owns, Maskeds, Bkls, Guards, RqHolders, Lookers, Calls, Openers
  <2>6. Fits(q, g)
    BY <2>3, <2>4, <2>5, HasEmpty DEF Fits, Calls
  <2>7. n = Total(q) + Val(g)
    <3>1. Val(g) = 0
      BY <2>4, ValIs DEF Openers
    <3> QED
      BY <3>1, <1>3
  <2> QED
    <3>1. (off <=> g \in Maskeds)
      BY <2>5, <1>5
    <3>2. /\ ((bkl' = c) <=> (Has(q, Bkls) \/ g \in Bkls))
          /\ ((spin'["rq"] = c) <=> (g \in RqHolders))
          /\ ((spin'["guard"] = c) <=> (Has(q, Guards) \/ g \in Guards))
      BY <2>5
    <3> QED
      BY <3>1, <3>2, <2>2, <2>4, <2>5, <2>6, <2>7, <1>5, SwapStep
<1>4. CASE n # 0
  <2>1. Replace(c, <<>>)
    BY <1>1, <1>4 DEF ThenDispatch
  <2>2. Tip(q) \notin Maskeds
    <3>1. CASE q = <<>>
      BY <3>1, BottomIs DEF Tip
    <3>2. CASE q # <<>>
      <4>1. Tip(q) \in Bases /\ Tip(q) \notin IrqLocks
        <5>1. Len(q) \in 1..Len(q) /\ q[Len(q)] \in FrameSet
          BY <3>2, EmptySeq, PopIs
        <5> QED
          BY <5>1, <3>2 DEF Tip, Has
      <4> QED
        BY <4>1 DEF Bases, IrqLocks, Maskeds
    <3> QED
      BY <3>1, <3>2
  <2> QED
    <3>1. (off <=> Tip(q) \in Maskeds)
      BY <2>2, <1>5
    <3> QED
      BY <3>1, <2>1, <1>4, <1>5, PopStep
<1> QED
  BY <1>3, <1>4

\* critical_leave(): the count is that of the sections that stay open, and the lock
\* is kept for one of them.
LEMMA LeaveIs ==
    ASSUME CInv, NEW c \in CPUs, NEW q \in Seq(FrameSet), NEW f \in FrameSet, On(c, q, f),
           f.fn \in Openers, f.fn # "pick", Level(f.sec) # 3,
           NEW sec, Unit(sec) = Unit(f.sec), Leave(c, sec)
    PROVE  /\ count' = [count EXCEPT ![c] = Total(q)]
           /\ bkl = c /\ bkl' \in {c, None} /\ ((bkl' = c) <=> Has(q, Bkls))
<1>1. Good(q) /\ Fits(q, f) /\ Total(q) \in Nat /\ Val(f) \in Nat /\ count[c] = Total(q) + Val(f)
      /\ ((bkl = c) <=> (Has(q, Bkls) \/ f \in Bkls))
  BY OnIs
<1>2. Val(f) = Unit(f.sec)
  BY ValIs
<1>3. f \in Bkls /\ bkl = c
  BY <1>1 DEF Bkls
<1>4. count[c] - Unit(sec) = Total(q)
  BY <1>1, <1>2
<1>5. count' = [count EXCEPT ![c] = Total(q)]
  BY <1>4 DEF Leave, Sub
<1>6. Good(Append(q, f))
  BY <1>1, GoodPush
<1>7. BklPart(Total(Append(q, f))) = Unit(f.sec) <=> ~Has(q, Bkls)
  BY <1>6, LeaveTells
<1>8. count[c] = Total(Append(q, f))
  BY <1>1, TotalPush
<1>9. c # None
  BY CriticalAssumption
<1> QED
  BY <1>3, <1>5, <1>7, <1>8, <1>9 DEF Leave, Has

-----------------------------------------------------------------------------
(* The steps of a CPU.                                                       *)

\* bkl_trylock() succeeds: nothing of the thread's promised the lock before.
LEMMA TryBklKeeps == ASSUME CInv, NEW c \in CPUs, TryBkl(c) PROVE CInv'
<1>1. /\ Top(c).fn = "enter" /\ bkl = None /\ bkl' = c
      /\ Add(c, Top(c).sec)
      /\ Replace(c, <<[Top(c) EXCEPT !.fn = "in"]>>)
      /\ UNCHANGED <<cur, saved, masked, stash, spin, pending, calls, events>>
  BY DEF TryBkl
<1>2. PICK q \in Seq(FrameSet), f \in FrameSet : On(c, q, f)
  BY <1>1, TopIs
<1>3. Top(c) = f /\ f.fn = "enter"
  BY <1>1, <1>2 DEF On
<1>4. /\ Fits(q, f) /\ f \in Legals /\ Total(q) \in Nat /\ count[c] = Total(q) + Val(f)
      /\ ((bkl = c) <=> (Has(q, Bkls) \/ f \in Bkls))
      /\ ((spin["rq"] = c) <=> (f \in RqHolders))
      /\ ((spin["guard"] = c) <=> (Has(q, Guards) \/ f \in Guards))
      /\ f.fn = "out" \/ (masked[c] <=> f \in Maskeds)
      /\ masked[c] \in BOOLEAN /\ pending[c] \in BOOLEAN
  BY <1>2, OnIs
<1>5. PICK g : g = [f EXCEPT !.fn = "in"]
  OBVIOUS
<1>6. g \in FrameSet /\ g.fn = "in" /\ g.sec = f.sec /\ g.ipl = f.ipl
  BY <1>5 DEF FrameSet
<1>7. f.sec \in Entered
  BY <1>3, <1>4 DEF Legals, Calls, Entered, Masking
<1>8. /\ g \in Legals /\ (g \in Owns <=> f \in Owns)
      /\ g \in Bkls /\ g \notin RqHolders /\ g \notin Guards /\ f \notin RqHolders /\ f \notin Guards
      /\ (g \in Maskeds <=> f \in Maskeds)
  <2>1. g \in Legals
    BY <1>3, <1>4, <1>6, <1>7 DEF Legals, Calls
  <2>2. g \in Owns <=> f \in Owns
    BY <1>3, <1>6 DEF Owns, Calls
  <2>3. g \in Bkls
    BY <1>6, <1>7 DEF Bkls, Openers, Level, Entered, Masking
  <2>4. g \notin RqHolders /\ g \notin Guards /\ f \notin RqHolders /\ f \notin Guards
    BY <1>3, <1>6, <1>7 DEF RqHolders, Guards, Entered, Masking
  <2>5. g \in Maskeds <=> f \in Maskeds
    BY <1>3, <1>6, <1>7 DEF Maskeds, Entered, Masking
  <2> QED
    BY <2>1, <2>2, <2>3, <2>4, <2>5
<1>9. Fits(q, g)
  BY <1>3, <1>4, <1>6, <1>8 DEF Fits, Calls
<1>10. PICK n \in Nat : n = Total(q) + Val(g) /\ n # 0 /\ n = count[c] + Unit(f.sec)
  <2>1. Val(f) = 0 /\ Val(g) = Unit(f.sec)
    BY <1>3, <1>6, ValIs DEF Openers
  <2> QED
    BY <2>1, <1>4, UnitIs
<1>11. c # None
  BY CriticalAssumption
<1>12. Around(c)
  BY <1>1, <1>11, AroundIs
<1>13. Sets(c, n, masked[c], pending[c])
  BY <1>1, <1>3, <1>4, <1>10, <1>12 DEF Sets, Add, CInv, Typed
<1>14. Replace(c, <<g>>)
  BY <1>1, <1>3, <1>5
<1>15. /\ ((bkl' = c) <=> (Has(q, Bkls) \/ g \in Bkls))
       /\ ((spin'["rq"] = c) <=> (g \in RqHolders))
       /\ ((spin'["guard"] = c) <=> (Has(q, Guards) \/ g \in Guards))
       /\ (masked[c] <=> g \in Maskeds)
  BY <1>1, <1>3, <1>4, <1>8
<1> QED
  BY <1>2, <1>6, <1>9, <1>10, <1>13, <1>14, <1>15, SwapStep

\* sched_unlock()
LEMMA SchedUnlockKeeps == ASSUME CInv, NEW c \in CPUs, SchedUnlock(c) PROVE CInv'
<1>1. /\ Top(c).fn = "in" /\ Top(c).sec = "sched"
      /\ Leave(c, "sched") /\ ThenDispatch(c, "sched")
      /\ UNCHANGED <<cur, saved, masked, stash, spin, pending, calls, events>>
  BY DEF SchedUnlock
<1>2. PICK q \in Seq(FrameSet), f \in FrameSet : On(c, q, f)
  BY <1>1, TopIs
<1>3. f.fn = "in" /\ f.sec = "sched"
  BY <1>1, <1>2 DEF On
<1>4. /\ Fits(q, f) /\ f \in Legals
      /\ ((spin["rq"] = c) <=> (f \in RqHolders))
      /\ ((spin["guard"] = c) <=> (Has(q, Guards) \/ f \in Guards))
      /\ f.fn = "out" \/ (masked[c] <=> f \in Maskeds)
      /\ masked[c] \in BOOLEAN /\ pending[c] \in BOOLEAN
  BY <1>2, OnIs
<1>5. f \in Owns /\ f \notin Maskeds /\ f \notin RqHolders /\ f \notin Guards
  BY <1>3 DEF Owns, Calls, Maskeds, RqHolders, Guards
<1>6. ~Has(q, FrameSet \ Bases) /\ ~Has(q, IrqLocks)
  BY <1>3, <1>4, <1>5 DEF Fits
<1>7. /\ count' = [count EXCEPT ![c] = Total(q)]
      /\ bkl = c /\ bkl' \in {c, None} /\ ((bkl' = c) <=> Has(q, Bkls))
  <2>1. f.fn \in Openers /\ f.fn # "pick" /\ Level(f.sec) # 3 /\ Unit("sched") = Unit(f.sec)
    BY <1>3 DEF Openers, Level
  <2> QED
    BY <2>1, <1>1, <1>2, LeaveIs
<1>8. Around(c)
  BY <1>1, <1>7, AroundIs
<1>9. Sets(c, Total(q), FALSE, pending[c])
  BY <1>1, <1>3, <1>4, <1>5, <1>7, <1>8 DEF Sets, CInv, Typed
<1>10. spin'["rq"] # c /\ ((spin'["guard"] = c) <=> Has(q, Guards))
  BY <1>1, <1>4, <1>5
<1> QED
  BY <1>1, <1>2, <1>6, <1>7, <1>9, <1>10, DispatchStep

\* irq_unlock(): interrupts come back with the last one.
LEMMA IrqUnlockKeeps == ASSUME CInv, NEW c \in CPUs, IrqUnlock(c) PROVE CInv'
<1>1. /\ Top(c).fn = "in" /\ Top(c).sec = "irqlock"
      /\ Leave(c, "irqlock")
      /\ \/ Field(count[c], 1) = 1 /\ Mask(c, stash[c]) /\ ThenDispatch(c, "irqlock")
         \/ Field(count[c], 1) > 1 /\ Replace(c, <<>>) /\ UNCHANGED masked
      /\ UNCHANGED <<cur, saved, stash, spin, pending, calls, events>>
  BY DEF IrqUnlock
<1>2. PICK q \in Seq(FrameSet), f \in FrameSet : On(c, q, f)
  BY <1>1, TopIs
<1>3. f.fn = "in" /\ f.sec = "irqlock"
  BY <1>1, <1>2 DEF On
<1>4. /\ Good(q) /\ Fits(q, f) /\ f \in Legals /\ Total(q) \in Nat /\ count[c] = Total(q) + Val(f)
      /\ ((spin["rq"] = c) <=> (f \in RqHolders))
      /\ ((spin["guard"] = c) <=> (Has(q, Guards) \/ f \in Guards))
      /\ f.fn = "out" \/ (masked[c] <=> f \in Maskeds)
      /\ masked[c] \in BOOLEAN /\ pending[c] \in BOOLEAN
  BY <1>2, OnIs
<1>5. f \in Owns /\ f \in Maskeds /\ f \notin RqHolders /\ f \notin Guards /\ f \in IrqLocks
  BY <1>3 DEF Owns, Calls, Maskeds, RqHolders, Guards, IrqLocks
<1>6. ~Has(q, FrameSet \ Bases)
  BY <1>4, <1>5 DEF Fits
<1>7. /\ count' = [count EXCEPT ![c] = Total(q)]
      /\ bkl = c /\ bkl' \in {c, None} /\ ((bkl' = c) <=> Has(q, Bkls))
  <2>1. f.fn \in Openers /\ f.fn # "pick" /\ Level(f.sec) # 3 /\ Unit("irqlock") = Unit(f.sec)
    BY <1>3 DEF Openers, Level
  <2> QED
    BY <2>1, <1>1, <1>2, LeaveIs
<1>8. Around(c)
  BY <1>1, <1>7, AroundIs
<1>9. Field(count[c], 1) = 1 <=> ~Has(q, IrqLocks)
  <2>1. Good(Append(q, f)) /\ count[c] = Total(Append(q, f))
    BY <1>4, GoodPush, TotalPush
  <2> QED
    BY <2>1, <1>5, UnlockTells
<1>10. spin'["rq"] # c /\ ((spin'["guard"] = c) <=> Has(q, Guards))
  BY <1>1, <1>4, <1>5
<1>11. CASE Field(count[c], 1) = 1
  <2>1. Mask(c, stash[c]) /\ ThenDispatch(c, "irqlock") /\ ~Has(q, IrqLocks)
    BY <1>1, <1>9, <1>11
  <2>2. stash[c] = FALSE
    BY Here
  <2>3. Sets(c, Total(q), FALSE, pending[c])
    BY <2>1, <2>2, <1>1, <1>4, <1>7, <1>8 DEF Sets, CInv, Typed, Mask
  <2> QED
    BY <2>1, <2>3, <1>2, <1>6, <1>7, <1>10, DispatchStep
<1>12. CASE Field(count[c], 1) # 1
  <2>1. Replace(c, <<>>) /\ masked' = masked /\ Has(q, IrqLocks)
    BY <1>1, <1>9, <1>12
  <2>2. masked[c] <=> Tip(q) \in Maskeds
    BY <2>1, <1>3, <1>4, <1>5, NoIrqLocks
  <2>3. Total(q) # 0
    BY <2>1, <1>4, KindsOverlap, HasSub, CountTells
  <2>4. Sets(c, Total(q), masked[c], pending[c])
    BY <2>1, <1>1, <1>4, <1>7, <1>8 DEF Sets, CInv, Typed
  <2> QED
    BY <2>1, <2>2, <2>3, <2>4, <1>2, <1>7, <1>10, PopStep
<1> QED
  BY <1>11, <1>12

\* The thread's own code pushes a wait for a spinlock.
LEMMA SpinPush ==
    ASSUME CInv, NEW c \in CPUs, NEW sec \in {"guard", "rq"}, NEW S,
           S = IF sec = "guard" THEN {} ELSE {"sched"},
           Calling(c, S), Push(c, Frame("spin", sec, masked[c])),
           UNCHANGED <<cur, count, saved, masked, stash, bkl, spin, pending, events>>
    PROVE  CInv'
<1>1. PICK s \in Seq(FrameSet) : s = stk[cur[c]]
  BY Here
<1>2. /\ Agrees(s, count[c], bkl = c, spin["rq"] = c, spin["guard"] = c, masked[c], pending[c])
      /\ count[c] \in Nat /\ masked[c] \in BOOLEAN /\ pending[c] \in BOOLEAN
  BY <1>1, Here
<1>3. /\ s = <<>> \/ (Tip(s) \in Bases /\ Tip(s).sec \in S)
      /\ Len(s) < MaxNest /\ ~Has(s, FrameSet \ Bases) /\ ~Has(s, Lasts)
      /\ Tip(s) \notin Lookers /\ Tip(s) \notin RqHolders
      /\ masked[c] = FALSE /\ ~Has(s, IrqLocks)
      /\ calls' \in [Threads -> Nat] /\ \A t \in Threads : calls'[t] <= calls[t]
  <2>1. S \subseteq {"sched", "irqlock", "guard"} /\ "irqlock" \notin S
    OBVIOUS
  <2> QED
    BY <2>1, <1>1, CallingIs
<1>4. PICK f : f = Frame("spin", sec, FALSE)
  OBVIOUS
<1>5. f \in FrameSet /\ f.fn = "spin" /\ f.sec = sec /\ f.ipl = FALSE
  BY <1>4 DEF Frame, FrameSet
<1>6. f \in Legals /\ f \in Owns /\ f \notin Bkls /\ f \notin Guards /\ f \notin RqHolders /\ f \notin Maskeds
  BY <1>5 DEF Legals, Owns, Calls, Bkls, Guards, RqHolders, Maskeds, Openers
<1>7. Fits(s, f)
  <2>1. sec = "guard" => s = <<>>
    BY <1>3
  <2> QED
    BY <2>1, <1>3, <1>5, <1>6, OwnFits
<1>8. /\ Good(s) /\ count[c] = Total(s) /\ (bkl = c <=> Has(s, Bkls))
      /\ (spin["rq"] = c <=> Tip(s) \in RqHolders) /\ (spin["guard"] = c <=> Has(s, Guards))
      /\ ~(pending[c] /\ count[c] = 0)
  BY <1>2, <1>3 DEF Agrees
<1>9. count[c] = Total(s) + Val(f)
  <2>1. Val(f) = 0
    BY <1>5, ValIs DEF Openers
  <2> QED
    BY <2>1, <1>2, <1>8
<1>10. Matches(s, f, count[c], bkl = c, spin["rq"] = c, spin["guard"] = c, masked[c], pending[c])
  BY <1>3, <1>6, <1>7, <1>8, <1>9, Zenon DEF Matches
<1>11. Agrees(Append(s, f), count[c], bkl = c, spin["rq"] = c, spin["guard"] = c, masked[c], pending[c])
  BY <1>5, <1>10, AgreePush
<1>12. PICK r \in Seq(FrameSet) : r = Append(s, f)
  BY <1>5, PushIs
<1>13. Around(c)
  <2>1. OthersKeep(c)
    BY DEF OthersKeep
  <2> QED
    BY <2>1, <1>3 DEF Around, CInv, Typed
<1>14. /\ stk' = [stk EXCEPT ![cur[c]] = r]
       /\ count' = [count EXCEPT ![c] = count[c]]
       /\ masked' = [masked EXCEPT ![c] = masked[c]]
       /\ pending' = [pending EXCEPT ![c] = pending[c]]
  BY <1>1, <1>3, <1>4, <1>12 DEF Push, CInv, Typed
<1>15. Agrees(r, count[c], bkl' = c, spin'["rq"] = c, spin'["guard"] = c, masked[c], pending[c])
  BY <1>11, <1>12
<1>16. Local(c, r, count[c], masked[c], pending[c])
  BY <1>2, <1>12, <1>13, <1>14, <1>15 DEF Local
<1> QED
  BY <1>16, LocalStep, Zenon

LEMMA GuardLockKeeps == ASSUME CInv, NEW c \in CPUs, GuardLock(c) PROVE CInv'
BY SpinPush DEF GuardLock

LEMMA ChangePriorityKeeps == ASSUME CInv, NEW c \in CPUs, ChangePriority(c) PROVE CInv'
BY SpinPush DEF ChangePriority

\* __spin_preempt_disable()
LEMMA PreemptDisableKeeps == ASSUME CInv, NEW c \in CPUs, PreemptDisable(c) PROVE CInv'
<1>1. /\ Top(c).fn = "spin" /\ Top(c).sec = "guard"
      /\ Add(c, "guard")
      /\ Replace(c, <<[Top(c) EXCEPT !.fn = "try"]>>)
      /\ UNCHANGED <<cur, saved, masked, stash, bkl, spin, pending, calls, events>>
  BY DEF PreemptDisable
<1>2. PICK q \in Seq(FrameSet), f \in FrameSet : On(c, q, f)
  BY <1>1, TopIs
<1>3. Top(c) = f /\ f.fn = "spin" /\ f.sec = "guard"
  BY <1>1, <1>2 DEF On
<1>4. /\ Fits(q, f) /\ f \in Legals /\ Total(q) \in Nat /\ count[c] = Total(q) + Val(f)
      /\ ((bkl = c) <=> (Has(q, Bkls) \/ f \in Bkls))
      /\ ((spin["rq"] = c) <=> (f \in RqHolders))
      /\ ((spin["guard"] = c) <=> (Has(q, Guards) \/ f \in Guards))
      /\ f.fn = "out" \/ (masked[c] <=> f \in Maskeds)
      /\ masked[c] \in BOOLEAN /\ pending[c] \in BOOLEAN
  BY <1>2, OnIs
<1>5. PICK g : g = [f EXCEPT !.fn = "try"]
  OBVIOUS
<1>6. g \in FrameSet /\ g.fn = "try" /\ g.sec = "guard" /\ g.ipl = f.ipl
  BY <1>3, <1>5 DEF FrameSet
<1>7. /\ g \in Legals /\ f \in Owns /\ g \in Owns
      /\ g \notin Bkls /\ g \notin RqHolders /\ g \notin Guards /\ g \notin Maskeds
      /\ f \notin Bkls /\ f \notin RqHolders /\ f \notin Guards /\ f \notin Maskeds
  <2>1. g \in Legals /\ g \in Owns /\ f \in Owns
    BY <1>3, <1>4, <1>6 DEF Legals, Owns, Calls
  <2>2. g \notin RqHolders /\ g \notin Guards /\ g \notin Maskeds
    BY <1>6 DEF RqHolders, Guards, Maskeds
  <2>3. f \notin RqHolders /\ f \notin Guards /\ f \notin Maskeds
    BY <1>3 DEF RqHolders, Guards, Maskeds
  <2>4. f \notin Bkls /\ g \notin Bkls
    BY <1>3, <1>6 DEF Bkls, Level
  <2> QED
    BY <2>1, <2>2, <2>3, <2>4
<1>8. Fits(q, g)
  BY <1>3, <1>4, <1>6, <1>7 DEF Fits, Calls
<1>9. PICK n \in Nat : n = Total(q) + Val(g) /\ n # 0 /\ n = count[c] + Unit("guard")
  <2>1. Val(f) = 0 /\ Val(g) = Unit("guard")
    BY <1>3, <1>6, ValIs DEF Openers
  <2> QED
    BY <2>1, <1>4, UnitIs
<1>10. Sets(c, n, masked[c], pending[c])
  <2>1. Around(c)
    BY <1>1, AroundIs
  <2> QED
    BY <2>1, <1>1, <1>4, <1>9 DEF Sets, Add, CInv, Typed
<1>11. Replace(c, <<g>>)
  BY <1>1, <1>3, <1>5
<1>12. /\ ((bkl' = c) <=> (Has(q, Bkls) \/ g \in Bkls))
       /\ ((spin'["rq"] = c) <=> (g \in RqHolders))
       /\ ((spin'["guard"] = c) <=> (Has(q, Guards) \/ g \in Guards))
       /\ (masked[c] <=> g \in Maskeds)
  BY <1>1, <1>3, <1>4, <1>7
<1> QED
  BY <1>2, <1>6, <1>8, <1>9, <1>10, <1>11, <1>12, SwapStep

\* spin_trylock() succeeds, and with interrupts masked in the _ipl variant.
LEMMA TrySpinKeeps == ASSUME CInv, NEW c \in CPUs, TrySpin(c) PROVE CInv'
<1>1. /\ Top(c).fn = "try" \/ (Top(c).fn = "spin" /\ Top(c).sec = "rq")
      /\ spin[Top(c).sec] = None
      /\ spin' = [spin EXCEPT ![Top(c).sec] = c]
      /\ IF Top(c).sec = "rq" THEN Add(c, "rq") /\ Mask(c, TRUE)
         ELSE UNCHANGED <<count, masked>>
      /\ Replace(c, <<[Top(c) EXCEPT !.fn = "in"]>>)
      /\ UNCHANGED <<cur, saved, stash, bkl, pending, calls, events>>
  BY DEF TrySpin
<1>2. PICK q \in Seq(FrameSet), f \in FrameSet : On(c, q, f)
  BY <1>1, TopIs
<1>4. /\ Fits(q, f) /\ f \in Legals /\ Total(q) \in Nat /\ Val(f) \in Nat /\ count[c] = Total(q) + Val(f)
      /\ ((bkl = c) <=> (Has(q, Bkls) \/ f \in Bkls))
      /\ ((spin["rq"] = c) <=> (f \in RqHolders))
      /\ ((spin["guard"] = c) <=> (Has(q, Guards) \/ f \in Guards))
      /\ f.fn = "out" \/ (masked[c] <=> f \in Maskeds)
      /\ masked[c] \in BOOLEAN /\ pending[c] \in BOOLEAN
  BY <1>2, OnIs
<1>3. Top(c) = f /\ ((f.fn = "try" /\ f.sec = "guard") \/ (f.fn = "spin" /\ f.sec = "rq"))
  <2>1. Top(c) = f
    BY <1>2 DEF On
  <2>2. f.fn = "try" => f.sec = "guard"
    BY <1>4 DEF Legals, Calls
  <2> QED
    BY <2>1, <2>2, <1>1
<1>5. PICK g : g = [f EXCEPT !.fn = "in"]
  OBVIOUS
<1>6. g \in FrameSet /\ g.fn = "in" /\ g.sec = f.sec /\ g.ipl = f.ipl
  BY <1>5 DEF FrameSet
<1>7. /\ g \in Legals /\ f \in Owns /\ g \in Owns
      /\ g \notin Bkls /\ f \notin Bkls /\ f \notin RqHolders /\ f \notin Guards /\ f \notin Maskeds
      /\ (g \in RqHolders <=> f.sec = "rq") /\ (g \in Guards <=> f.sec = "guard")
      /\ (g \in Maskeds <=> f.sec = "rq")
  <2>1. g \in Legals /\ g \in Owns /\ f \in Owns
    BY <1>3, <1>4, <1>6 DEF Legals, Owns, Calls
  <2>2. f \notin RqHolders /\ f \notin Guards /\ f \notin Maskeds
    BY <1>3 DEF RqHolders, Guards, Maskeds
  <2>3. f \notin Bkls /\ g \notin Bkls
    BY <1>3, <1>6 DEF Bkls, Level
  <2>4. (g \in RqHolders <=> f.sec = "rq") /\ (g \in Guards <=> f.sec = "guard") /\ (g \in Maskeds <=> f.sec = "rq")
    BY <1>3, <1>6 DEF RqHolders, Guards, Maskeds
  <2> QED
    BY <2>1, <2>2, <2>3, <2>4
<1>8. Fits(q, g)
  BY <1>3, <1>4, <1>6, <1>7 DEF Fits, Calls
<1>9. c # None /\ spin \in [{"rq", "guard"} -> CPUs \cup {None}] /\ f.sec \in {"rq", "guard"}
  BY <1>3, CriticalAssumption DEF CInv, Typed
<1>10. Around(c)
  <2>1. spin[f.sec] \in {c, None} /\ spin' = [spin EXCEPT ![f.sec] = c] /\ c \in {c, None}
    BY <1>1, <1>3
  <2> QED
    BY <2>1, <1>1, <1>9, AroundIs
<1>11. PICK n \in Nat : n = Total(q) + Val(g) /\ n # 0
                        /\ n = IF f.sec = "rq" THEN count[c] + Unit("rq") ELSE count[c]
  <2>1. f.fn = "spin" => Val(f) = 0
    BY ValIs DEF Openers
  <2>2. f.fn = "try" => Val(f) = Unit(f.sec)
    BY ValIs DEF Openers
  <2>3. Val(g) = Unit(f.sec)
    BY <1>6, ValIs DEF Openers
  <2> QED
    BY <2>1, <2>2, <2>3, <1>3, <1>4, UnitIs
<1>12. PICK off : off = (f.sec = "rq")
  OBVIOUS
<1>13. Sets(c, n, off, pending[c])
  <2>1. CASE f.sec = "rq"
    BY <2>1, <1>1, <1>3, <1>4, <1>10, <1>11, <1>12 DEF Sets, Add, Mask, CInv, Typed
  <2>2. CASE f.sec = "guard"
    <3>1. masked[c] = FALSE /\ masked' = masked /\ count' = count
      BY <2>2, <1>1, <1>3, <1>4, <1>7
    <3> QED
      BY <3>1, <2>2, <1>1, <1>4, <1>10, <1>11, <1>12 DEF Sets, CInv, Typed
  <2> QED
    BY <2>1, <2>2, <1>3
<1>14. Replace(c, <<g>>)
  BY <1>1, <1>3, <1>5
<1>15. /\ ((bkl' = c) <=> (Has(q, Bkls) \/ g \in Bkls))
       /\ ((spin'["rq"] = c) <=> (g \in RqHolders))
       /\ ((spin'["guard"] = c) <=> (Has(q, Guards) \/ g \in Guards))
       /\ (off <=> g \in Maskeds)
  <2>1. CASE f.sec = "rq"
    BY <2>1, <1>1, <1>3, <1>4, <1>7, <1>9, <1>12
  <2>2. CASE f.sec = "guard"
    BY <2>2, <1>1, <1>3, <1>4, <1>7, <1>9, <1>12
  <2> QED
    BY <2>1, <2>2, <1>3
<1> QED
  BY <1>2, <1>6, <1>8, <1>11, <1>13, <1>14, <1>15, SwapStep

\* Two frames come in the place of the last one.
LEMMA SwapTwoStep ==
    ASSUME CInv, NEW c \in CPUs, NEW q \in Seq(FrameSet), NEW f \in FrameSet, On(c, q, f),
           NEW g \in FrameSet, NEW h \in FrameSet, NEW n, NEW off, NEW asked,
           Sets(c, n, off, asked), Replace(c, <<g, h>>),
           Fits(q, g), Fits(Append(q, g), h),
           n = Total(q), Val(g) = 0, Val(h) = 0,
           g \notin Bkls, h \notin Bkls, g \notin Guards, h \notin Guards, h \notin RqHolders,
           (bkl' = c) <=> Has(q, Bkls),
           spin'["rq"] # c,
           (spin'["guard"] = c) <=> Has(q, Guards),
           off <=> h \in Maskeds,
           asked /\ n = 0 => h \in Lookers
    PROVE  CInv'
<1>1. PICK s \in Seq(FrameSet) : s = Append(q, g)
  BY PushIs
<1>2. stk' = [stk EXCEPT ![cur[c]] = Append(s, h)]
  BY <1>1, ReplaceOn
<1>3. Append(s, h) \in Seq(FrameSet) /\ n \in Nat
  BY PushIs, TotalPush
<1>4. Good(s)
  BY <1>1, OnIs, GoodPush
<1>5. n = Total(s) + Val(h)
  <2>1. Total(s) = Total(q) + 0 /\ Total(q) \in Nat
    BY <1>1, TotalPush
  <2> QED
    BY <2>1
<1>6. (Has(s, Bkls) <=> Has(q, Bkls)) /\ (Has(s, Guards) <=> Has(q, Guards))
  BY <1>1, HasPush
<1>7. Matches(s, h, n, bkl' = c, spin'["rq"] = c, spin'["guard"] = c, off, asked)
  BY <1>1, <1>4, <1>5, <1>6 DEF Matches
<1>8. Agrees(Append(s, h), n, bkl' = c, spin'["rq"] = c, spin'["guard"] = c, off, asked)
  BY <1>7, AgreePush
<1>9. Local(c, Append(s, h), n, off, asked)
  BY <1>2, <1>3, <1>8, Zenon DEF Sets, Local
<1> QED
  BY <1>9, LocalStep, Zenon

\* spin_trylock() fails: the thread held nothing else, so it looks at the queue.
LEMMA SpinFailKeeps == ASSUME CInv, NEW c \in CPUs, SpinFail(c) PROVE CInv'
<1>1. /\ Top(c).fn = "try" /\ spin[Top(c).sec] # None
      /\ Sub(c, Top(c).sec)
      /\ Replace(c, <<[Top(c) EXCEPT !.fn = "spin"]>> \o
                    (IF count'[c] = 0 THEN <<Frame("call", "spin", FALSE)>> ELSE <<>>))
      /\ UNCHANGED <<cur, saved, masked, stash, bkl, spin, pending, calls, events>>
  BY DEF SpinFail
<1>2. PICK q \in Seq(FrameSet), f \in FrameSet : On(c, q, f)
  BY <1>1, TopIs
<1>3. /\ Fits(q, f) /\ f \in Legals /\ count[c] = Total(q) + Val(f)
      /\ ((bkl = c) <=> (Has(q, Bkls) \/ f \in Bkls))
      /\ ((spin["rq"] = c) <=> (f \in RqHolders))
      /\ ((spin["guard"] = c) <=> (Has(q, Guards) \/ f \in Guards))
      /\ f.fn = "out" \/ (masked[c] <=> f \in Maskeds)
      /\ masked[c] \in BOOLEAN /\ pending[c] \in BOOLEAN
  BY <1>2, OnIs
<1>4. Top(c) = f /\ f.fn = "try" /\ f.sec = "guard"
  <2>1. Top(c) = f
    BY <1>2 DEF On
  <2>2. f.fn = "try" => f.sec = "guard"
    BY <1>3 DEF Legals, Calls
  <2> QED
    BY <2>1, <2>2, <1>1
<1>5. q = <<>>
  BY <1>3, <1>4 DEF Fits
<1>6. PICK g : g = [f EXCEPT !.fn = "spin"]
  OBVIOUS
<1>7. g \in FrameSet /\ g.fn = "spin" /\ g.sec = "guard" /\ g.ipl = f.ipl
  BY <1>4, <1>6 DEF FrameSet
<1>8. PICK h : h = Frame("call", "spin", FALSE)
  OBVIOUS
<1>9. h \in FrameSet /\ h.fn = "call" /\ h.sec = "spin" /\ h.ipl = FALSE
  BY <1>8 DEF Frame, FrameSet
<1>10. /\ f \in Owns /\ f \notin Maskeds /\ f \notin Guards /\ f \notin RqHolders /\ f \notin Bkls
       /\ Val(f) = Unit("guard")
  <2>1. f \in Owns /\ f \notin Maskeds /\ f \notin Guards /\ f \notin RqHolders
    BY <1>4 DEF Owns, Calls, Maskeds, Guards, RqHolders
  <2>2. f \notin Bkls
    BY <1>4 DEF Bkls, Level
  <2>3. Val(f) = Unit("guard")
    BY <1>4, ValIs DEF Openers
  <2> QED
    BY <2>1, <2>2, <2>3
<1>11. /\ g \in Legals /\ g \notin Opens /\ g \notin Lasts /\ g \notin IrqLocks
       /\ g \notin Bkls /\ g \notin Guards /\ Val(g) = 0
  <2>1. g \in Legals
    BY <1>3, <1>4, <1>7 DEF Legals, Calls
  <2>2. g \notin Opens /\ g \notin Bkls /\ g \notin Guards /\ g \notin IrqLocks /\ g \notin Maskeds
    BY <1>7 DEF Opens, Openers, Bkls, Guards, IrqLocks, Maskeds
  <2>3. Val(g) = 0
    BY <1>7, ValIs DEF Openers
  <2> QED
    BY <2>1, <2>2, <2>3, KindsOverlap
<1>12. /\ h \in Legals /\ h \notin Owns /\ h \notin Bkls /\ h \notin Guards /\ h \notin RqHolders
       /\ h \notin Maskeds /\ h \in Lookers /\ Val(h) = 0
  <2>1. h \in Legals /\ h \notin Owns
    BY <1>9 DEF Legals, Owns, Calls
  <2>2. h \notin Bkls /\ h \notin Guards /\ h \notin RqHolders /\ h \notin Maskeds /\ h \in Lookers
    BY <1>9 DEF Bkls, Openers, Guards, RqHolders, Maskeds, Lookers, Calls
  <2>3. Val(h) = 0
    BY <1>9, ValIs DEF Openers
  <2> QED
    BY <2>1, <2>2, <2>3
<1>13. Fits(q, g)
  <2>1. g \in Owns
    BY <1>7 DEF Owns, Calls
  <2> QED
    BY <2>1, <1>3, <1>4, <1>5, <1>7, <1>10, <1>11, HasEmpty DEF Fits, Calls
<1>14. Fits(Append(q, g), h)
  <2>1. PICK s \in Seq(FrameSet) : s = Append(q, g)
    BY <1>7, PushIs
  <2>2. ~Has(s, Lasts) /\ ~Has(s, IrqLocks) /\ ~Has(s, Opens) /\ Tip(s) = g
    <3>1. Tip(s) = g
      BY <2>1, <1>7, PushIs
    <3>2. ASSUME NEW F, g \notin F PROVE ~Has(s, F)
      BY <3>2, <2>1, <1>5, <1>7, HasPush, HasEmpty
    <3> QED
      BY <3>1, <3>2, <1>11
  <2>3. Fits(s, h)
    BY <2>2, <1>7, <1>9, <1>12 DEF Fits, Calls
  <2> QED
    BY <2>1, <2>3
<1>15. Total(q) = 0
  BY <1>5, TotalEmpty
<1>16. count' = [count EXCEPT ![c] = Total(q)]
  <2>1. count[c] - Unit(f.sec) = Total(q)
    <3>1. Unit("guard") \in Nat
      BY UnitIs
    <3> QED
      BY <3>1, <1>3, <1>4, <1>10, <1>15
  <2> QED
    BY <2>1, <1>1, <1>4 DEF Sub
<1>17. Replace(c, <<g, h>>)
  <2>1. count'[c] = 0
    BY <1>15, <1>16 DEF CInv, Typed
  <2>2. <<g>> \o <<h>> = <<g, h>>
    BY <1>7, <1>9, PairIs
  <2> QED
    BY <2>1, <2>2, <1>1, <1>4, <1>6, <1>8
<1>18. Sets(c, Total(q), FALSE, pending[c])
  <2>1. Around(c)
    BY <1>1, AroundIs
  <2> QED
    BY <2>1, <1>1, <1>3, <1>4, <1>10, <1>16 DEF Sets, CInv, Typed
<1>19. PICK off : off = FALSE /\ Sets(c, Total(q), off, pending[c])
  BY <1>18
<1>20. /\ ((bkl' = c) <=> Has(q, Bkls)) /\ spin'["rq"] # c
       /\ ((spin'["guard"] = c) <=> Has(q, Guards)) /\ (off <=> h \in Maskeds)
  BY <1>1, <1>3, <1>10, <1>12, <1>19
<1> QED
  BY <1>2, <1>7, <1>9, <1>11, <1>12, <1>13, <1>14, <1>17, <1>19, <1>20, SwapTwoStep

\* __spin_unlock(): interrupts come back before preemption does.
LEMMA SpinUnlockKeeps == ASSUME CInv, NEW c \in CPUs, SpinUnlock(c) PROVE CInv'
<1>1. /\ Top(c).fn = "in" /\ Top(c).sec \in {"guard", "rq"}
      /\ spin' = [spin EXCEPT ![Top(c).sec] = None]
      /\ Mask(c, IF Top(c).sec = "rq" THEN Top(c).ipl ELSE masked[c])
      /\ pending' \in {pending} \cup
           (IF Top(c).sec = "rq" THEN {[pending EXCEPT ![c] = TRUE]} ELSE {})
      /\ Replace(c, <<[Top(c) EXCEPT !.fn = "rel"]>>)
      /\ UNCHANGED <<cur, count, saved, stash, bkl, calls, events>>
  BY DEF SpinUnlock
<1>2. PICK q \in Seq(FrameSet), f \in FrameSet : On(c, q, f)
  BY <1>1, TopIs
<1>3. Top(c) = f /\ f.fn = "in" /\ f.sec \in {"guard", "rq"}
  BY <1>1, <1>2 DEF On
<1>4. /\ Fits(q, f) /\ f \in Legals /\ Total(q) \in Nat /\ count[c] = Total(q) + Val(f)
      /\ ((bkl = c) <=> (Has(q, Bkls) \/ f \in Bkls))
      /\ ((spin["rq"] = c) <=> (f \in RqHolders))
      /\ ((spin["guard"] = c) <=> (Has(q, Guards) \/ f \in Guards))
      /\ f.fn = "out" \/ (masked[c] <=> f \in Maskeds)
      /\ masked[c] \in BOOLEAN /\ pending[c] \in BOOLEAN
  BY <1>2, OnIs
<1>5. PICK g : g = [f EXCEPT !.fn = "rel"]
  OBVIOUS
<1>6. g \in FrameSet /\ g.fn = "rel" /\ g.sec = f.sec /\ g.ipl = f.ipl /\ f.ipl = FALSE
  BY <1>3, <1>4, <1>5 DEF FrameSet, Legals
<1>7. /\ g \in Legals /\ f \in Owns /\ g \in Owns
      /\ g \notin Bkls /\ f \notin Bkls /\ g \notin RqHolders /\ g \notin Guards /\ g \notin Maskeds
      /\ (f \in RqHolders <=> f.sec = "rq") /\ (f \in Guards <=> f.sec = "guard")
      /\ (f \in Maskeds <=> f.sec = "rq")
  <2>1. g \in Legals /\ g \in Owns /\ f \in Owns
    BY <1>3, <1>4, <1>6 DEF Legals, Owns, Calls
  <2>2. g \notin RqHolders /\ g \notin Guards /\ g \notin Maskeds
    BY <1>6 DEF RqHolders, Guards, Maskeds
  <2>3. f \notin Bkls /\ g \notin Bkls
    BY <1>3, <1>6 DEF Bkls, Level
  <2>4. (f \in RqHolders <=> f.sec = "rq") /\ (f \in Guards <=> f.sec = "guard") /\ (f \in Maskeds <=> f.sec = "rq")
    BY <1>3 DEF RqHolders, Guards, Maskeds
  <2> QED
    BY <2>1, <2>2, <2>3, <2>4
<1>8. Fits(q, g)
  BY <1>3, <1>4, <1>6, <1>7 DEF Fits, Calls
<1>9. None \notin CPUs /\ c # None /\ spin \in [{"rq", "guard"} -> CPUs \cup {None}]
  BY CriticalAssumption DEF CInv, Typed
<1>10. spin[f.sec] = c
  BY <1>3, <1>4, <1>7
<1>11. Around(c)
  <2>1. spin[f.sec] \in {c, None} /\ spin' = [spin EXCEPT ![f.sec] = None] /\ None \in {c, None}
    BY <1>1, <1>3, <1>10
  <2> QED
    BY <2>1, <1>1, <1>3, AroundIs
<1>12. count[c] = Total(q) + Val(g) /\ count[c] # 0
  <2>1. Val(f) = Unit(f.sec) /\ Val(g) = Unit(f.sec)
    BY <1>3, <1>6, ValIs DEF Openers
  <2> QED
    BY <2>1, <1>4, UnitIs
<1>13. PICK off : off = FALSE
  OBVIOUS
<1>14. PICK asked \in BOOLEAN : pending' = [pending EXCEPT ![c] = asked]
  <2>1. pending \in [CPUs -> BOOLEAN] /\ pending = [pending EXCEPT ![c] = pending[c]]
    BY DEF CInv, Typed
  <2>2. pending' = pending \/ pending' = [pending EXCEPT ![c] = TRUE]
    BY <1>1
  <2> QED
    BY <2>1, <2>2, <1>4
<1>15. masked' = [masked EXCEPT ![c] = off]
  BY <1>1, <1>3, <1>4, <1>6, <1>7, <1>13 DEF Mask
<1>16. Sets(c, count[c], off, asked)
  BY <1>1, <1>11, <1>13, <1>14, <1>15 DEF Sets, CInv, Typed
<1>17. Replace(c, <<g>>)
  BY <1>1, <1>3, <1>5
<1>18. /\ ((bkl' = c) <=> (Has(q, Bkls) \/ g \in Bkls))
       /\ ((spin'["rq"] = c) <=> (g \in RqHolders))
       /\ ((spin'["guard"] = c) <=> (Has(q, Guards) \/ g \in Guards))
       /\ (off <=> g \in Maskeds)
  <2>1. CASE f.sec = "rq"
    BY <2>1, <1>1, <1>3, <1>4, <1>7, <1>9, <1>13
  <2>2. CASE f.sec = "guard"
    <3>1. ~Has(q, Guards)
      BY <2>2, <1>4, HasEmpty DEF Fits
    <3> QED
      BY <3>1, <2>2, <1>1, <1>3, <1>4, <1>7, <1>9, <1>13
  <2> QED
    BY <2>1, <2>2, <1>3
<1> QED
  BY <1>2, <1>6, <1>8, <1>12, <1>16, <1>17, <1>18, SwapStep

\* __spin_preempt_enable()
LEMMA PreemptEnableKeeps == ASSUME CInv, NEW c \in CPUs, PreemptEnable(c) PROVE CInv'
<1>1. /\ Top(c).fn = "rel" /\ Sub(c, Top(c).sec) /\ ThenDispatch(c, "spin")
      /\ UNCHANGED <<cur, saved, masked, stash, bkl, spin, pending, calls, events>>
  BY DEF PreemptEnable
<1>2. PICK q \in Seq(FrameSet), f \in FrameSet : On(c, q, f)
  BY <1>1, TopIs
<1>3. /\ Fits(q, f) /\ f \in Legals /\ Total(q) \in Nat /\ count[c] = Total(q) + Val(f)
      /\ ((bkl = c) <=> (Has(q, Bkls) \/ f \in Bkls))
      /\ ((spin["rq"] = c) <=> (f \in RqHolders))
      /\ ((spin["guard"] = c) <=> (Has(q, Guards) \/ f \in Guards))
      /\ f.fn = "out" \/ (masked[c] <=> f \in Maskeds)
      /\ masked[c] \in BOOLEAN /\ pending[c] \in BOOLEAN
  BY <1>2, OnIs
<1>4. Top(c) = f /\ f.fn = "rel" /\ f.sec \in {"guard", "rq"}
  <2>1. Top(c) = f
    BY <1>2 DEF On
  <2>2. f.fn = "rel" => f.sec \in {"guard", "rq"}
    BY <1>3 DEF Legals, Calls
  <2> QED
    BY <2>1, <2>2, <1>1
<1>5. f \in Owns /\ f \notin Maskeds /\ f \notin RqHolders /\ f \notin Guards /\ f \notin Bkls
  <2>1. f \in Owns /\ f \notin Maskeds /\ f \notin RqHolders /\ f \notin Guards
    BY <1>4 DEF Owns, Calls, Maskeds, RqHolders, Guards
  <2>2. f \notin Bkls
    BY <1>4 DEF Bkls, Level
  <2> QED
    BY <2>1, <2>2
<1>6. ~Has(q, FrameSet \ Bases) /\ ~Has(q, IrqLocks)
  BY <1>3, <1>4, <1>5 DEF Fits
<1>7. count' = [count EXCEPT ![c] = Total(q)]
  <2>1. Val(f) = Unit(f.sec) /\ Unit(f.sec) \in Nat
    BY <1>4, ValIs DEF Openers
  <2>2. count[c] - Unit(f.sec) = Total(q)
    BY <2>1, <1>3
  <2> QED
    BY <2>2, <1>1, <1>4 DEF Sub
<1>8. Sets(c, Total(q), FALSE, pending[c])
  <2>1. Around(c)
    BY <1>1, AroundIs
  <2> QED
    BY <2>1, <1>1, <1>3, <1>4, <1>5, <1>7 DEF Sets, CInv, Typed
<1>9. /\ ((bkl' = c) <=> Has(q, Bkls)) /\ spin'["rq"] # c
      /\ ((spin'["guard"] = c) <=> Has(q, Guards))
  BY <1>1, <1>3, <1>5
<1> QED
  BY <1>1, <1>2, <1>6, <1>8, <1>9, DispatchStep

\* A turn of critical_dispatch_pending(), which was called with interrupts on.
LEMMA DispatchKeeps == ASSUME CInv, NEW c \in CPUs, Dispatch(c) PROVE CInv'
<1>1. /\ Top(c).fn \in {"call", "disp"}
      /\ UNCHANGED <<cur, count, saved, stash, bkl, spin, calls, events>>
  BY DEF Dispatch
<1>2. PICK q \in Seq(FrameSet), f \in FrameSet : On(c, q, f)
  BY <1>1, TopIs
<1>3. /\ Fits(q, f) /\ f \in Legals /\ ~Has(q, Lasts) /\ Total(q) \in Nat /\ count[c] = Total(q) + Val(f)
      /\ ((bkl = c) <=> (Has(q, Bkls) \/ f \in Bkls))
      /\ ((spin["rq"] = c) <=> (f \in RqHolders))
      /\ ((spin["guard"] = c) <=> (Has(q, Guards) \/ f \in Guards))
      /\ f.fn = "out" \/ (masked[c] <=> f \in Maskeds)
      /\ masked[c] \in BOOLEAN /\ pending[c] \in BOOLEAN
  BY <1>2, OnIs
<1>4. Top(c) = f /\ f.fn \in Calls
  BY <1>1, <1>2 DEF On, Calls
<1>5. f.ipl = FALSE /\ f.sec \in {"sched", "irqlock", "irq", "spin"}
  BY <1>3, <1>4 DEF Legals, Calls
<1>6. f \notin Bkls /\ f \notin RqHolders /\ f \notin Guards /\ f.fn \notin Openers /\ Val(f) = 0
  <2>1. f.fn \notin Openers
    BY <1>4 DEF Calls, Openers
  <2>2. Val(f) = 0
    BY <2>1, ValIs
  <2> QED
    BY <2>1, <2>2, <1>4 DEF Calls, Bkls, RqHolders, Guards
<1>7. f.sec # "irq" /\ f.fn = "call" => masked[c] = FALSE
  <2>1. f.sec # "irq" /\ f.fn = "call" => f \notin Maskeds
    BY <1>5 DEF Maskeds
  <2> QED
    BY <2>1, <1>3
<1>8. \/ /\ Look(c)
         /\ pending' = [pending EXCEPT ![c] = FALSE]
         /\ Replace(c, <<Frame("disp", f.sec, FALSE), Frame("enter", "preempt", TRUE)>>)
         /\ Mask(c, TRUE)
      \/ /\ ~Look(c)
         /\ Replace(c, <<>>)
         /\ Mask(c, FALSE)
         /\ UNCHANGED pending
  <2>1. PICK ipl : ipl = IF f.sec = "irq" THEN FALSE ELSE IF f.fn = "call" THEN masked[c] ELSE f.ipl
    OBVIOUS
  <2>2. ipl = FALSE
    BY <2>1, <1>5, <1>7
  <2>3. \/ /\ Look(c)
           /\ pending' = [pending EXCEPT ![c] = FALSE]
           /\ Replace(c, <<Frame("disp", f.sec, ipl), Frame("enter", "preempt", TRUE)>>)
           /\ Mask(c, TRUE)
        \/ /\ ~Look(c)
           /\ Replace(c, <<>>)
           /\ Mask(c, ipl)
           /\ UNCHANGED pending
    BY <2>1, <1>4, Zenon DEF Dispatch
  <2> QED
    BY <2>2, <2>3, Zenon
<1>9. Around(c)
  BY <1>1, AroundIs
<1>10. count[c] = Total(q) /\ count' = [count EXCEPT ![c] = Total(q)]
  <2>1. count[c] = Total(q)
    BY <1>3, <1>6
  <2> QED
    BY <2>1, <1>1 DEF CInv, Typed
<1>11. /\ ((bkl' = c) <=> Has(q, Bkls)) /\ spin'["rq"] # c
       /\ ((spin'["guard"] = c) <=> Has(q, Guards))
  BY <1>1, <1>3, <1>6
<1>12. CASE Look(c)
  <2>1. PICK g : g = Frame("disp", f.sec, FALSE)
    OBVIOUS
  <2>2. PICK h : h = Frame("enter", "preempt", TRUE)
    OBVIOUS
  <2>3. g \in FrameSet /\ g.fn = "disp" /\ g.sec = f.sec /\ g.ipl = FALSE
    BY <2>1, <1>5 DEF Frame, FrameSet
  <2>4. h \in FrameSet /\ h.fn = "enter" /\ h.sec = "preempt" /\ h.ipl = TRUE
    BY <2>2 DEF Frame, FrameSet
  <2>5. Replace(c, <<g, h>>) /\ pending' = [pending EXCEPT ![c] = FALSE] /\ Mask(c, TRUE)
    BY <2>1, <2>2, <1>8, <1>12
  <2>6. /\ g \in Legals /\ g \notin Owns /\ f \notin Owns /\ g \notin Opens /\ g \notin Lasts
        /\ g \notin IrqLocks /\ g \notin Bkls /\ g \notin Guards /\ Val(g) = 0
    <3>1. g \in Legals /\ g \notin Owns /\ f \notin Owns
      BY <2>3, <1>4, <1>5 DEF Legals, Owns, Calls
    <3>2. g \notin Opens /\ g \notin Lasts /\ g \notin IrqLocks /\ g \notin Bkls /\ g \notin Guards
      BY <2>3 DEF Opens, Openers, Lasts, IrqLocks, Bkls, Guards
    <3>3. Val(g) = 0
      BY <2>3, ValIs DEF Openers
    <3> QED
      BY <3>1, <3>2, <3>3
  <2>7. /\ h \in Legals /\ h \notin Owns /\ h \notin Bkls /\ h \notin Guards /\ h \notin RqHolders
        /\ h \in Maskeds /\ Val(h) = 0
    <3>1. h \in Legals /\ h \notin Owns
      BY <2>4 DEF Legals, Owns, Calls
    <3>2. h \notin Bkls /\ h \notin Guards /\ h \notin RqHolders /\ h \in Maskeds
      BY <2>4 DEF Bkls, Openers, Guards, RqHolders, Maskeds
    <3>3. Val(h) = 0
      BY <2>4, ValIs DEF Openers
    <3> QED
      BY <3>1, <3>2, <3>3
  <2>8. ~Has(q, Opens)
    BY <1>3, <1>4 DEF Fits
  <2>9. Fits(q, g)
    BY <2>3, <2>6, <1>3, <1>4, <1>5 DEF Fits, Calls
  <2>10. Fits(Append(q, g), h)
    <3>1. PICK s \in Seq(FrameSet) : s = Append(q, g)
      BY <2>3, PushIs
    <3>2. ~Has(s, Opens)
      BY <3>1, <2>3, <2>6, <2>8, HasPush
    <3>3. ~Has(s, Lasts)
      BY <3>1, <2>3, <2>6, <1>3, HasPush
    <3>4. ~Has(s, IrqLocks) /\ ~Has(s, Bkls)
      BY <3>2, KindsOverlap, HasSub
    <3>5. Tip(s) = g
      BY <3>1, <2>3, PushIs
    <3>6. Fits(s, h)
      BY <3>2, <3>3, <3>4, <3>5, <2>3, <2>4, <2>7 DEF Fits, Calls
    <3> QED
      BY <3>1, <3>6
  <2>11. PICK off : off = TRUE
    OBVIOUS
  <2>12. PICK asked : asked = FALSE
    OBVIOUS
  <2>13. Sets(c, Total(q), off, asked)
    BY <2>5, <2>11, <2>12, <1>9, <1>10 DEF Sets, Mask
  <2>14. off <=> h \in Maskeds
    BY <2>7, <2>11
  <2> QED
    BY <2>3, <2>4, <2>5, <2>6, <2>7, <2>9, <2>10, <2>12, <2>13, <2>14, <1>2, <1>11, SwapTwoStep
<1>13. CASE ~Look(c)
  <2>1. Replace(c, <<>>) /\ Mask(c, FALSE) /\ pending' = pending
    BY <1>8, <1>13
  <2>2. Tip(q) \notin Maskeds
    <3>1. CASE f.sec = "irq"
      BY <3>1, <1>3 DEF Fits
    <3>2. CASE f.sec # "irq"
      <4>1. q = <<>> \/ Tip(q).fn = "spin"
        BY <3>2, <1>3, <1>4 DEF Fits
      <4>2. q = <<>> => Tip(q) \notin Maskeds
        BY BottomIs DEF Tip
      <4>3. Tip(q).fn = "spin" => Tip(q) \notin Maskeds
        BY DEF Maskeds
      <4> QED
        BY <4>1, <4>2, <4>3
    <3> QED
      BY <3>1, <3>2
  <2>3. PICK off : off = FALSE
    OBVIOUS
  <2>4. Sets(c, Total(q), off, pending[c])
    BY <2>1, <2>3, <1>3, <1>9, <1>10 DEF Sets, Mask, CInv, Typed
  <2>5. (off <=> Tip(q) \in Maskeds) /\ ~(pending[c] /\ Total(q) = 0)
    BY <2>2, <2>3, <1>10, <1>13 DEF Look
  <2> QED
    BY <2>1, <2>4, <2>5, <1>2, <1>11, PopStep
<1> QED
  BY <1>12, <1>13

\* An interrupt handler returns, or has a dispatch to look for.
LEMMA HandleKeeps == ASSUME CInv, NEW c \in CPUs, Handle(c) PROVE CInv'
<1>1. /\ Top(c).fn = "in" /\ Top(c).sec = "irq"
      /\ pending' \in {pending, [pending EXCEPT ![c] = TRUE]}
      /\ Leave(c, "irq") /\ ThenDispatch(c, "irq") /\ Mask(c, count'[c] = 0)
      /\ UNCHANGED <<cur, saved, stash, spin, calls, events>>
  BY DEF Handle
<1>2. PICK q \in Seq(FrameSet), f \in FrameSet : On(c, q, f)
  BY <1>1, TopIs
<1>3. f.fn = "in" /\ f.sec = "irq"
  BY <1>1, <1>2 DEF On
<1>4. /\ Good(q) /\ Fits(q, f) /\ f \in Legals /\ ~Has(q, Lasts) /\ Total(q) \in Nat
      /\ ((spin["rq"] = c) <=> (f \in RqHolders))
      /\ ((spin["guard"] = c) <=> (Has(q, Guards) \/ f \in Guards))
      /\ pending[c] \in BOOLEAN
  BY <1>2, OnIs
<1>5. f \notin RqHolders /\ f \notin Guards
  BY <1>3 DEF RqHolders, Guards
<1>6. ~Has(q, IrqLocks) /\ Tip(q) \notin Maskeds
  BY <1>3, <1>4 DEF Fits
<1>7. /\ count' = [count EXCEPT ![c] = Total(q)]
      /\ bkl = c /\ bkl' \in {c, None} /\ ((bkl' = c) <=> Has(q, Bkls))
  <2>1. f.fn \in Openers /\ f.fn # "pick" /\ Level(f.sec) # 3 /\ Unit("irq") = Unit(f.sec)
    BY <1>3 DEF Openers, Level
  <2> QED
    BY <2>1, <1>1, <1>2, LeaveIs
<1>8. Around(c)
  BY <1>1, <1>7, AroundIs
<1>9. PICK asked \in BOOLEAN : pending' = [pending EXCEPT ![c] = asked]
  <2>1. pending = [pending EXCEPT ![c] = pending[c]]
    BY DEF CInv, Typed
  <2> QED
    BY <2>1, <1>1, <1>4
<1>10. spin'["rq"] # c /\ ((spin'["guard"] = c) <=> Has(q, Guards))
  BY <1>1, <1>4, <1>5
<1>11. count'[c] = Total(q)
  BY <1>7 DEF CInv, Typed
<1>12. PICK off \in BOOLEAN : off <=> Total(q) = 0
  OBVIOUS
<1>13. Sets(c, Total(q), off, asked)
  <2>1. masked' = [masked EXCEPT ![c] = off]
    BY <1>1, <1>11, <1>12 DEF Mask
  <2> QED
    BY <2>1, <1>7, <1>8, <1>9 DEF Sets
<1>14. CASE Total(q) = 0
  <2>1. PICK g : g = Frame("call", "irq", FALSE)
    OBVIOUS
  <2>2. g \in FrameSet /\ g.fn = "call" /\ g.sec = "irq" /\ g.ipl = FALSE
    BY <2>1 DEF Frame, FrameSet
  <2>3. Replace(c, <<g>>)
    BY <2>1, <1>1, <1>11, <1>14 DEF ThenDispatch
  <2>4. g \in Legals /\ g \notin Owns /\ g \notin Bkls /\ g \notin Guards /\ g \notin RqHolders
        /\ g \in Maskeds /\ g \in Lookers
    BY <2>2 DEF Legals, Owns, Calls, Bkls, Openers, Guards, RqHolders, Maskeds, Lookers
  <2>5. Total(q) = Total(q) + Val(g)
    <3>1. Val(g) = 0
      BY <2>2, ValIs DEF Openers
    <3> QED
      BY <3>1, <1>4
  <2>6. ~Has(q, Opens)
    BY <1>4, <1>14, CountTells
  <2>7. Fits(q, g)
    BY <2>2, <2>4, <2>6, <1>4, <1>6 DEF Fits, Calls
  <2>8. /\ ((bkl' = c) <=> (Has(q, Bkls) \/ g \in Bkls))
        /\ ((spin'["rq"] = c) <=> (g \in RqHolders))
        /\ ((spin'["guard"] = c) <=> (Has(q, Guards) \/ g \in Guards))
        /\ (off <=> g \in Maskeds)
    BY <2>4, <1>7, <1>10, <1>12, <1>14
  <2> QED
    BY <2>2, <2>3, <2>4, <2>5, <2>7, <2>8, <1>2, <1>13, SwapStep
<1>15. CASE Total(q) # 0
  <2>1. Replace(c, <<>>)
    BY <1>1, <1>11, <1>15 DEF ThenDispatch
  <2>2. off <=> Tip(q) \in Maskeds
    BY <1>6, <1>12, <1>15
  <2> QED
    BY <2>1, <2>2, <1>2, <1>7, <1>10, <1>13, <1>15, PopStep
<1> QED
  BY <1>14, <1>15

-----------------------------------------------------------------------------
(* __schedule().                                                             *)

Within == {"in", "pick", "lt", "out"}

\* The frames of __schedule(): one fits where the other does.
LEMMA WithinIs ==
    ASSUME NEW q \in Seq(FrameSet), NEW f \in FrameSet, NEW g \in FrameSet, Fits(q, f),
           f.sec \in {"schedule", "preempt"}, f.fn \in Within,
           g.sec = f.sec, g.fn \in Within, g.ipl = f.ipl
    PROVE  /\ Fits(q, g)
           /\ f \in Bkls /\ g \in Bkls /\ f \notin Guards /\ g \notin Guards
           /\ (f \in RqHolders <=> f.fn = "pick") /\ (g \in RqHolders <=> g.fn = "pick")
           /\ Val(f) = Unit("sched") + (IF f.fn = "pick" THEN Unit("rq") ELSE 0)
           /\ Val(g) = Unit("sched") + (IF g.fn = "pick" THEN Unit("rq") ELSE 0)
<1> USE DEF Within
<1>1. f \in Legals
  BY DEF Fits
<1>2. g \in Legals
  BY <1>1 DEF Legals, Calls
<1>3. g \in Owns <=> f \in Owns
  BY DEF Owns, Calls
<1>4. Fits(q, g)
  BY <1>2, <1>3 DEF Fits, Calls
<1>5. f \in Bkls /\ g \in Bkls
  BY DEF Bkls, Openers, Level
<1>6. f \notin Guards /\ g \notin Guards /\ (f \in RqHolders <=> f.fn = "pick") /\ (g \in RqHolders <=> g.fn = "pick")
  BY DEF Guards, RqHolders
<1>7. ASSUME NEW h \in {f, g} PROVE Val(h) = Unit("sched") + (IF h.fn = "pick" THEN Unit("rq") ELSE 0)
  <2>1. h \in FrameSet /\ h.fn \in Openers /\ Level(h.sec) = 4 /\ Unit(h.sec) = Unit("sched")
    BY DEF Openers, Level, Unit
  <2> QED
    BY <2>1, ValIs, UnitIs
<1> QED
  BY <1>4, <1>5, <1>6, <1>7

\* A step inside __schedule() that gives rq.lock or takes it.
LEMMA WithinStep ==
    ASSUME CInv, NEW c \in CPUs, NEW q \in Seq(FrameSet), NEW f \in FrameSet, On(c, q, f),
           f.sec \in {"schedule", "preempt"}, f.fn \in Within,
           NEW g \in FrameSet, g.sec = f.sec, g.fn \in Within, g.ipl = f.ipl,
           (f.fn = "pick") # (g.fn = "pick"),
           IF g.fn = "pick" THEN Add(c, "rq") /\ spin["rq"] = None /\ spin' = [spin EXCEPT !["rq"] = c]
                            ELSE Sub(c, "rq") /\ spin' = [spin EXCEPT !["rq"] = None],
           Replace(c, <<g>>),
           NEW off \in BOOLEAN, masked' = [masked EXCEPT ![c] = off],
           g.fn = "out" \/ (off <=> g \in Maskeds),
           UNCHANGED <<cur, saved, stash, bkl, pending, calls>>,
           events' = events \/ (events > 0 /\ events' = events - 1)
    PROVE  CInv'
<1>1. /\ Fits(q, f) /\ Total(q) \in Nat /\ Val(f) \in Nat /\ count[c] = Total(q) + Val(f)
      /\ ((bkl = c) <=> (Has(q, Bkls) \/ f \in Bkls))
      /\ ((spin["rq"] = c) <=> (f \in RqHolders))
      /\ ((spin["guard"] = c) <=> (Has(q, Guards) \/ f \in Guards))
      /\ pending[c] \in BOOLEAN
  BY OnIs
<1>2. /\ Fits(q, g)
      /\ f \in Bkls /\ g \in Bkls /\ f \notin Guards /\ g \notin Guards
      /\ (f \in RqHolders <=> f.fn = "pick") /\ (g \in RqHolders <=> g.fn = "pick")
      /\ Val(f) = Unit("sched") + (IF f.fn = "pick" THEN Unit("rq") ELSE 0)
      /\ Val(g) = Unit("sched") + (IF g.fn = "pick" THEN Unit("rq") ELSE 0)
  BY <1>1, WithinIs
<1>3. PICK u \in Nat : u = Unit("sched") /\ u > 0
  BY UnitIs
<1>4. PICK w \in Nat : w = Unit("rq") /\ w > 0
  BY UnitIs
<1>5. PICK n \in Nat : n = Total(q) + Val(g) /\ n # 0 /\ count' = [count EXCEPT ![c] = n]
  <2>1. CASE g.fn = "pick"
    <3>1. Total(q) + Val(g) = count[c] + w /\ Total(q) + Val(g) \in Nat /\ Total(q) + Val(g) # 0
      BY <2>1, <1>1, <1>2, <1>3, <1>4
    <3>2. count' = [count EXCEPT ![c] = count[c] + w]
      BY <2>1, <1>4 DEF Add
    <3> QED
      BY <3>1, <3>2
  <2>2. CASE g.fn # "pick"
    <3>1. Total(q) + Val(g) = count[c] - w /\ Total(q) + Val(g) \in Nat /\ Total(q) + Val(g) # 0
      BY <2>2, <1>1, <1>2, <1>3, <1>4
    <3>2. count' = [count EXCEPT ![c] = count[c] - w]
      BY <2>2, <1>4 DEF Sub
    <3> QED
      BY <3>1, <3>2
  <2> QED
    BY <2>1, <2>2
<1>6. None \notin CPUs /\ c # None /\ spin \in [{"rq", "guard"} -> CPUs \cup {None}]
  BY CriticalAssumption DEF CInv, Typed
<1>7. PICK v \in {c, None} : spin' = [spin EXCEPT !["rq"] = v] /\ (v = c <=> g.fn = "pick")
  BY <1>6
<1>8. spin["rq"] \in {c, None}
  BY <1>1, <1>2
<1>9. Around(c)
  BY <1>7, <1>8, AroundIs
<1>10. Sets(c, n, off, pending[c])
  BY <1>1, <1>5, <1>9 DEF Sets, CInv, Typed
<1>11. /\ ((bkl' = c) <=> (Has(q, Bkls) \/ g \in Bkls))
       /\ ((spin'["rq"] = c) <=> (g \in RqHolders))
       /\ ((spin'["guard"] = c) <=> (Has(q, Guards) \/ g \in Guards))
  BY <1>1, <1>2, <1>6, <1>7
<1> QED
  BY <1>2, <1>5, <1>10, <1>11, SwapStep

\* spin_lock_ipl(&rq.lock)
LEMMA LockRqKeeps == ASSUME CInv, NEW c \in CPUs, LockRq(c) PROVE CInv'
<1>1. /\ WantsRq(c) /\ spin["rq"] = None
      /\ spin' = [spin EXCEPT !["rq"] = c]
      /\ Add(c, "rq") /\ Mask(c, TRUE)
      /\ Replace(c, <<Frame("pick", Top(c).sec, IF Top(c).fn = "lt" THEN Top(c).ipl ELSE masked[c])>>)
      /\ UNCHANGED <<cur, saved, stash, bkl, pending, calls, events>>
  BY DEF LockRq
<1>2. PICK q \in Seq(FrameSet), f \in FrameSet : On(c, q, f)
  <2>1. Top(c).fn # "base"
    BY <1>1 DEF WantsRq
  <2> QED
    BY <2>1, TopIs
<1>3. f \in Legals /\ (f.fn = "out" \/ (masked[c] <=> f \in Maskeds)) /\ masked[c] \in BOOLEAN
  BY <1>2, OnIs
<1>4. Top(c) = f /\ f.fn \in {"in", "lt"} /\ f.sec \in {"schedule", "preempt"}
  <2>1. Top(c) = f
    BY <1>2 DEF On
  <2>2. f.fn = "lt" => f.sec \in {"schedule", "preempt"}
    BY <1>3 DEF Legals, Calls
  <2> QED
    BY <2>1, <2>2, <1>1 DEF WantsRq
<1>5. f.fn = "in" => masked[c] = f.ipl
  <2>1. f.fn = "in" => (f.ipl <=> f \in Maskeds) /\ f.ipl \in BOOLEAN
    BY <1>3, <1>4 DEF Legals, Maskeds, Calls
  <2> QED
    BY <2>1, <1>3
<1>6. PICK g : g = Frame("pick", f.sec, f.ipl)
  OBVIOUS
<1>7. g \in FrameSet /\ g.fn = "pick" /\ g.sec = f.sec /\ g.ipl = f.ipl
  BY <1>6 DEF Frame, FrameSet
<1>8. Replace(c, <<g>>)
  <2>1. (IF f.fn = "lt" THEN f.ipl ELSE masked[c]) = f.ipl
    BY <1>4, <1>5
  <2> QED
    BY <2>1, <1>1, <1>4, <1>6
<1>9. PICK off \in BOOLEAN : off = TRUE /\ masked' = [masked EXCEPT ![c] = off]
  BY <1>1 DEF Mask
<1>10. off <=> g \in Maskeds
  BY <1>7, <1>9 DEF Maskeds
<1>11. f.fn \in Within /\ g.fn \in Within
  BY <1>4, <1>7 DEF Within
<1>12. (f.fn = "pick") # (g.fn = "pick")
  BY <1>4, <1>7
<1> QED
  BY <1>1, <1>2, <1>4, <1>7, <1>8, <1>9, <1>10, <1>11, <1>12, WithinStep

\* The frames that hold rq.lock in __schedule().
LEMMA PickIs ==
    ASSUME CInv, NEW c \in CPUs, Top(c).fn = "pick"
    PROVE  \E q \in Seq(FrameSet) : \E f \in FrameSet :
             /\ On(c, q, f) /\ Top(c) = f /\ f.fn = "pick" /\ f.sec \in {"schedule", "preempt"}
             /\ f.fn \in Within
<1>1. PICK q \in Seq(FrameSet), f \in FrameSet : On(c, q, f)
  BY TopIs
<1>2. Top(c) = f /\ f \in Legals
  BY <1>1, OnIs DEF On
<1>3. f.sec \in {"schedule", "preempt"}
  BY <1>2 DEF Legals, Calls
<1> QED
  BY <1>1, <1>2, <1>3 DEF Within

\* A lightweight thread is run.
LEMMA LthreadKeeps == ASSUME CInv, NEW c \in CPUs, Lthread(c) PROVE CInv'
<1>1. /\ Top(c).fn = "pick" /\ events > 0 /\ events' = events - 1
      /\ spin' = [spin EXCEPT !["rq"] = None]
      /\ Sub(c, "rq") /\ Mask(c, FALSE)
      /\ Replace(c, <<[Top(c) EXCEPT !.fn = "lt"]>>)
      /\ UNCHANGED <<cur, saved, stash, bkl, pending, calls>>
  BY DEF Lthread
<1>2. PICK q \in Seq(FrameSet), f \in FrameSet :
        /\ On(c, q, f) /\ Top(c) = f /\ f.fn = "pick" /\ f.sec \in {"schedule", "preempt"}
        /\ f.fn \in Within
  BY <1>1, PickIs
<1>3. PICK g : g = [f EXCEPT !.fn = "lt"]
  OBVIOUS
<1>4. g \in FrameSet /\ g.fn = "lt" /\ g.sec = f.sec /\ g.ipl = f.ipl /\ g.fn \in Within
  BY <1>3 DEF FrameSet, Within
<1>5. Replace(c, <<g>>)
  BY <1>1, <1>2, <1>3
<1>6. PICK off \in BOOLEAN : off = FALSE /\ masked' = [masked EXCEPT ![c] = off]
  BY <1>1 DEF Mask
<1>7. off <=> g \in Maskeds
  BY <1>4, <1>6 DEF Maskeds
<1>8. (f.fn = "pick") # (g.fn = "pick") /\ g.fn # "pick"
  BY <1>2, <1>4
<1> QED
  BY <1>1, <1>2, <1>4, <1>5, <1>6, <1>7, <1>8, WithinStep

\* The thread goes on.
LEMMA StayKeeps == ASSUME CInv, NEW c \in CPUs, Stay(c) PROVE CInv'
<1>1. /\ Top(c).fn = "pick"
      /\ spin' = [spin EXCEPT !["rq"] = None]
      /\ Sub(c, "rq")
      /\ masked' \in {masked, [masked EXCEPT ![c] = FALSE]}
      /\ Replace(c, <<[Top(c) EXCEPT !.fn = "out"]>>)
      /\ UNCHANGED <<cur, saved, stash, bkl, pending, calls, events>>
  BY DEF Stay
<1>2. PICK q \in Seq(FrameSet), f \in FrameSet :
        /\ On(c, q, f) /\ Top(c) = f /\ f.fn = "pick" /\ f.sec \in {"schedule", "preempt"}
        /\ f.fn \in Within
  BY <1>1, PickIs
<1>3. PICK g : g = [f EXCEPT !.fn = "out"]
  OBVIOUS
<1>4. g \in FrameSet /\ g.fn = "out" /\ g.sec = f.sec /\ g.ipl = f.ipl /\ g.fn \in Within
  BY <1>3 DEF FrameSet, Within
<1>5. Replace(c, <<g>>)
  BY <1>1, <1>2, <1>3
<1>6. PICK off \in BOOLEAN : masked' = [masked EXCEPT ![c] = off]
  <2>1. masked = [masked EXCEPT ![c] = masked[c]] /\ masked[c] \in BOOLEAN
    BY DEF CInv, Typed
  <2> QED
    BY <2>1, <1>1
<1>8. (f.fn = "pick") # (g.fn = "pick") /\ g.fn # "pick"
  BY <1>2, <1>4
<1> QED
  BY <1>1, <1>2, <1>4, <1>5, <1>6, <1>8, WithinStep

\* The end of __schedule().
LEMMA UnscheduleKeeps == ASSUME CInv, NEW c \in CPUs, Unschedule(c) PROVE CInv'
<1>1. /\ Top(c).fn = "out" /\ Mask(c, Top(c).ipl) /\ Leave(c, "sched")
      /\ IF Top(c).sec = "preempt" THEN Replace(c, <<>>) ELSE ThenDispatch(c, "sched")
      /\ UNCHANGED <<cur, saved, stash, spin, pending, calls, events>>
  BY DEF Unschedule
<1>2. PICK q \in Seq(FrameSet), f \in FrameSet : On(c, q, f)
  BY <1>1, TopIs
<1>3. /\ Good(q) /\ Fits(q, f) /\ f \in Legals /\ Total(q) \in Nat
      /\ ((spin["rq"] = c) <=> (f \in RqHolders))
      /\ ((spin["guard"] = c) <=> (Has(q, Guards) \/ f \in Guards))
      /\ pending[c] \in BOOLEAN
  BY <1>2, OnIs
<1>4. Top(c) = f /\ f.fn = "out" /\ f.sec \in {"schedule", "preempt", "fresh"} /\ f.ipl = (f.sec = "preempt")
  <2>1. Top(c) = f
    BY <1>2 DEF On
  <2>2. f.fn = "out"
    BY <2>1, <1>1
  <2> QED
    BY <2>1, <2>2, <1>3 DEF Legals, Calls
<1>5. f \notin RqHolders /\ f \notin Guards
  BY <1>4 DEF RqHolders, Guards
<1>6. /\ count' = [count EXCEPT ![c] = Total(q)]
      /\ bkl = c /\ bkl' \in {c, None} /\ ((bkl' = c) <=> Has(q, Bkls))
  <2>1. f.fn \in Openers /\ f.fn # "pick" /\ Level(f.sec) # 3 /\ Unit("sched") = Unit(f.sec)
    BY <1>4 DEF Openers, Level, Unit
  <2> QED
    BY <2>1, <1>1, <1>2, LeaveIs
<1>7. Around(c)
  BY <1>1, <1>6, AroundIs
<1>8. PICK off \in BOOLEAN : off = (f.sec = "preempt") /\ masked' = [masked EXCEPT ![c] = off]
  BY <1>1, <1>4 DEF Mask
<1>9. Sets(c, Total(q), off, pending[c])
  BY <1>1, <1>3, <1>6, <1>7, <1>8 DEF Sets, CInv, Typed
<1>10. spin'["rq"] # c /\ ((spin'["guard"] = c) <=> Has(q, Guards))
  BY <1>1, <1>3, <1>5
<1>11. CASE f.sec = "preempt"
  <2>1. Replace(c, <<>>)
    BY <1>1, <1>4, <1>11
  <2>2. Tip(q).fn = "disp"
    BY <1>3, <1>11 DEF Fits
  <2>3. Tip(q) \in FrameSet
    <3>1. q # <<>>
      BY <2>2, BottomIs DEF Tip
    <3> QED
      BY <3>1, PopIs DEF Tip
  <2>4. Tip(q) \in Maskeds /\ Tip(q) \in Lookers
    BY <2>2, <2>3 DEF Maskeds, Lookers, Calls
  <2>5. off <=> Tip(q) \in Maskeds
    BY <2>4, <1>8, <1>11
  <2> QED
    BY <2>1, <2>4, <2>5, <1>2, <1>6, <1>9, <1>10, PopStep
<1>12. CASE f.sec # "preempt"
  <2>1. ThenDispatch(c, "sched") /\ Sets(c, Total(q), FALSE, pending[c])
    BY <1>1, <1>4, <1>8, <1>9, <1>12
  <2>2. ~Has(q, FrameSet \ Bases) /\ ~Has(q, IrqLocks)
    <3>1. CASE f.sec = "schedule"
      <4>1. f \in Owns
        BY <3>1, <1>4 DEF Owns, Calls
      <4> QED
        BY <4>1, <3>1, <1>3 DEF Fits
    <3>2. CASE f.sec = "fresh"
      BY <3>2, <1>3, HasEmpty DEF Fits
    <3> QED
      BY <3>1, <3>2, <1>4, <1>12
  <2> QED
    BY <2>1, <2>2, <1>2, <1>6, <1>10, DispatchStep
<1> QED
  BY <1>11, <1>12

\* A thread in __schedule() holds the BKL and no spinlock of thread code, and has a
\* count.
LEMMA InScheduleIs ==
    ASSUME NEW s \in Seq(FrameSet), Good(s), Tip(s).fn \in {"pick", "out"}
    PROVE  Has(s, Bkls) /\ ~Has(s, Guards) /\ Total(s) # 0
<1>1. s # <<>>
  BY BottomIs DEF Tip
<1>2. PICK q \in Seq(FrameSet), f \in FrameSet :
        s = Append(q, f) /\ Tip(s) = f /\ Good(q) /\ Fits(q, f)
  BY <1>1, TipFits
<1>3. f.sec \in {"schedule", "preempt", "fresh"}
  BY <1>2 DEF Fits, Legals, Calls
<1>4. f \in Bkls /\ f \notin Guards
  <2>1. f \in Bkls
    BY <1>2, <1>3 DEF Bkls, Openers, Level
  <2>2. f \notin Guards
    BY <1>3 DEF Guards
  <2> QED
    BY <2>1, <2>2
<1>5. ~Has(q, Guards)
  <2>1. CASE f.sec = "schedule"
    <3>1. ~Has(q, Harders)
      BY <2>1, <1>2 DEF Fits
    <3> QED
      BY <3>1, KindsOverlap, HasSub
  <2>2. CASE f.sec = "preempt"
    <3>1. ~Has(q, Opens)
      BY <2>2, <1>2 DEF Fits
    <3>2. Guards \subseteq Opens
      BY KindsOverlap
    <3> QED
      BY <3>1, <3>2, HasSub
  <2>3. CASE f.sec = "fresh"
    BY <2>3, <1>2, HasEmpty DEF Fits
  <2> QED
    BY <2>1, <2>2, <2>3, <1>3
<1>6. Has(s, Bkls) /\ ~Has(s, Guards)
  BY <1>2, <1>4, <1>5, HasPush
<1>7. Has(s, Opens)
  BY <1>6, KindsOverlap, HasSub
<1> QED
  BY <1>6, <1>7, CountTells

\* thread_context_switch(): what the CPU holds for the one thread it holds for the
\* other.
LEMMA SwitchKeeps ==
    ASSUME CInv, NEW c \in CPUs, NEW u \in Threads, Switch(c, u)
    PROVE  CInv'
<1>1. /\ Top(c).fn = "pick" /\ \A d \in CPUs : cur[d] # u
      /\ spin' = [spin EXCEPT !["rq"] = None]
      /\ saved' = [saved EXCEPT ![cur[c]] = count[c] - Unit("rq")]
      /\ count' = [count EXCEPT ![c] = saved[u]]
      /\ cur' = [cur EXCEPT ![c] = u]
      /\ Replace(c, <<[Top(c) EXCEPT !.fn = "out"]>>)
      /\ masked' = [masked EXCEPT ![c] = FALSE]
      /\ UNCHANGED <<stash, bkl, pending, calls, events>>
  BY DEF Switch, SwapCount, Mask
<1>2. PICK q \in Seq(FrameSet), f \in FrameSet :
        /\ On(c, q, f) /\ Top(c) = f /\ f.fn = "pick" /\ f.sec \in {"schedule", "preempt"}
        /\ f.fn \in Within
  BY <1>1, PickIs
<1>3. /\ Good(q) /\ Fits(q, f) /\ Total(q) \in Nat /\ count[c] = Total(q) + Val(f)
      /\ ((bkl = c) <=> (Has(q, Bkls) \/ f \in Bkls))
      /\ ((spin["rq"] = c) <=> (f \in RqHolders))
      /\ ((spin["guard"] = c) <=> (Has(q, Guards) \/ f \in Guards))
  BY <1>2, OnIs
<1>4. PICK g : g = [f EXCEPT !.fn = "out"]
  OBVIOUS
<1>5. g \in FrameSet /\ g.fn = "out" /\ g.sec = f.sec /\ g.ipl = f.ipl /\ g.fn \in Within
  BY <1>4 DEF FrameSet, Within
<1>6. /\ Fits(q, g) /\ f \in Bkls /\ f \in RqHolders
      /\ Val(f) = Unit("sched") + Unit("rq") /\ Val(g) = Unit("sched") + 0
  BY <1>2, <1>3, <1>5, WithinIs
<1>7. PICK r \in Seq(FrameSet) : r = Append(q, g)
  BY <1>5, PushIs
<1>8. Good(r) /\ Tip(r) = g /\ Total(r) = count[c] - Unit("rq")
  <2>1. Good(r) /\ Tip(r) = g /\ Total(r) = Total(q) + Val(g)
    BY <1>3, <1>5, <1>6, <1>7, GoodPush, TotalPush, PushIs
  <2>2. PICK v \in Nat, w \in Nat : v = Unit("sched") /\ w = Unit("rq")
    BY UnitIs
  <2>3. Total(q) + (v + 0) = (Total(q) + (v + w)) - w
    BY <1>3
  <2> QED
    BY <2>1, <2>2, <2>3, <1>3, <1>6
<1>9. stk' = [stk EXCEPT ![cur[c]] = r]
  <2>1. Replace(c, <<g>>)
    BY <1>1, <1>2, <1>4
  <2> QED
    BY <2>1, <1>2, <1>5, <1>7, ReplaceOn
<1>10. /\ Typed /\ Apart /\ cur[c] \in Threads /\ u # cur[c]
       /\ None \notin CPUs /\ c # None
       /\ bkl = c /\ spin["rq"] = c
  BY <1>1, <1>3, <1>6, CriticalAssumption DEF CInv, Typed
<1>11. Good(stk[u]) /\ Tip(stk[u]).fn = "out" /\ saved[u] = Total(stk[u]) /\ stk[u] \in Seq(FrameSet)
  BY <1>1 DEF CInv, AwayAgree, Typed
<1>12. Typed'
  <2>1. count[c] - Unit("rq") \in 0..(Radix * Weight[4] - 1)
    BY <1>7, <1>8, CountTells
  <2>2. saved[u] \in Nat
    BY <1>5, <1>11, TotalPush
  <2> QED
    BY <2>1, <2>2, <1>1, <1>7, <1>9, <1>10 DEF Typed
<1>13. Apart'
  BY <1>1, <1>10 DEF Apart, Typed
<1>14. NothingStashed'
  BY <1>1 DEF CInv, NothingStashed
<1>15. ASSUME NEW d \in CPUs
       PROVE  Agrees(stk'[cur'[d]], count'[d], bkl' = d, spin'["rq"] = d,
                     spin'["guard"] = d, masked'[d], pending'[d])
  <2>1. CASE d = c
    <3>1. Has(stk[u], Bkls) /\ ~Has(stk[u], Guards) /\ Total(stk[u]) # 0
      BY <1>11, InScheduleIs
    <3>2. ~Has(Append(q, f), Guards)
      <4>1. Append(q, f) \in Seq(FrameSet) /\ Good(Append(q, f)) /\ Tip(Append(q, f)).fn \in {"pick", "out"}
        BY <1>2, <1>3, PushIs, GoodPush
      <4> QED
        BY <4>1, InScheduleIs
    <3>3. ~(spin["guard"] = c)
      BY <3>2, <1>3, HasPush
    <3>4. /\ stk'[cur'[d]] = stk[u] /\ count'[d] = Total(stk[u])
          /\ bkl' = d /\ ~(spin'["rq"] = d) /\ ~(spin'["guard"] = d)
      BY <2>1, <3>3, <1>1, <1>9, <1>10, <1>11 DEF Typed
    <3>5. Tip(stk[u]) \notin RqHolders
      BY <1>11 DEF RqHolders
    <3>6. ASSUME NEW s, NEW n, NEW off, NEW asked, Good(s), n = Total(s), Has(s, Bkls), ~Has(s, Guards),
                 n # 0, Tip(s).fn = "out", Tip(s) \notin RqHolders
          PROVE  Agrees(s, n, bkl' = d, spin'["rq"] = d, spin'["guard"] = d, off, asked)
      BY <3>4, <3>6 DEF Agrees
    <3> QED
      BY <3>1, <3>4, <3>5, <3>6, <1>11
  <2>2. CASE d # c
    <3>1. cur[d] # cur[c] /\ cur[d] \in Threads
      BY <2>2, <1>10 DEF Apart, Typed
    <3>2. stk'[cur'[d]] = stk[cur[d]] /\ count'[d] = count[d] /\ masked'[d] = masked[d] /\ pending'[d] = pending[d]
      BY <2>2, <3>1, <1>1, <1>9, <1>10 DEF Typed
    <3>3. Agrees(stk[cur[d]], count[d], bkl = d, spin["rq"] = d, spin["guard"] = d, masked[d], pending[d])
      BY DEF CInv, CpusAgree
    <3>4. bkl' = bkl /\ ~(spin'["rq"] = d) /\ ~(spin["rq"] = d) /\ spin'["guard"] = spin["guard"]
      BY <2>2, <1>1, <1>10 DEF Typed
    <3>5. Agrees(stk[cur[d]], count[d], bkl' = d, spin'["rq"] = d, spin'["guard"] = d, masked[d], pending[d])
      BY <3>3, <3>4 DEF Agrees
    <3> QED
      BY <3>2, <3>5
  <2> QED
    BY <2>1, <2>2
<1>16. ASSUME NEW t \in Threads, \A d \in CPUs : cur'[d] # t
       PROVE  Good(stk'[t]) /\ Tip(stk'[t]).fn = "out" /\ saved'[t] = Total(stk'[t])
  <2>1. CASE t = cur[c]
    <3>1. stk'[t] = r /\ saved'[t] = Total(r)
      BY <2>1, <1>1, <1>8, <1>9, <1>10 DEF Typed
    <3> QED
      BY <3>1, <1>5, <1>8
  <2>2. CASE t # cur[c]
    <3>1. stk'[t] = stk[t] /\ saved'[t] = saved[t]
      BY <2>2, <1>1, <1>9, <1>10 DEF Typed
    <3>2. \A d \in CPUs : cur[d] # t
      <4>1. ASSUME NEW d \in CPUs, d # c PROVE cur'[d] = cur[d]
        BY <4>1, <1>1, <1>10 DEF Typed
      <4> QED
        BY <4>1, <2>2, <1>16
    <3> QED
      BY <3>1, <3>2 DEF CInv, AwayAgree
  <2> QED
    BY <2>1, <2>2
<1>17. CpusAgree' /\ AwayAgree'
  BY <1>15, <1>16 DEF CpusAgree, AwayAgree
<1> QED
  BY <1>12, <1>13, <1>14, <1>17 DEF CInv

-----------------------------------------------------------------------------
(* The invariant holds.                                                      *)

LEMMA InitInv == ASSUME Init PROVE CInv
<1>1. /\ cur = Boot
      /\ stk = [t \in Threads |-> IF \E c \in CPUs : Boot[c] = t THEN <<>>
                                  ELSE <<Frame("out", "fresh", FALSE)>>]
      /\ count = [c \in CPUs |-> 0] /\ saved = [t \in Threads |-> Unit("sched")]
      /\ masked = [c \in CPUs |-> FALSE] /\ stash = [c \in CPUs |-> FALSE]
      /\ bkl = None /\ spin = [l \in {"rq", "guard"} |-> None]
      /\ pending = [c \in CPUs |-> FALSE] /\ calls = MaxCalls /\ events = MaxEvents
  BY DEF Init
<1>2. /\ MaxEvents \in Nat /\ MaxCalls \in [Threads -> Nat] /\ None \notin CPUs
      /\ Boot \in [CPUs -> Threads] /\ \A c, d \in CPUs : c # d => Boot[c] # Boot[d]
  BY CriticalAssumption
<1>3. PICK f : f = Frame("out", "fresh", FALSE)
  OBVIOUS
<1>4. f \in FrameSet /\ f.fn = "out" /\ f.sec = "fresh" /\ f.ipl = FALSE
  BY <1>3 DEF Frame, FrameSet
<1>5. PICK s \in Seq(FrameSet) : s = <<f>>
  <2>1. <<f>> \in Seq(FrameSet)
    BY <1>4
  <2> QED
    BY <2>1
<1>6. <<>> \in Seq(FrameSet)
  OBVIOUS
<1>7. s = Append(<<>>, f)
  BY <1>5
<1>8. Fits(<<>>, f)
  <2>1. f \in Legals /\ f \notin Owns
    BY <1>4 DEF Legals, Owns, Calls
  <2> QED
    BY <2>1, <1>4, HasEmpty DEF Fits, Calls
<1>9. Good(s) /\ Tip(s) = f
  BY <1>4, <1>6, <1>7, <1>8, GoodEmpty, GoodPush, PushIs
<1>10. Total(s) = Unit("sched") /\ Unit("sched") \in Nat
  <2>1. Val(f) = Unit("fresh")
    BY <1>4, ValIs DEF Openers
  <2>2. Unit("fresh") = Unit("sched") /\ Unit("sched") \in Nat
    <3>1. Unit("fresh") = Unit("sched")
      BY DEF Unit, Level
    <3> QED
      BY <3>1, UnitIs
  <2>3. Total(s) = 0 + Val(f)
    BY <1>4, <1>6, <1>7, TotalEmpty, TotalPush
  <2> QED
    BY <2>1, <2>2, <2>3
<1>11. Typed
  <2>1. stk \in [Threads -> Seq(FrameSet)]
    BY <1>1, <1>3, <1>5, <1>6
  <2>2. \A n \in Nat : n <= n
    OBVIOUS
  <2>3. calls \in [Threads -> Nat] /\ \A t \in Threads : calls[t] <= MaxCalls[t]
    BY <2>2, <1>1, <1>2
  <2>4. /\ cur \in [CPUs -> Threads]
        /\ count \in [CPUs -> Nat] /\ saved \in [Threads -> 0..(Radix * Weight[4] - 1)]
        /\ masked \in [CPUs -> BOOLEAN] /\ stash \in [CPUs -> BOOLEAN]
    <3>1. Unit("sched") \in 0..(Radix * Weight[4] - 1)
      BY <1>9, <1>10, CountTells
    <3> QED
      BY <3>1, <1>1, <1>2
  <2>5. /\ bkl \in CPUs \cup {None}
        /\ spin \in [{"rq", "guard"} -> CPUs \cup {None}]
        /\ pending \in [CPUs -> BOOLEAN]
    BY <1>1
  <2>6. events \in 0..MaxEvents
    BY <1>1, <1>2
  <2> QED
    BY <2>1, <2>3, <2>4, <2>5, <2>6 DEF Typed
<1>12. Apart /\ NothingStashed
  BY <1>1, <1>2 DEF Apart, NothingStashed
<1>13. CpusAgree
  <2> SUFFICES ASSUME NEW c \in CPUs
               PROVE  Agrees(stk[cur[c]], count[c], bkl = c, spin["rq"] = c,
                             spin["guard"] = c, masked[c], pending[c])
    BY DEF CpusAgree
  <2>1. /\ stk[cur[c]] = <<>> /\ count[c] = 0 /\ masked[c] = FALSE /\ pending[c] = FALSE
        /\ ~(bkl = c) /\ ~(spin["rq"] = c) /\ ~(spin["guard"] = c)
    BY <1>1, <1>2
  <2>2. Tip(<<>>) = Bottom
    BY DEF Tip
  <2> QED
    BY <2>1, <2>2, GoodEmpty, TotalEmpty, HasEmpty, BottomIs DEF Agrees
<1>14. AwayAgree
  <2> SUFFICES ASSUME NEW t \in Threads, \A c \in CPUs : cur[c] # t
               PROVE  Good(stk[t]) /\ Tip(stk[t]).fn = "out" /\ saved[t] = Total(stk[t])
    BY DEF AwayAgree
  <2>1. stk[t] = s /\ saved[t] = Unit("sched")
    BY <1>1, <1>3, <1>5
  <2> QED
    BY <2>1, <1>4, <1>9, <1>10
<1> QED
  BY <1>11, <1>12, <1>13, <1>14 DEF CInv

LEMMA NextInv == ASSUME CInv, [Next]_vars PROVE CInv'
<1>1. CASE UNCHANGED vars
  BY <1>1 DEF vars, CInv, Typed, Apart, NothingStashed, CpusAgree, AwayAgree
<1>2. CASE Rest
  BY <1>1, <1>2 DEF Rest
<1>3. ASSUME NEW c \in CPUs, Step(c) PROVE CInv'
  <2>1. CASE TryBkl(c) \/ SchedUnlock(c) \/ IrqUnlock(c)
    BY <2>1, TryBklKeeps, SchedUnlockKeeps, IrqUnlockKeeps
  <2>2. CASE PreemptDisable(c) \/ TrySpin(c) \/ SpinFail(c) \/ SpinUnlock(c) \/ PreemptEnable(c)
    BY <2>2, PreemptDisableKeeps, TrySpinKeeps, SpinFailKeeps, SpinUnlockKeeps, PreemptEnableKeeps
  <2>3. CASE Dispatch(c) \/ Handle(c)
    BY <2>3, DispatchKeeps, HandleKeeps
  <2>4. CASE LockRq(c) \/ Lthread(c) \/ Stay(c) \/ Unschedule(c)
    BY <2>4, LockRqKeeps, LthreadKeeps, StayKeeps, UnscheduleKeeps
  <2>5. CASE \E u \in Threads : Switch(c, u)
    BY <2>5, SwitchKeeps
  <2> QED
    BY <2>1, <2>2, <2>3, <2>4, <2>5, <1>3 DEF Step
<1>4. ASSUME NEW c \in CPUs,
             Interrupt(c) \/ SchedLock(c) \/ IrqLock(c) \/ GuardLock(c) \/ ChangePriority(c) \/ Schedule(c)
      PROVE  CInv'
  BY <1>4, InterruptKeeps, SchedLockKeeps, IrqLockKeeps, GuardLockKeeps, ChangePriorityKeeps, ScheduleKeeps
<1> QED
  BY <1>1, <1>2, <1>3, <1>4 DEF Next

\* The inductive invariant: the count, the locks and the interrupt mask of every
\* CPU agree with the calls its thread is inside of, across every switch.
THEOREM CriticalAgrees == Spec => []CInv
<1>1. Init => CInv
  BY InitInv
<1>2. CInv /\ [Next]_vars => CInv'
  BY NextInv
<1> QED
  BY <1>1, <1>2, PTL DEF Spec

\* CInv bounds the counts.
LEMMA InvTypes == ASSUME CInv PROVE TypeOK
<1>1. ASSUME NEW c \in CPUs PROVE count[c] \in 0..(Radix * Weight[4] - 1)
  <2>1. stk[cur[c]] \in Seq(FrameSet) /\ Good(stk[cur[c]]) /\ count[c] = Total(stk[cur[c]])
    BY Here DEF Agrees
  <2> QED
    BY <2>1, CountTells
<1>2. count \in [CPUs -> 0..(Radix * Weight[4] - 1)]
  BY <1>1 DEF CInv, Typed
<1>3. ASSUME NEW t \in Threads PROVE calls[t] \in 0..MaxCalls[t]
  <2>1. calls[t] \in Nat /\ calls[t] <= MaxCalls[t] /\ MaxCalls[t] \in Nat
    BY CriticalAssumption DEF CInv, Typed
  <2> QED
    BY <2>1
<1> QED
  BY <1>2, <1>3 DEF CInv, Typed, TypeOK

\* Types: critical_enter() never carries a level of the count into the next, and
\* no count leaves the 24 bits that critical.h gives the four levels.
THEOREM TypeCorrect == Spec => []TypeOK
<1>1. CInv => TypeOK
  BY InvTypes
<1> QED
  BY <1>1, CriticalAgrees, PTL

\* The count is that of the open sections.
LEMMA OpenIs ==
    ASSUME NEW t, stk[t] \in Seq(FrameSet), NEW l \in 1..4
    PROVE  Open(t, l) = Tally(stk[t], OpenAt(l))
<1>1. PICK s \in Seq(FrameSet) : s = stk[t]
  OBVIOUS
<1>2. DOMAIN s = 1..Len(s) /\ \A i \in 1..Len(s) : s[i] \in FrameSet
  BY ElementOfSeq
<1>3. \A i \in 1..Len(s) :
        (\/ /\ s[i].fn \in {"try", "in", "rel", "pick", "lt", "out"}
            /\ Level(s[i].sec) = l
         \/ s[i].fn = "pick" /\ l = 3) <=> s[i] \in OpenAt(l)
  BY <1>2 DEF OpenAt, Openers
<1>4. {i \in DOMAIN s :
        \/ /\ s[i].fn \in {"try", "in", "rel", "pick", "lt", "out"}
           /\ Level(s[i].sec) = l
        \/ s[i].fn = "pick" /\ l = 3} = {i \in 1..Len(s) : s[i] \in OpenAt(l)}
  BY <1>2, <1>3
<1> QED
  BY <1>1, <1>4 DEF Open, Tally

LEMMA InvCounts == ASSUME CInv PROVE CountIsSections
<1>1. ASSUME NEW t \in Threads, Good(stk[t]), NEW n, n = Total(stk[t]) PROVE Counts(n, t)
  <2>1. stk[t] \in Seq(FrameSet)
    BY DEF CInv, Typed
  <2>2. \A l \in 1..4 : Field(n, l) = Tally(stk[t], OpenAt(l))
    BY <2>1, <1>1, CountTells
  <2> QED
    BY <2>1, <2>2, OpenIs DEF Counts
<1>2. ASSUME NEW c \in CPUs PROVE Counts(count[c], cur[c]) /\ (BklPart(count[c]) # 0 <=> bkl = c)
  <2>1. /\ cur[c] \in Threads /\ stk[cur[c]] \in Seq(FrameSet) /\ Good(stk[cur[c]])
        /\ count[c] = Total(stk[cur[c]]) /\ (bkl = c <=> Has(stk[cur[c]], Bkls))
    BY Here DEF Agrees
  <2>2. Counts(count[c], cur[c])
    BY <2>1, <1>1
  <2>3. BklPart(count[c]) = 0 <=> ~Has(stk[cur[c]], Bkls)
    BY <2>1, CountTells
  <2> QED
    BY <2>1, <2>2, <2>3
<1>3. ASSUME NEW t \in Threads, \A c \in CPUs : cur[c] # t PROVE Counts(saved[t], t)
  BY <1>1, <1>3 DEF CInv, AwayAgree
<1> QED
  BY <1>2, <1>3 DEF CountIsSections

\* Every level of a CPU's count is the number of the sections its thread has open
\* on it, across any number of switches, and the count says who has the BKL.
THEOREM CountIsSectionsHolds == Spec => []CountIsSections
<1>1. CInv => CountIsSections
  BY InvCounts
<1> QED
  BY <1>1, CriticalAgrees, PTL

LEMMA InvMasked == ASSUME CInv PROVE MaskedWhereNeeded
<1> SUFFICES ASSUME NEW c \in CPUs
             PROVE  /\ Field(count[c], 1) > 0 \/ spin["rq"] = c => masked[c]
                    /\ Top(c) = Bottom => ~masked[c]
  BY DEF MaskedWhereNeeded
<1>1. PICK s \in Seq(FrameSet) : s = stk[cur[c]]
  BY Here
<1>2. /\ Good(s) /\ count[c] = Total(s) /\ (spin["rq"] = c <=> Tip(s) \in RqHolders)
      /\ Tip(s).fn = "out" \/ (masked[c] <=> Tip(s) \in Maskeds)
      /\ Top(c) = Tip(s)
  BY <1>1, Here DEF Agrees
<1>3. Tip(s) \in Maskeds => masked[c]
  <2>1. Tip(s) \in Maskeds => Tip(s).fn # "out"
    BY DEF Maskeds
  <2> QED
    BY <2>1, <1>2
<1>4. Field(count[c], 1) > 0 => masked[c]
  <2>1. Field(count[c], 1) > 0 => Has(s, IrqLocks)
    <3>1. Field(count[c], 1) = 0 <=> ~Has(s, IrqLocks)
      BY <1>2, CountTells
    <3> QED
      BY <3>1
  <2> QED
    BY <2>1, <1>2, <1>3, NoIrqLocks
<1>5. spin["rq"] = c => masked[c]
  BY <1>2, <1>3, KindsOverlap
<1>6. Top(c) = Bottom => ~masked[c]
  BY <1>2, BottomIs
<1> QED
  BY <1>4, <1>5, <1>6

\* Interrupts are masked inside irq_lock() and with rq.lock held, and on in code
\* outside every call.
THEOREM MaskedWhereNeededHolds == Spec => []MaskedWhereNeeded
<1>1. CInv => MaskedWhereNeeded
  BY InvMasked
<1> QED
  BY <1>1, CriticalAgrees, PTL

\* The order of the locks: rq.lock is waited for last, the spinlock of thread code
\* first.
LEMMA WaitOrder ==
    ASSUME CInv, NEW c \in CPUs
    PROVE  /\ WaitsFor(c) \in {None, bkl, spin["rq"], spin["guard"]}
           /\ spin["rq"] = c => WaitsFor(c) = None
           /\ bkl = c => WaitsFor(c) \in {None, spin["rq"]}
           /\ spin["guard"] = c => WaitsFor(c) \in {None, bkl, spin["rq"]}
<1>1. CASE Top(c).fn = "base"
  <2>1. WaitsFor(c) = None
    BY <1>1 DEF WaitsFor, WantsRq
  <2> QED
    BY <2>1
<1>2. CASE Top(c).fn # "base"
  <2>1. PICK q \in Seq(FrameSet), f \in FrameSet : On(c, q, f)
    BY <1>2, TopIs
  <2>2. /\ Fits(q, f) /\ f \in Legals
        /\ ((bkl = c) <=> (Has(q, Bkls) \/ f \in Bkls))
        /\ ((spin["rq"] = c) <=> (f \in RqHolders))
        /\ ((spin["guard"] = c) <=> (Has(q, Guards) \/ f \in Guards))
    BY <2>1, OnIs
  <2>3. Top(c) = f
    BY <2>1 DEF On
  <2>4. CASE f.fn = "enter"
    <3>1. WaitsFor(c) = bkl
      BY <2>3, <2>4 DEF WaitsFor, WantsRq
    <3>2. f \notin Bkls /\ f \notin RqHolders /\ ~Has(q, Bkls)
      BY <2>2, <2>4 DEF Bkls, Openers, RqHolders, Fits
    <3> QED
      BY <3>1, <3>2, <2>2
  <2>5. CASE f.fn \in {"spin", "try"} /\ f.sec = "guard"
    <3>1. WaitsFor(c) = spin["guard"]
      BY <2>3, <2>5 DEF WaitsFor, WantsRq
    <3>2. f \notin Bkls /\ f \notin RqHolders /\ f \notin Guards
      <4>1. f \notin Bkls
        BY <2>5 DEF Bkls, Level
      <4> QED
        BY <4>1, <2>5 DEF RqHolders, Guards
    <3>3. ~Has(q, Bkls) /\ ~Has(q, Guards)
      BY <2>2, <2>5, HasEmpty DEF Fits
    <3> QED
      BY <3>1, <3>2, <3>3, <2>2
  <2>6. CASE f.fn \in {"spin", "try"} /\ f.sec # "guard"
    <3>1. f.sec = "rq" /\ f.fn = "spin"
      BY <2>2, <2>6 DEF Legals, Calls
    <3>2. WaitsFor(c) = spin["rq"]
      BY <2>3, <3>1 DEF WaitsFor, WantsRq
    <3>3. f \notin RqHolders
      BY <3>1 DEF RqHolders
    <3> QED
      BY <3>2, <3>3, <2>2
  <2>7. CASE WantsRq(c)
    <3>1. f.fn \notin {"enter", "spin", "try"} /\ f \notin RqHolders
      BY <2>3, <2>7 DEF WantsRq, RqHolders
    <3>2. WaitsFor(c) = spin["rq"]
      BY <2>3, <2>7, <3>1 DEF WaitsFor
    <3> QED
      BY <3>1, <3>2, <2>2
  <2>8. CASE f.fn \notin {"enter", "spin", "try"} /\ ~WantsRq(c)
    <3>1. WaitsFor(c) = None
      BY <2>3, <2>8 DEF WaitsFor
    <3> QED
      BY <3>1
  <2> QED
    BY <2>4, <2>5, <2>6, <2>7, <2>8
<1> QED
  BY <1>1, <1>2

LEMMA InvNoCycle == ASSUME CInv PROVE NoWaitCycle
<1> SUFFICES ASSUME NEW S \in (SUBSET CPUs) \ {{}}, \A c \in S : WaitsFor(c) \in S
             PROVE  FALSE
  BY DEF NoWaitCycle
<1>1. None \notin S /\ S \subseteq CPUs
  BY CriticalAssumption
<1>2. spin["rq"] \notin S
  BY <1>1, WaitOrder
<1>3. bkl \notin S
  BY <1>1, <1>2, WaitOrder
<1>4. spin["guard"] \notin S
  BY <1>1, <1>2, <1>3, WaitOrder
<1>5. PICK c : c \in S
  OBVIOUS
<1> QED
  BY <1>1, <1>2, <1>3, <1>4, <1>5, WaitOrder

\* The BKL (bkl_wait()), rq.lock and a spinlock of thread code are never waited for
\* in a circle.
THEOREM NoWaitCycleHolds == Spec => []NoWaitCycle
<1>1. CInv => NoWaitCycle
  BY InvNoCycle
<1> QED
  BY <1>1, CriticalAgrees, PTL

LEMMA InvPending == ASSUME CInv PROVE PreemptNotLost
<1> SUFFICES ASSUME NEW c \in CPUs, pending[c], count[c] = 0
             PROVE  \/ Top(c).fn \in {"call", "disp"}
                    \/ Top(c).fn = "enter" /\ Top(c).sec = "irq"
  BY DEF PreemptNotLost
<1>1. Tip(stk[cur[c]]) \in Lookers /\ Top(c) = Tip(stk[cur[c]])
  BY Here DEF Agrees
<1> QED
  BY <1>1 DEF Lookers, Calls

\* A switch asked for by critical_request_dispatch() is looked for once the count
\* is zero.
THEOREM PreemptNotLostHolds == Spec => []PreemptNotLost
<1>1. CInv => PreemptNotLost
  BY InvPending
<1> QED
  BY <1>1, CriticalAgrees, PTL
===============================================================================
