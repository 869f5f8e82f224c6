-------------------------------- MODULE Runq --------------------------------
(***************************************************************************)
(* The run queue of kernel/sched/strategy/runq/list_array.c: a list per    *)
(* priority and a bitmap of the occupied ones.  Every operation runs under *)
(* rq.lock, so each is one step.  A word of the bitmap is the set of its   *)
(* set bits.                                                               *)
(***************************************************************************)
EXTENDS Integers, Sequences, SequencesExt

CONSTANTS
    Items,     \* the schedees
    CPUs,
    Affinity,  \* Affinity[s] is the set of CPUs s may run on
    MaxPrio,   \* SCHED_PRIORITY_MAX; SCHED_PRIORITY_MIN is 0
    Bits,      \* bits in a word of the map, 64 in the code
    Prios,     \* the priorities schedees claim
    None       \* NULL

Levels == 0..MaxPrio
Words == 0..(MaxPrio \div Bits)

ASSUME RunqAssumption ==
    /\ MaxPrio \in Nat
    /\ Bits \in Nat \ {0}
    /\ Prios \subseteq Levels
    /\ Affinity \in [Items -> SUBSET CPUs]
    /\ None \notin Items

VARIABLES
    list,      \* queue->list
    occupied,  \* queue->occupied
    prio,      \* the priority each schedee claims
    runqPrio,  \* schedee->runq_prio
    got        \* what the latest search returned

vars == <<list, occupied, prio, runqPrio, got>>

\* The schedees in some list.
Queued == UNION {ToSet(list[l]) : l \in Levels}

Init ==
    /\ list = [l \in Levels |-> <<>>]
    /\ occupied = [w \in Words |-> {}]
    /\ prio \in [Items -> Prios]
    /\ runqPrio = prio
    /\ got = None

\* The highest bit of word w that is set, as a priority.
TopOf(w, word) == w * Bits + (CHOOSE b \in word : \A a \in word : a <= b)

\* Mutant: the mask leaves out the bit of p itself.
OccupiedBelowStrict(p) ==
    LET w == p \div Bits
        below == {b \in occupied[w] : b < p % Bits}
        scan[v \in -1..w] ==
            IF v = -1 THEN -1
            ELSE LET word == IF v = w THEN below ELSE occupied[v]
                 IN  IF word # {} THEN TopOf(v, word) ELSE scan[v - 1]
    IN  IF p < 0 THEN -1 ELSE scan[w]

\* runq_occupied_below(): the highest occupied priority at or below p.
OccupiedBelow(p) ==
    LET w == p \div Bits
        masked == {b \in occupied[w] : b <= p % Bits}
        scan[v \in -1..w] ==
            IF v = -1 THEN -1
            ELSE LET word == IF v = w THEN masked ELSE occupied[v]
                 IN  IF word # {} THEN TopOf(v, word) ELSE scan[v - 1]
    IN  IF p < 0 THEN -1 ELSE scan[w]

\* The first schedee of a list that may run on c, or None.
FirstHere(c, q) ==
    LET i == SelectInSeq(q, LAMBDA s : c \in Affinity[s])
    IN  IF i = 0 THEN None ELSE q[i]

\* The search of runq_get_next() and runq_extract(): down the occupied levels.
Search(c) ==
    LET from[i \in -1..MaxPrio] ==
            IF i = -1 THEN None
            ELSE LET s == FirstHere(c, list[i])
                 IN  IF s # None THEN s ELSE from[OccupiedBelow(i - 1)]
    IN  from[OccupiedBelow(MaxPrio)]

\* runq_insert()
RunqInsert(s) ==
    LET p == prio[s]
    IN  /\ s \notin Queued
        /\ runqPrio' = [runqPrio EXCEPT ![s] = p]
        /\ list' = [list EXCEPT ![p] = Append(@, s)]
        /\ occupied' = [occupied EXCEPT ![p \div Bits] = @ \cup {p % Bits}]
        /\ UNCHANGED <<prio, got>>

\* Mutant: the bit of the priority the schedee now claims is reconsidered.
UnlinkClaimed(s) ==
    LET p == prio[s]
    IN  /\ list' = [l \in Levels |-> RemoveFirst(list[l], s)]
        /\ occupied' = IF list'[p] # <<>> THEN occupied
                       ELSE [occupied EXCEPT ![p \div Bits] = @ \ {p % Bits}]
        /\ UNCHANGED <<prio, runqPrio>>

\* runq_remove(): dlist_del() unlinks the schedee from wherever it is; the bit
\* that is reconsidered is that of runq_prio.
Unlink(s) ==
    LET p == runqPrio[s]
    IN  /\ list' = [l \in Levels |-> RemoveFirst(list[l], s)]
        /\ occupied' = IF list'[p] # <<>> THEN occupied
                       ELSE [occupied EXCEPT ![p \div Bits] = @ \ {p % Bits}]
        /\ UNCHANGED <<prio, runqPrio>>

RunqRemove(s) ==
    /\ s \in Queued
    /\ Unlink(s)
    /\ UNCHANGED got

\* runq_get_next()
RunqGetNext(c) ==
    /\ got' = Search(c)
    /\ UNCHANGED <<list, occupied, prio, runqPrio>>

\* runq_extract(); __schedule() calls it only with something to find.
RunqExtract(c) ==
    /\ Search(c) # None
    /\ got' = Search(c)
    /\ Unlink(Search(c))

\* runq_get_next_ignore_affinity(): the top occupied level is the answer, but
\* for a stale map.
RunqGetNextIgnoreAffinity ==
    LET i == OccupiedBelow(MaxPrio)
    IN  /\ got' = IF i < 0 THEN None
                  ELSE IF list[i] = <<>> THEN None ELSE Head(list[i])
        /\ UNCHANGED <<list, occupied, prio, runqPrio>>

\* A schedee claims another priority, queued or not: sched_change_priority()
\* does not requeue one that is active, such as a filed prev.
Reprioritise(s, p) ==
    /\ prio' = [prio EXCEPT ![s] = p]
    /\ UNCHANGED <<list, occupied, runqPrio, got>>

Next ==
    \/ \E s \in Items : \/ RunqInsert(s) \/ RunqRemove(s)
                        \/ \E p \in Prios : Reprioritise(s, p)
    \/ \E c \in CPUs : RunqGetNext(c) \/ RunqExtract(c)
    \/ RunqGetNextIgnoreAffinity

Spec == Init /\ [][Next]_vars

-----------------------------------------------------------------------------
\* The bitmap and the lists agree: a bit is set exactly while its level's list
\* is not empty ("the bit can never be clear while something is queued",
\* list_array.c).
MapMatchesLists ==
    \A l \in Levels : (l % Bits) \in occupied[l \div Bits] <=> list[l] # <<>>

\* The level a schedee is filed at, or Unfiled.
Unfiled == -1
Filed(s) == IF s \in Queued THEN runqPrio[s] ELSE Unfiled

\* Who stands before whom in a list.
Before ==
    {p \in Queued \X Queued :
        \E l \in Levels : \E j \in 1..Len(list[l]) :
            list[l][j] = p[2] /\ p[1] \in ToSet(SubSeq(list[l], 1, j - 1))}

Abstract ==
    INSTANCE PrioQueue WITH filed <- [s \in Items |-> Filed(s)],
                            before <- Before

\* The lists and the bitmap implement the priority queue: every search finds
\* the first come of the highest level that may run on the CPU.
ImplementsPrioQueue == Abstract!Spec
=============================================================================
