----------------------------- MODULE PrioQueue -----------------------------
(***************************************************************************)
(* What the scheduler expects of its run queue: a set of schedees, each    *)
(* filed at a level, first come first served within a level.               *)
(***************************************************************************)
EXTENDS Integers

CONSTANTS
    Items,     \* the schedees
    CPUs,
    Affinity,  \* Affinity[s] is the set of CPUs s may run on
    Levels,    \* the priorities
    Unfiled,   \* not a level: the schedee is not queued
    None       \* not a schedee: nothing to run

VARIABLES
    filed,     \* the level each schedee is filed at, or Unfiled
    before,    \* <<s, t>>: s was filed before t, at the same level
    got        \* the latest answer of the queue

Queued == {s \in Items : filed[s] # Unfiled}

\* The schedees of a set with no better claim in that set.
Best(S) ==
    {s \in S : \A t \in S : filed[t] <= filed[s] /\ <<t, s>> \notin before}

\* The answer for the schedees in S.
Answer(S) == IF S = {} THEN {None} ELSE Best(S)

\* Those CPU c may run.
Here(c) == {s \in Queued : c \in Affinity[s]}

Without(s) == {p \in before : p[1] # s /\ p[2] # s}

Init ==
    /\ filed = [s \in Items |-> Unfiled]
    /\ before = {}
    /\ got = None

Insert(s, l) ==
    /\ filed[s] = Unfiled
    /\ filed' = [filed EXCEPT ![s] = l]
    /\ before' = before \cup {<<t, s>> : t \in {u \in Items : filed[u] = l}}
    /\ UNCHANGED got

Remove(s) ==
    /\ filed[s] # Unfiled
    /\ filed' = [filed EXCEPT ![s] = Unfiled]
    /\ before' = Without(s)
    /\ UNCHANGED got

GetNext(c) ==
    /\ got' \in Answer(Here(c))
    /\ UNCHANGED <<filed, before>>

GetNextIgnoreAffinity ==
    /\ got' \in Answer(Queued)
    /\ UNCHANGED <<filed, before>>

Extract(c) ==
    \E s \in Best(Here(c)) :
        /\ got' = s
        /\ filed' = [filed EXCEPT ![s] = Unfiled]
        /\ before' = Without(s)

Next ==
    \/ \E s \in Items : Remove(s) \/ \E l \in Levels : Insert(s, l)
    \/ \E c \in CPUs : GetNext(c) \/ Extract(c)
    \/ GetNextIgnoreAffinity

Spec == Init /\ [][Next]_<<filed, before, got>>
=============================================================================
