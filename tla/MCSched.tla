------------------------------ MODULE MCSched ------------------------------
(* Instances of Sched with two CPUs for TLC. *)
EXTENDS Sched, TLC

CONSTANTS c0, c1, i0, i1, t1, t2, t3, l1

MCIdle == (c0 :> i0) @@ (c1 :> i1)

\* The workers may run anywhere, or t1 on c1 only, or each on one CPU only.
Free == [s \in Schedees |->
            IF s \in Idles THEN {CHOOSE c \in CPUs : Idle[c] = s} ELSE CPUs]
Bound == [Free EXCEPT ![t1] = {c1}]
Split == [s \in Schedees |-> IF s \in {t1, t3} THEN {c1}
                            ELSE IF s = t2 THEN {c0} ELSE Free[s]]

\* Idle threads at the bottom, a lightweight thread above all threads.
Flat == [s \in Schedees |-> IF s \in Idles THEN 0 ELSE IF s \in LThreads THEN 2 ELSE 1]

\* A lightweight thread that starts at the level of the threads.
Even == [s \in Schedees |-> IF s \in Idles THEN 0 ELSE 1]

\* The two threads are alike, and so are the two CPUs with their idle threads.
Alike ==
    {p \in Permutations({c0, c1, i0, i1, t1, t2}) :
        /\ p[t1] \in {t1, t2} /\ p[t2] \in {t1, t2}
        /\ \A c \in {c0, c1} : p[c] \in {c0, c1} /\ p[MCIdle[c]] = MCIdle[p[c]]}
=============================================================================
