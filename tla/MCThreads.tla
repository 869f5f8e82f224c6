----------------------------- MODULE MCThreads ------------------------------
(* Small programs of a task of three threads, in the shapes of the thread tests. *)
EXTENDS Threads, TLC

CONSTANTS p, main, lo, hi, x, r, e, cv, bar, rw

Do(op, arg) == [op |-> op, arg |-> arg]

\* Priorities: the test thread below both, the low and the high thread.
MCBase == (p :> 1) @@ (main :> 1) @@ (lo :> 2) @@ (hi :> 3)

MCKind == (x :> "normal") @@ (r :> "recursive") @@ (e :> "errorcheck")
MCGuards == cv :> x
MCParties == bar :> 3

Both == <<Do("create", lo), Do("create", hi), Do("launch", lo), Do("launch", hi)>>
JoinBoth == <<Do("join", lo), Do("join", hi)>>
Once == <<Do("new_task", main), Do("waitpid", main)>>
Uncollected == <<Do("new_task", main)>>
Section(m) == <<Do("lock", m), Do("unlock", m)>>

\* tests/kernel/thread/mutex_pair.c: the low thread launches the high one with
\* the mutex in its hands.
Pair ==
    (p :> Once) @@
    (main :> <<Do("create", lo), Do("create", hi), Do("launch", lo)>> \o JoinBoth) @@
    (lo :> <<Do("lock", x), Do("launch", hi), Do("unlock", x)>>) @@
    (hi :> Section(x))

\* Three threads at a mutex, one with a timeout, one trying first.
Contend ==
    (p :> Uncollected) @@
    (main :> Both \o <<Do("trylock", x), Do("unlock", x)>> \o Section(x) \o JoinBoth) @@
    (lo :> <<Do("timedlock", x), Do("unlock", x)>> \o Section(x)) @@
    (hi :> Section(x) \o Section(x))

\* The main thread waits for one mutex with another in its hands.
Nested ==
    (p :> Uncollected) @@
    (main :> Both \o <<Do("lock", x)>> \o Section(r) \o <<Do("unlock", x)>> \o JoinBoth) @@
    (lo :> Section(r)) @@ (hi :> Section(x))

\* Recursive and error-checking mutexes.
Types ==
    (p :> Uncollected) @@
    (main :> Both \o JoinBoth) @@
    (lo :> <<Do("lock", r), Do("lock", r), Do("unlock", r)>> \o Section(e) \o <<Do("unlock", r)>>) @@
    (hi :> Section(r) \o <<Do("lock", e)>> \o Section(e) \o <<Do("unlock", e)>>)

\* A condition with two waiters, one with a timeout, one with another mutex.
Condition ==
    (p :> Uncollected) @@
    (main :> Both \o <<Do("lock", x), Do("happen", cv), Do("signal", cv), Do("unlock", x)>> \o
             JoinBoth) @@
    (lo :> <<Do("lock", r), Do("lock", x), Do("await", cv), Do("unlock", x), Do("unlock", r)>>) @@
    (hi :> Section(r) \o <<Do("lock", x), Do("timedawait", cv), Do("unlock", x)>>)

\* Two rounds of a barrier, with a mutex between them.
Rounds ==
    (p :> Uncollected) @@
    (main :> Both \o <<Do("barrier", bar), Do("barrier", bar)>> \o JoinBoth) @@
    (lo :> <<Do("barrier", bar)>> \o Section(x) \o <<Do("barrier", bar)>>) @@
    (hi :> <<Do("barrier", bar)>> \o Section(x) \o <<Do("barrier", bar)>>)

\* Readers and writers.
Readers ==
    (p :> Once) @@
    (main :> Both \o <<Do("write", rw), Do("down", rw)>> \o JoinBoth) @@
    (lo :> <<Do("read", rw), Do("down", rw)>>) @@
    (hi :> <<Do("read", rw), Do("down", rw), Do("write", rw), Do("down", rw)>>)

\* One thread is detached and one joined, their memory is used again, and the
\* task exits with whatever is left; then the whole task is used again.
Reclaim ==
    (p :> Once \o Once) @@
    (main :> Both \o <<Do("detach", lo), Do("join", hi),
                       Do("create", lo), Do("launch", lo), Do("create", hi)>>) @@
    (lo :> <<>>) @@ (hi :> <<>>)

\* The task exits while one of its threads joins another.
Siblings ==
    (p :> Once \o Once) @@
    (main :> Both) @@ (lo :> <<Do("join", hi)>>) @@ (hi :> <<>>)

MCPrograms == {Pair, Contend, Nested, Types, Condition, Rounds, Readers, Reclaim, Siblings}
=============================================================================
