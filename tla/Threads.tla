------------------------------ MODULE Threads -------------------------------
(***************************************************************************)
(* The threads of a task that are created, synchronise, exit, are joined,  *)
(* detached or swept away with their task, which its parent starts and     *)
(* collects: the composition of Sync and Thread over Sleep.                *)
(***************************************************************************)
EXTENDS Sync, Thread

vars == <<sleepVars, syncVars, threadVars>>

-----------------------------------------------------------------------------
(* What the calls ask of their callers.                                      *)

Locks == {"lock", "timedlock", "trylock"}

\* The calls of thread t: the task is started and collected from outside, its
\* threads are handled from inside.
Call(t) ==
    [op : Locks \cup {"unlock"}, arg : Mutexes]
      \cup [op : Awaits \cup {"happen", "signal"}, arg : Conds]
      \cup [op : {"barrier"}, arg : Barriers]
      \cup [op : {"read", "write", "down"}, arg : RwLocks]
      \cup (IF t = Parent THEN [op : {"new_task", "waitpid"}, arg : {Main}]
            ELSE [op : {"create", "launch", "join", "detach"}, arg : Threads \ {Main, Parent, t}])

\* A lock that may be refused; the caller then leaves out the next call, which is
\* about the same mutex.
MayFail(call) ==
    \/ call.op \in {"timedlock", "trylock"}
    \/ call.op = "lock" /\ Kind[call.arg] = "errorcheck"

\* A read-write lock is given back by the next call, and only then.
Pairs(s) ==
    /\ \A i \in DOMAIN s : MayFail(s[i]) => i + 1 \in DOMAIN s /\ s[i + 1].arg = s[i].arg
    /\ \A i \in DOMAIN s : s[i].op \in {"read", "write"} =>
        i + 1 \in DOMAIN s /\ s[i + 1] = [op |-> "down", arg |-> s[i].arg]
    /\ \A i \in DOMAIN s : s[i].op = "down" =>
        i - 1 \in DOMAIN s /\ s[i - 1].op \in {"read", "write"} /\ s[i - 1].arg = s[i].arg

\* How many of the first n calls of s are of these kinds and about arg.
Count(s, n, ops, arg) == Cardinality({i \in 1..n : s[i].op \in ops /\ s[i].arg = arg})

\* How many times m has been locked and not unlocked in them.
Balance(s, n, m) == Count(s, n, Locks, m) - Count(s, n, {"unlock"}, m)

\* A mutex is unlocked by the thread that has locked it, and before it ends; a
\* condition is waited for with its mutex, locked once; the caller of a lock that is
\* refused, or that it has already, leaves out the unlock that follows; and a thread
\* holds no mutex when it creates another, which may fail and end its program.
Disciplined(s) ==
    \A m \in Mutexes :
        /\ Balance(s, Len(s), m) = 0
        /\ \A i \in DOMAIN s :
            LET b == Balance(s, i - 1, m)
                again == s[i].op = "lock" /\ Kind[m] = "errorcheck" /\ b > 0
            IN  /\ s[i].op = "unlock" /\ s[i].arg = m => b > 0
                /\ s[i].op \in Awaits /\ Guards[s[i].arg] = m => b = 1
                /\ s[i].op \in {"create", "new_task"} => b = 0
                /\ s[i].arg = m /\ (s[i].op \in {"timedlock", "trylock"} \/ again) =>
                    s[i + 1] = [op |-> "unlock", arg |-> m]

\* thread_join() and thread_detach() assert that a thread is joined by one thread,
\* or detached, not both.
OneJoiner(P) ==
    \A t, u \in Threads : \A i \in DOMAIN P[t], j \in DOMAIN P[u] :
        P[t][i].op = "join" /\ P[u][j].op \in {"join", "detach"} /\ P[u][j].arg = P[t][i].arg =>
            P[u][j].op = "join" /\ t = u

ASSUME ProgramAssumption ==
    /\ IsFiniteSet(Threads)
    /\ Children \notin Mutexes \cup Conds \cup Barriers \cup RwLocks
    /\ Threads \cap Queues = {}
    /\ \A P \in Programs :
        /\ \A t \in Threads : P[t] \in Seq(Call(t)) /\ Pairs(P[t]) /\ Disciplined(P[t])
        /\ OneJoiner(P)

-----------------------------------------------------------------------------

Init ==
    /\ prog \in Programs
    /\ ip = [t \in Threads |-> 1]
    /\ at = [t \in Threads |-> IF t = Parent THEN "go" ELSE "none"]
    /\ on = [t \in Threads |-> t = Parent]
    /\ waiting = [t \in Threads |-> FALSE]
    /\ finished = {}
    /\ queue = [q \in Queues |-> <<>>]
    /\ holder = [m \in Mutexes |-> None]
    /\ depth = [m \in Mutexes |-> 0]
    /\ prio = Base
    /\ happened = [c \in Conds |-> FALSE]
    /\ arrived = [b \in Barriers |-> 0]
    /\ rwStatus = [k \in RwLocks |-> "none"]
    /\ rwCount = [k \in RwLocks |-> 0]
    /\ exited = {}
    /\ detached = {}
    /\ deleted = {}
    /\ joining = [t \in Threads |-> None]
    /\ zombies = {}
    /\ status = FALSE

\* schedee_priority_init() for a thread that is created.
Renewed ==
    prio' = [u \in Threads |-> IF InPool(u) /\ at'[u] = "new" THEN Base[u] ELSE prio[u]]

\* From task_exit() to the switch the main thread has the BKL: only the parent,
\* who does not ask for it, gets between.
Step(t) ==
    /\ at[Main] = "leaving" => t \in {Main, Parent}
    /\ \/ SyncStep(t) /\ UNCHANGED threadVars
       \/ ThreadStep(t) /\ Renewed /\ UNCHANGED <<holder, depth, happened, arrived, rwVars>>

\* The parent is through, and of the task nothing runs.
Over == AtEnd(Parent) /\ (\A t \in Threads \ {Parent} : ~on[t]) /\ UNCHANGED vars

Next == Over \/ \E t \in Threads : Step(t)

\* A ready thread runs: the programs are finite, so every thread of a higher
\* priority blocks or exits, and a tick takes turns between equals.
Spec == Init /\ [][Next]_vars /\ \A t \in Threads : WF_vars(Step(t))

-----------------------------------------------------------------------------
(* What must hold.                                                           *)

\* Where a thread can be.
Places ==
    {"none", "new", "go", "gone", "add", "prepare", "check", "sleep", "asleep", "out", "fail",
     "relock", "leaving"} \cup LockedSleeps

\* Types.
TypeOK ==
    /\ SleepTypeOK
    /\ at \in [Threads -> Places]
    /\ holder \in [Mutexes -> Threads \cup {None}]
    /\ depth \in [Mutexes -> Nat]
    /\ prio \in [Threads -> Int]
    /\ happened \in [Conds -> BOOLEAN]
    /\ arrived \in [Barriers -> Nat] /\ \A b \in Barriers : arrived[b] < Parties[b]
    /\ rwStatus \in [RwLocks -> {"none", "reading", "writing"}]
    /\ rwCount \in [RwLocks -> Nat]
    /\ exited \subseteq Threads /\ detached \subseteq Threads
    /\ deleted \subseteq Threads /\ zombies \subseteq Threads
    /\ joining \in [Threads -> Threads \cup {None}]
    /\ status \in BOOLEAN

\* Places in the loop of mutex_lock() at which the mutex is not held yet.
Locking == {"add", "prepare", "check", "sleep", "asleep", "relock", "fail"}

\* How many of the calls of t that have returned are of these kinds.
Made(t, ops, arg) == Count(prog[t], ip[t] - 1, ops, arg)

\* How many times the calls of t, as far as they have returned, have locked m.
Locked(t, m) ==
    LET gained == IF at[t] = "out" /\ Wanted(t) = m THEN 1 ELSE 0
        lent == IF Op(t) \in Awaits /\ Guards[Arg(t)] = m /\ at[t] # "go" THEN 1 ELSE 0
    IN  Balance(prog[t], ip[t] - 1, m) + gained - lent

\* Threads that still belong to the task.
Live == {t \in Threads : at[t] \notin {"none", "gone"} /\ t \notin finished}

\* A mutex belongs to the thread whose calls have locked it and not yet
\* unlocked it, as often as its count says, and to no other: also across a
\* recursive lock, a lock that timed out, and a cond_wait(), which gives it back
\* while it sleeps and returns with it.  A read-write lock is held by as many
\* as its count says, and by a writer alone.
HolderHasLocked ==
    /\ \A m \in Mutexes, t \in Live :
        Locked(t, m) = IF holder[m] = t THEN depth[m] ELSE 0
    /\ \A k \in RwLocks :
        LET In == {t \in Live : Made(t, {"read", "write"}, k) > Made(t, {"down"}, k)}
            Writers == {t \in In : prog[t][ip[t] - 1].op = "write"}
        IN  rwCount[k] = Cardinality(In) /\ (Writers # {} => Cardinality(In) = 1)

\* Thread t sleeps and will sleep until somebody wakes it.
Sleeps(t) == t \in Live /\ ~on[t] /\ waiting[t]

\* Nobody sleeps without a reason that somebody else will end: who sleeps for a
\* mutex finds it held, who sleeps in join finds the thread not exited, who sleeps
\* for a read-write lock could not enter it, and the parent sleeps while the task
\* runs.
NoLostSleeper ==
    \A t \in Threads : Sleeps(t) =>
        /\ at[t] = "asleep" => IF Op(t) = "waitpid" THEN ~status ELSE holder[Wanted(t)] # None
        /\ at[t] = "rw" => ~MayEnter(t, Arg(t))
        /\ at[t] = "join" => Arg(t) \notin exited

\* A call that gives back another mutex than m, and with it every boost
\* (schedee_priority_reverse() knows the base and nothing else).
Drops(call, m) ==
    \/ call.op = "unlock" /\ call.arg # m
    \/ call.op \in Awaits /\ Guards[call.arg] # m

\* Thread t has made such a call, or waits for a condition in one, since it
\* locked m.
UnlockedInside(t, m) ==
    \E j \in 1..ip[t] :
        /\ j < ip[t] \/ Op(t) \in Awaits
        /\ Drops(prog[t][j], m)
        /\ \A k \in j..(ip[t] - 1) : Balance(prog[t], k, m) > 0

\* The holder of a mutex has at least the base priority of everybody who sleeps
\* for it, unless it has given another mutex back inside, and a thread above its
\* own priority holds a mutex.  What a sleeper inherits itself is not passed on.
BoostCoversSleepers ==
    /\ \A t \in Threads : Sleeps(t) /\ at[t] = "asleep" /\ Op(t) # "waitpid" =>
        LET h == holder[Wanted(t)] IN prio[h] >= Base[t] \/ UnlockedInside(h, Wanted(t))
    /\ \A t \in Live : prio[t] # Base[t] => \E m \in Mutexes : holder[m] = t

\* The threads that use barrier b.
Users(b) == {t \in Threads : \E i \in DOMAIN prog[t] : prog[t][i] = [op |-> "barrier", arg |-> b]}

\* The program makes at most one of these calls for u.
AtMostOnce(ops, u) ==
    \A t, v \in Threads : \A i \in DOMAIN prog[t], j \in DOMAIN prog[v] :
        /\ prog[t][i].op \in ops /\ prog[t][i].arg = u
        /\ prog[v][j].op \in ops /\ prog[v][j].arg = u
        => t = v /\ i = j

\* As many threads as its count meet at a barrier, and every thread is created
\* once and launched once.
Meeting ==
    /\ \A b \in Barriers : Users(b) = {} \/ Cardinality(Users(b)) = Parties[b]
    /\ \A u \in Threads : AtMostOnce({"create", "new_task"}, u) /\ AtMostOnce({"launch"}, u)

\* Calls of barrier_wait() that t has returned from and has entered.
Passed(t, b) == Made(t, {"barrier"}, b)
Entered(t, b) == Passed(t, b) + IF at[t] = "barrier" /\ Arg(t) = b THEN 1 ELSE 0

\* Nobody passes a barrier before all its parties have arrived, in every round,
\* and those who sleep at it are as many as it has counted.
BarrierTogether ==
    Meeting => \A b \in Barriers :
        /\ \A t, u \in Users(b) \cap Live : Passed(t, b) <= Entered(u, b)
        /\ Cardinality({t \in Threads : Sleeps(t) /\ at[t] = "barrier" /\ Arg(t) = b}) = arrived[b]

\* Thread u is in no wait but for the end of another thread, and holds no mutex and
\* no read-write lock.
AtRest(u) ==
    /\ at[u] \notin Locking \cup {"out"} \cup (LockedSleeps \ {"join"})
    /\ Op(u) # "down" /\ \A m \in Mutexes : holder[m] # u

\* The task exits when its threads are at rest, as thread_terminate(), which undoes
\* no wait and no lock, asks of it: thread_join() has not returned before the
\* thread has exited, and a terminated thread that still runs gets into no wait.
Undisturbed ==
    \A u \in Threads \ {Main, Parent} : u \in finished \/ Calls(Main, {"end"}) => AtRest(u)

\* The single link of a thread is on at most one wait queue, once, and only
\* from the preparation to the cleanup of the wait it is in.
OneLink ==
    \A t \in Live, q \in Queues :
        /\ Cardinality({i \in DOMAIN queue[q] : queue[q][i] = t}) <= 1
        /\ t \in ToSet(queue[q]) =>
            q = IF at[t] \in {"cond", "barrier", "rw"} THEN Arg(t)
                ELSE IF Op(t) = "waitpid" /\ at[t] # "go" THEN Children
                ELSE IF at[t] \in Locking \cup {"out"} THEN Wanted(t) ELSE None

\* Memory in the pool is nobody's: no CPU is on its stack, it is not parked, no
\* thread waits to join it, and it is linked in no wait queue.
Abandoned(u) ==
    /\ ~on[u] /\ u \notin zombies
    /\ \A t \in Live : at[t] = "join" => Arg(t) # u
NotInUse(u) == Abandoned(u) /\ \A q \in Queues : u \notin ToSet(queue[q])

\* A thread goes back to the pool only when it is not in use, once it has
\* exited, whichever of join, detach, its own exit and the exit of the task
\* reclaims it and in whatever order they come.
FreedWhenUnused ==
    \A u \in Threads : at[u] = "none" => NotInUse(u)

\* Only Main creates u.
OfMain(u) ==
    \A t \in Threads \ {Main} : \A i \in DOMAIN prog[t] : prog[t][i] # [op |-> "create", arg |-> u]

\* Main, which has not given up, has detached or joined u and not created it since.
GivenUp(u) ==
    /\ ~AtEnd(Main)
    /\ \E i \in 1..(ip[Main] - 1) :
        /\ prog[Main][i].op \in {"detach", "join"} /\ prog[Main][i].arg = u
        /\ \A j \in (i + 1)..(ip[Main] - 1) : prog[Main][j] # [op |-> "create", arg |-> u]

\* And no thread is forgotten: one that has exited and was detached, before or
\* after, or joined, or whose task has exited, is back in the pool, or parked for
\* the next deletion.
NoLeak ==
    \A u \in exited \ {Main} :
        OfMain(u) /\ (GivenUp(u) \/ Main \in exited) => at[u] = "none" \/ u \in zombies

\* The main thread gets to its end, and so does the parent: no call of theirs
\* hangs, nor any thread that is joined, and the exit of the task reaches the
\* parent that waits for it.
Finishes == <>(AtEnd(Parent) /\ at[Main] \in {"gone", "none"})
=============================================================================
