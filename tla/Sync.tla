-------------------------------- MODULE Sync --------------------------------
(***************************************************************************)
(* Mutexes of the three types with priority inheritance, condition         *)
(* variables, barriers and read-write locks: mutex.c, cond.c, barrier.c    *)
(* and rwlock.c of kernel/thread/sync, and kernel/sched/sync/mutex.c.      *)
(***************************************************************************)
EXTENDS Sleep

CONSTANTS
    Mutexes,
    Conds,
    Barriers,
    RwLocks,
    Kind,      \* the type of each mutex: normal, recursive or errorcheck
    Guards,    \* the mutex each condition is used with
    Parties,   \* the count each barrier was initialised with
    Base       \* base_priority of each thread

ASSUME SyncAssumption ==
    /\ Mutexes \cup Conds \cup Barriers \cup RwLocks \subseteq Queues
    /\ Mutexes \cap (Conds \cup Barriers \cup RwLocks) = {}
    /\ Conds \cap (Barriers \cup RwLocks) = {}
    /\ Barriers \cap RwLocks = {}
    /\ Kind \in [Mutexes -> {"normal", "recursive", "errorcheck"}]
    /\ Guards \in [Conds -> Mutexes]
    /\ Parties \in [Barriers -> Nat \ {0}]
    /\ Base \in [Threads -> Int]
    /\ None \notin Threads

VARIABLES
    holder,    \* mutex.holder
    depth,     \* mutex.lock_count
    prio,      \* current_priority of each thread
    happened,  \* what each condition stands for
    arrived,   \* barrier.current_count
    rwStatus,  \* rwlock.status
    rwCount    \* rwlock.count

mutexVars == <<holder, depth, prio>>
rwVars == <<rwStatus, rwCount>>
syncVars == <<mutexVars, happened, arrived, rwVars>>

-----------------------------------------------------------------------------
(* Mutexes.                                                                  *)

\* The calls that wait for a condition, for ever and until a time.
Awaits == {"await", "timedawait"}

\* The mutex that t locks in the call it is in; cond_wait() locks it again.
Wanted(t) == IF Op(t) \in Awaits THEN Guards[Arg(t)] ELSE Arg(t)

\* mutex_trylock() succeeds.
MayTake(t, m) ==
    \/ holder[m] = None
    \/ Kind[m] = "recursive" /\ holder[m] = t

\* mutex_trylock() answers -EDEADLK, which ends the wait.
Deadlk(t, m) == Kind[m] = "errorcheck" /\ holder[m] = t

Take(t, m) ==
    /\ holder' = [holder EXCEPT ![m] = t]
    /\ depth' = [depth EXCEPT ![m] = @ + 1]
    /\ UNCHANGED prio

\* Mutant: the holder takes the priority of the last one to wait.
InheritLast(t, m) ==
    /\ prio' = [prio EXCEPT ![holder[m]] = prio[t]]
    /\ UNCHANGED <<holder, depth>>

\* mutex_priority_inherit(): the holder rises to the waiter, and never falls.
Inherit(t, m) ==
    /\ prio' = [prio EXCEPT ![holder[m]] = IF prio[t] > @ THEN prio[t] ELSE @]
    /\ UNCHANGED <<holder, depth>>

\* A call ends without its effect: the program leaves out the call that would
\* have undone it.
Skip == 2

\* What follows a lock: the caller of cond_wait() looks again, the caller of
\* cond_timedwait() goes on whatever it answered.
After(t) == IF Op(t) = "await" THEN 0 ELSE 1

\* The condition of mutex_lock_common(), first evaluated before the wait.
LockTry(t) ==
    /\ Calls(t, {"lock", "timedlock"}) \/ Inside(t, "relock")
    /\ LET m == Wanted(t)
       IN  \/ MayTake(t, m) /\ Take(t, m) /\ Return(t, After(t))
           \/ Deadlk(t, m) /\ Return(t, Skip) /\ UNCHANGED mutexVars
           \/ ~MayTake(t, m) /\ ~Deadlk(t, m) /\ Inherit(t, m) /\ Goto(t, "add")
    /\ UNCHANGED <<prog, on, waiting, finished, queue, happened, arrived, rwVars>>

\* It is evaluated again on every turn of the loop, after the preparation; a
\* thread that waits does not come to hold the mutex, so -EDEADLK is not new.
LockCheck(t) ==
    /\ Inside(t, "check") /\ Op(t) \in {"lock", "timedlock"} \cup Awaits
    /\ LET m == Wanted(t)
       IN  \/ MayTake(t, m) /\ Take(t, m) /\ Goto(t, "out")
           \/ ~MayTake(t, m) /\ Inherit(t, m) /\ Goto(t, "sleep")
    /\ UNCHANGED <<prog, on, waiting, finished, queue, happened, arrived, rwVars>>

\* The other steps of WAITQ_WAIT_TIMEOUT().
LockWait(t) ==
    /\ Op(t) \in {"lock", "timedlock"} \cup Awaits
    /\ \/ WaitLoop(t, Wanted(t))
       \/ Op(t) = "timedlock" /\ WaitTimeout(t)
       \/ Inside(t, "out") /\ WaitCleanup(t, Wanted(t), After(t))
       \/ Inside(t, "fail") /\ WaitCleanup(t, Wanted(t), Skip)
    /\ UNCHANGED syncVars

\* mutex_trylock() by itself.
TryLock(t) ==
    /\ Calls(t, {"trylock"})
    /\ IF MayTake(t, Arg(t)) THEN Take(t, Arg(t)) /\ Return(t, 1)
       ELSE Return(t, Skip) /\ UNCHANGED mutexVars
    /\ UNCHANGED <<prog, on, waiting, finished, queue, happened, arrived, rwVars>>

\* mutex_unlock_schedee(), up to its wakeup.
Release(t, m) ==
    /\ holder' = [holder EXCEPT ![m] = None]
    /\ depth' = [depth EXCEPT ![m] = 0]
    /\ prio' = [prio EXCEPT ![t] = Base[t]]

\* Mutant: a recursive mutex goes with the first unlock.
LastUnlockAny(t, m) == Kind[m] = "normal" \/ holder[m] = t

\* mutex_unlock() lets go: for the holder only, unless the type does not ask,
\* and at the last of its recursive locks.
LastUnlock(t, m) ==
    \/ Kind[m] = "normal"
    \/ holder[m] = t /\ (Kind[m] = "recursive" => depth[m] = 1)

Unlock(t) ==
    /\ Calls(t, {"unlock"})
    /\ LET m == Arg(t)
       IN  \/ LastUnlock(t, m) /\ Release(t, m) /\ WakeAll(t, m)
           \/ /\ ~LastUnlock(t, m)
              /\ depth' = [depth EXCEPT ![m] = IF holder[m] = t THEN @ - 1 ELSE @]
              /\ UNCHANGED <<holder, prio, on, waiting>>
    /\ Return(t, 1)
    /\ UNCHANGED <<prog, finished, queue, happened, arrived, rwVars>>

-----------------------------------------------------------------------------
(* Conditions: `while (!happened) cond_wait()', or one cond_timedwait().      *)

\* The predicate holds; there is nothing to wait for.
AwaitDone(t) ==
    /\ Calls(t, Awaits) /\ happened[Arg(t)]
    /\ Return(t, 1)
    /\ UNCHANGED <<prog, on, waiting, finished, queue, syncVars>>

\* waitq_wait_prepare() on the condition's queue, mutex_unlock(), schedule().
CondPrepare(t, m) ==
    /\ queue' = Added(t, Arg(t))
    /\ Settle(t, TRUE, FALSE, ToSet(queue[m]))
    /\ Goto(t, "cond")

\* cond_timedwait() up to the sleep, all of it inside sched_lock().
CondWait(t) ==
    /\ Calls(t, Awaits) /\ ~happened[Arg(t)]
    /\ LET m == Guards[Arg(t)] IN LastUnlock(t, m) /\ Release(t, m) /\ CondPrepare(t, m)
    /\ UNCHANGED <<prog, finished, happened, arrived, rwVars>>

\* The timer of cond_timedwait().
CondTimeout(t) ==
    /\ at[t] = "cond" /\ ~on[t] /\ Op(t) = "timedawait" /\ t \notin finished
    /\ Settle(t, FALSE, TRUE, {})
    /\ UNCHANGED <<prog, ip, at, finished, queue, syncVars>>

\* The rest of cond_timedwait(): cleanup, and mutex_lock().
CondWoken(t) ==
    /\ Inside(t, "cond")
    /\ queue' = Deleted(t, Arg(t))
    /\ Settle(t, FALSE, TRUE, {})
    /\ Goto(t, "relock")
    /\ UNCHANGED <<prog, finished, syncVars>>

\* What the condition stands for comes true.
Happen(t) ==
    /\ Calls(t, {"happen"})
    /\ happened' = [happened EXCEPT ![Arg(t)] = TRUE]
    /\ Return(t, 1)
    /\ UNCHANGED <<prog, on, waiting, finished, queue, mutexVars, arrived, rwVars>>

\* cond_signal() and cond_broadcast(): both wake everybody.
Signal(t) ==
    /\ Calls(t, {"signal"})
    /\ WakeAll(t, Arg(t))
    /\ Return(t, 1)
    /\ UNCHANGED <<prog, finished, queue, syncVars>>

-----------------------------------------------------------------------------
(* Barriers.                                                                 *)

\* Mutant: the last but one is taken for the last.
IsLastEarly(b) == arrived[b] + 2 >= Parties[b]

\* Mutant: the one that asks is not counted.
IsLastLate(b) == Parties[b] = arrived[b]

\* count == current_count + 1
IsLast(b) == Parties[b] = arrived[b] + 1

\* barrier_wait(): the last to arrive wakes the others, who slept once.
BarrierWait(t) ==
    /\ Calls(t, {"barrier"})
    /\ LET b == Arg(t)
       IN  \/ /\ IsLast(b)
              /\ arrived' = [arrived EXCEPT ![b] = 0]
              /\ WakeAll(t, b)
              /\ Return(t, 1)
              /\ UNCHANGED queue
           \/ /\ ~IsLast(b)
              /\ arrived' = [arrived EXCEPT ![b] = @ + 1]
              /\ queue' = Added(t, b)
              /\ Settle(t, TRUE, FALSE, {})
              /\ Goto(t, "barrier")
    /\ UNCHANGED <<prog, finished, mutexVars, happened, rwVars>>

BarrierWoken(t) ==
    /\ Inside(t, "barrier")
    /\ WaitCleanup(t, Arg(t), 1)
    /\ UNCHANGED syncVars

-----------------------------------------------------------------------------
(* Read-write locks.                                                         *)

Mode(t) == IF Op(t) = "read" THEN "reading" ELSE "writing"

\* tryenter_sched_lock() of rwlock.c succeeds.
MayEnter(t, k) ==
    \/ rwStatus[k] = "none"
    \/ rwStatus[k] = "reading" /\ Mode(t) = "reading"

\* do_up(), up to a sleep or from one: it keeps sched_lock() all through.
RwUp(t) ==
    /\ Calls(t, {"read", "write"}) \/ Inside(t, "rw")
    /\ LET k == Arg(t)
       IN  \/ /\ MayEnter(t, k)
              /\ rwStatus' = [rwStatus EXCEPT ![k] = Mode(t)]
              /\ rwCount' = [rwCount EXCEPT ![k] = @ + 1]
              /\ WaitCleanup(t, k, 1)
           \/ /\ ~MayEnter(t, k)
              /\ queue' = Added(t, k)
              /\ Settle(t, TRUE, FALSE, {})
              /\ Goto(t, "rw")
              /\ UNCHANGED <<prog, finished, rwVars>>
    /\ UNCHANGED <<mutexVars, happened, arrived>>

\* rwlock_any_down()
RwDown(t) ==
    /\ Calls(t, {"down"})
    /\ LET k == Arg(t)
       IN  /\ rwCount' = [rwCount EXCEPT ![k] = @ - 1]
           /\ \/ rwCount[k] = 1 /\ rwStatus' = [rwStatus EXCEPT ![k] = "none"] /\ WakeAll(t, k)
              \/ rwCount[k] # 1 /\ UNCHANGED <<rwStatus, on, waiting>>
    /\ Return(t, 1)
    /\ UNCHANGED <<prog, finished, queue, mutexVars, happened, arrived>>

-----------------------------------------------------------------------------
SyncStep(t) ==
    \/ LockTry(t) \/ LockCheck(t) \/ LockWait(t) \/ TryLock(t) \/ Unlock(t)
    \/ AwaitDone(t) \/ CondWait(t) \/ CondTimeout(t) \/ CondWoken(t) \/ Happen(t) \/ Signal(t)
    \/ BarrierWait(t) \/ BarrierWoken(t) \/ RwUp(t) \/ RwDown(t)
=============================================================================
