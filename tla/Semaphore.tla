----------------------------- MODULE Semaphore ------------------------------
(***************************************************************************)
(* Counting semaphores: kernel/thread/sync/semaphore.c.  semaphore_enter() *)
(* and semaphore_timedwait() call tryenter_sched_lock() outside            *)
(* sched_lock(), so its test and its increment are steps of their own;     *)
(* semaphore_tryenter() and semaphore_leave() are inside and are one step. *)
(***************************************************************************)
EXTENDS Sleep

CONSTANTS
    Sem,       \* the semaphore, one of Queues
    MaxValue   \* max_value, what it was initialised with

VARIABLES
    value,     \* sem.value: the units taken
    seen       \* what a thread in tryenter_sched_lock() has read of it

vars == <<sleepVars, value, seen>>

Init ==
    /\ prog \in Programs
    /\ ip = [t \in Threads |-> 1]
    /\ at = [t \in Threads |-> "go"]
    /\ on = [t \in Threads |-> TRUE]
    /\ waiting = [t \in Threads |-> FALSE]
    /\ finished = {}
    /\ queue = [q \in Queues |-> <<>>]
    /\ value = 0
    /\ seen = [t \in Threads |-> 0]

-----------------------------------------------------------------------------
(* tryenter_sched_lock().                                                    *)

Full == value = MaxValue

\* It has read value and found it below max_value.
Load(t) == ~Full /\ seen' = [seen EXCEPT ![t] = value] /\ UNCHANGED value

\* The increment may read value once more: nothing tells the compiler to keep
\* or to drop the second load.
Reload(t) ==
    /\ at[t] \in {"store", "storeWaiting", "storeAgain"} /\ on[t]
    /\ seen' = [seen EXCEPT ![t] = value]
    /\ UNCHANGED <<sleepVars, value>>

\* The store of the increment, and what follows it.
Store(t) ==
    /\ value' = seen[t] + 1
    /\ \/ Inside(t, "store") /\ Return(t, 1)
       \/ Inside(t, "storeWaiting") /\ Goto(t, "out")
       \/ Inside(t, "storeAgain") /\ Return(t, 1)
    /\ UNCHANGED <<prog, on, waiting, finished, queue, seen>>

-----------------------------------------------------------------------------
(* The calls.                                                                *)

\* A call that did not get a unit: the program leaves out the leave.
Skip == 2

\* The first try of semaphore_enter() and of semaphore_timedwait(); the time of
\* the latter may have passed already.
FirstTry(t) ==
    /\ Calls(t, {"enter", "timedwait"})
    /\ \/ Load(t) /\ Goto(t, "store")
       \/ Full /\ Goto(t, "add") /\ UNCHANGED <<value, seen>>
       \/ Full /\ Op(t) = "timedwait" /\ Goto(t, "late") /\ UNCHANGED <<value, seen>>
    /\ UNCHANGED <<prog, on, waiting, finished, queue>>

\* The try inside the loop of WAITQ_WAIT().
LoopTry(t) ==
    /\ Inside(t, "check")
    /\ \/ Load(t) /\ Goto(t, "storeWaiting")
       \/ Full /\ Goto(t, "sleep") /\ UNCHANGED <<value, seen>>
    /\ UNCHANGED <<prog, on, waiting, finished, queue>>

\* waitq_wait_cleanup(); semaphore_timedwait() is not through with it.
Cleanup(t) ==
    \/ Inside(t, "out") /\ Op(t) = "enter" /\ WaitCleanup(t, Sem, 1)
    \/ /\ on[t] /\ at[t] \in {"out", "fail"} /\ Op(t) = "timedwait"
       /\ queue' = Deleted(t, Sem)
       /\ Settle(t, FALSE, TRUE, {})
       /\ Goto(t, IF at[t] = "out" THEN "again" ELSE "late")
       /\ UNCHANGED <<prog, finished>>

\* The last try of semaphore_timedwait(), after a wait that has succeeded as
\* after one that has not.
LastTry(t) ==
    /\ on[t] /\ at[t] \in {"again", "late"}
    /\ \/ Load(t) /\ Goto(t, "storeAgain")
       \/ Full /\ Return(t, IF at[t] = "again" THEN 1 ELSE Skip) /\ UNCHANGED <<value, seen>>
    /\ UNCHANGED <<prog, on, waiting, finished, queue>>

\* semaphore_tryenter()
TryEnter(t) ==
    /\ Calls(t, {"tryenter"})
    /\ \/ ~Full /\ value' = value + 1 /\ Return(t, 1)
       \/ Full /\ value' = value /\ Return(t, Skip)
    /\ UNCHANGED <<prog, on, waiting, finished, queue, seen>>

\* semaphore_leave()
Leave(t) ==
    /\ Calls(t, {"leave"})
    /\ value' = value - 1
    /\ WakeAll(t, Sem)
    /\ Return(t, 1)
    /\ UNCHANGED <<prog, finished, queue, seen>>

Step(t) ==
    \/ FirstTry(t) \/ LoopTry(t) \/ LastTry(t) \/ Store(t) \/ Reload(t)
    \/ (WaitLoop(t, Sem) \/ Cleanup(t)) /\ UNCHANGED <<value, seen>>
    \/ Op(t) = "timedwait" /\ WaitTimeout(t) /\ UNCHANGED <<value, seen>>
    \/ TryEnter(t) \/ Leave(t)

\* Every program has come to its end.
Over == (\A t \in Threads : AtEnd(t)) /\ UNCHANGED vars

Next == Over \/ \E t \in Threads : Step(t)

Spec == Init /\ [][Next]_vars

-----------------------------------------------------------------------------
\* The units that the calls of t have taken and not given back.
Units(t) ==
    LET Made(ops) == {i \in 1..(ip[t] - 1) : prog[t][i].op \in ops}
    IN  Cardinality(Made({"enter", "timedwait", "tryenter"})) - Cardinality(Made({"leave"}))

\* When nobody is in a call, value is the number of units that are held: every
\* successful call of semaphore_enter(), semaphore_timedwait() and
\* semaphore_tryenter() has taken one, and every semaphore_leave() has given
\* one back.
SemExact ==
    (\A t \in Threads : at[t] = "go") =>
        value = FoldFunction(+, 0, [t \in Threads |-> Units(t)])
=============================================================================
