------------------------------- MODULE Thread -------------------------------
(***************************************************************************)
(* The life of threads and of a task: create, launch, exit, join, detach,  *)
(* delete with its list of zombies (kernel/thread/core.c); the exit of the *)
(* task, which terminates and deletes every thread that is left, and its   *)
(* collection by the parent, which frees the main thread and the task with *)
(* it (kernel/task/multi, kernel/task/syslib/waitpid.c).  All of it but    *)
(* waitpid is inside sched_lock().                                         *)
(***************************************************************************)
EXTENDS Sleep

CONSTANTS
    Main,      \* the main thread of the task
    Parent,    \* the thread of another task that starts it and waits for it
    Children   \* the wait queue task_resource_waitpid() of the parent

ASSUME ThreadAssumption ==
    Main \in Threads /\ Parent \in Threads \ {Main} /\ Children \in Queues

VARIABLES
    exited,    \* TS_EXITED
    detached,  \* TS_DETACHED
    deleted,   \* TS_DELETED
    joining,   \* thread.joining
    zombies,   \* thread_zombies, and main_thread_zombies
    status     \* task.status says that the task has exited

threadVars == <<exited, detached, deleted, joining, zombies, status>>

\* The memory of u is in the pool: not created, or freed (THREAD_MAGIC_DEAD).
InPool(u) == at[u] = "none"

\* Calls that sleep inside sched_lock(): a thread woken from one comes back to
\* a CPU together with the BKL.
LockedSleeps == {"join", "cond", "barrier", "rw"}

-----------------------------------------------------------------------------
(* thread_delete().                                                          *)

\* Whoever comes first reclaims a thread.
Fresh(D) == {u \in D \ deleted : ~InPool(u)}

\* Mutant: only a thread's own stack is kept.
ParkedSelf(t, D) == {u \in Fresh(D) : u = t}

\* A thread is parked if it is the caller or its CPU has not let go of it.
Parked(t, D) == {u \in Fresh(D) : u = t \/ on'[u]}

\* The zombies that a deletion finds released.
Swept(D) == IF Fresh(D) = {} THEN {} ELSE {z \in zombies : ~on[z]}

Freed(t, D) == Swept(D) \cup (Fresh(D) \ Parked(t, D))

\* thread_delete() of each thread of D by t, which goes on at `where'.
Delete(t, D, where, n) ==
    /\ deleted' = deleted \cup Fresh(D)
    /\ zombies' = (zombies \ Swept(D)) \cup Parked(t, D)
    /\ at' = [u \in Threads |-> IF u \in Freed(t, D) THEN "none"
                                ELSE IF u = t THEN where ELSE at[u]]
    /\ ip' = [ip EXCEPT ![t] = @ + n]

-----------------------------------------------------------------------------
(* The calls.                                                                *)

\* thread_init()
Initialised(t, u) ==
    /\ at' = [at EXCEPT ![u] = "new"]
    /\ ip' = [ip EXCEPT ![u] = 1, ![t] = @ + 1]
    /\ finished' = finished \ {u}
    /\ exited' = exited \ {u}
    /\ deleted' = deleted \ {u}
    /\ joining' = [joining EXCEPT ![u] = None]

\* thread_create() with THREAD_FLAG_SUSPENDED.
Create(t) ==
    /\ Calls(t, {"create"}) /\ InPool(Arg(t))
    /\ Initialised(t, Arg(t))
    /\ waiting' = [waiting EXCEPT ![Arg(t)] = TRUE]
    /\ detached' = detached \ {Arg(t)}
    /\ UNCHANGED <<prog, on, queue, zombies, status>>

\* new_task(): the main thread is created, detached and launched.
NewTask(t) ==
    /\ Calls(t, {"new_task"}) /\ InPool(Arg(t))
    /\ Initialised(t, Arg(t))
    /\ waiting' = [waiting EXCEPT ![Arg(t)] = FALSE]
    /\ on' = [on EXCEPT ![Arg(t)] = TRUE]
    /\ detached' = detached \cup {Arg(t)}
    /\ status' = FALSE
    /\ UNCHANGED <<prog, queue, zombies>>

\* thread_alloc() fails; the program gives up.
CreateFails(t) ==
    /\ Calls(t, {"create", "new_task"}) /\ ~InPool(Arg(t))
    /\ Return(t, Len(prog[t]) + 1 - ip[t])
    /\ UNCHANGED <<prog, on, waiting, finished, queue, threadVars>>

\* thread_launch()
Launch(t) ==
    /\ Calls(t, {"launch"})
    /\ Settle(t, waiting[t], on[t], {Arg(t)} \ exited)
    /\ Return(t, 1)
    /\ UNCHANGED <<prog, finished, queue, threadVars>>

\* thread_trampoline()
Begin(t) ==
    /\ Inside(t, "new")
    /\ Goto(t, "go")
    /\ UNCHANGED <<prog, on, waiting, finished, queue, threadVars>>

\* Mutant: the joining thread is looked up after the deletion has begun.
JoinersNone(t) == {}

\* The thread to wake when t exits.
Joiners(t) == {joining[t]} \ {None}

\* thread_exit() of a thread other than the main one, until its CPU has left it.
Exit(t) ==
    /\ t \notin {Main, Parent} /\ Calls(t, {"end"})
    /\ finished' = finished \cup {t}
    /\ exited' = exited \cup {t}
    /\ Settle(t, TRUE, FALSE, Joiners(t))
    /\ Delete(t, {t} \cap detached, "gone", 0)
    /\ UNCHANGED <<prog, queue, detached, joining, status>>

\* Mutant: the state of the thread is not looked at.
JoinAtOnce(t) ==
    /\ Calls(t, {"join"})
    /\ UNCHANGED <<on, waiting>>
    /\ Delete(t, {Arg(t)}, "go", 1)
    /\ UNCHANGED <<prog, finished, queue, exited, detached, joining, status>>

\* thread_join() of a thread that has been freed, or has exited.
Join(t) ==
    /\ Calls(t, {"join"}) /\ (InPool(Arg(t)) \/ Arg(t) \in exited)
    /\ UNCHANGED <<on, waiting>>
    /\ Delete(t, {Arg(t)}, "go", 1)
    /\ UNCHANGED <<prog, finished, queue, exited, detached, joining, status>>

\* thread_join() of one that has not, up to the sleep.
JoinWait(t) ==
    /\ Calls(t, {"join"}) /\ ~InPool(Arg(t)) /\ Arg(t) \notin exited
    /\ joining' = [joining EXCEPT ![Arg(t)] = t]
    /\ Settle(t, TRUE, FALSE, {})
    /\ Goto(t, "join")
    /\ UNCHANGED <<prog, finished, queue, exited, detached, deleted, zombies, status>>

\* The rest of thread_join().
JoinWoken(t) ==
    /\ Inside(t, "join") /\ Arg(t) \in exited
    /\ Settle(t, FALSE, TRUE, {})
    /\ Delete(t, {Arg(t)}, "go", 1)
    /\ UNCHANGED <<prog, finished, queue, exited, detached, joining, status>>

\* Mutant: a thread that has exited is only marked.
DetachedNow(u) == {}

\* What thread_detach() deletes: a thread that has finished already.
DetachDeletes(u) == {u} \cap exited

\* thread_detach()
Detach(t) ==
    /\ Calls(t, {"detach"})
    /\ LET u == Arg(t)
       IN  /\ detached' = IF InPool(u) \/ u \in exited THEN detached ELSE detached \cup {u}
           /\ UNCHANGED <<on, waiting>>
           /\ Delete(t, DetachDeletes(u), "go", 1)
    /\ UNCHANGED <<prog, finished, queue, exited, joining, status>>

\* task_exit() by the main thread: thread_terminate() and thread_delete() of
\* every thread of the task, thread_terminate() of itself, and the status, for
\* which it wakes the parent.  A thread that runs on another CPU goes on until
\* it next schedules; those inside sched_lock() cannot be running.
TaskExit ==
    LET victims == {u \in Threads \ {Main, Parent} : ~InPool(u) /\ u \notin deleted}
        called == Woken(ToSet(queue[Children]))
    IN  /\ Calls(Main, {"end"})
        /\ finished' = finished \cup victims \cup {Main}
        /\ exited' = exited \cup victims \cup {Main}
        /\ waiting' = [u \in Threads |->
                u = Main \/ (waiting[u] /\ u \notin victims \cup called)]
        /\ \E running \in SUBSET {u \in victims : on[u] /\ at[u] \notin LockedSleeps} :
            on' = [u \in Threads |->
                IF u \in victims THEN u \in running ELSE on[u] \/ u \in called]
        /\ Delete(Main, victims, "leaving", 0)
        /\ status' = TRUE
        /\ UNCHANGED <<prog, queue, detached, joining>>

\* schedule() of task_finish_exit(): its CPU leaves the main thread.
TaskLeave ==
    /\ Inside(Main, "leaving")
    /\ Settle(Main, TRUE, FALSE, {})
    /\ Goto(Main, "gone")
    /\ UNCHANGED <<prog, finished, queue, threadVars>>

\* task_collect() in the condition of task_waitpid_posix(), which nothing
\* locks: task_delete() of a child that has exited, and with it its main thread.
Collect(t) ==
    \/ /\ Calls(t, {"waitpid"}) /\ status
       /\ UNCHANGED <<on, waiting>> /\ Delete(t, {Main}, "go", 1)
    \/ /\ Inside(t, "check") /\ Op(t) = "waitpid" /\ status
       /\ UNCHANGED <<on, waiting>> /\ Delete(t, {Main}, "out", 0)

\* task_waitpid_posix()
WaitPid(t) ==
    \/ Collect(t) /\ UNCHANGED <<prog, finished, queue, exited, detached, joining, status>>
    \/ /\ Op(t) = "waitpid"
       /\ \/ /\ Calls(t, {"waitpid"}) /\ ~status /\ Goto(t, "add")
             /\ UNCHANGED <<prog, on, waiting, finished, queue>>
          \/ /\ Inside(t, "check") /\ ~status /\ Goto(t, "sleep")
             /\ UNCHANGED <<prog, on, waiting, finished, queue>>
          \/ WaitLoop(t, Children)
          \/ Inside(t, "out") /\ WaitCleanup(t, Children, 1)
       /\ UNCHANGED threadVars

-----------------------------------------------------------------------------
ThreadStep(t) ==
    \/ Create(t) \/ CreateFails(t) \/ Launch(t) \/ Begin(t) \/ Exit(t)
    \/ Join(t) \/ JoinWait(t) \/ JoinWoken(t) \/ Detach(t)
    \/ NewTask(t) \/ WaitPid(t)
    \/ t = Main /\ (TaskExit \/ TaskLeave)
=============================================================================
