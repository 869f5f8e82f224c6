------------------------------- MODULE Sleep --------------------------------
(***************************************************************************)
(* Threads as programs of calls that may sleep: the wait queues of         *)
(* kernel/sched/waitq.c and the loop of WAITQ_WAIT, over the promise of    *)
(* the scheduler that Sched is about (a thread that waits sleeps in        *)
(* schedule(), one that is woken runs again, a finished one is not woken). *)
(*                                                                         *)
(* What a call does inside sched_lock() is one step: the BKL keeps every   *)
(* other such section out until schedule() gives up the CPU.               *)
(***************************************************************************)
EXTENDS Integers, Sequences, SequencesExt, FiniteSets

CONSTANTS
    Threads,
    Queues,    \* what can be slept on: mutexes, conditions, barriers, semaphores
    Programs,  \* the programs to choose from, each a sequence of calls per thread
    None

VARIABLES
    prog,      \* the program chosen
    ip,        \* the call each thread is at
    at,        \* how far it is in that call
    on,        \* the thread is ready or running; off, its schedee is released
    waiting,   \* schedee.waiting
    finished,  \* schedee.finished
    queue      \* the wait queues

sleepVars == <<prog, ip, at, on, waiting, finished, queue>>

\* A call [op |-> name, arg |-> what it is applied to].
AtEnd(t) == ip[t] > Len(prog[t])
Op(t) == IF AtEnd(t) THEN "end" ELSE prog[t][ip[t]].op
Arg(t) == prog[t][ip[t]].arg

\* Thread t is running and about to make a call of one of these kinds.
Calls(t, ops) == on[t] /\ at[t] = "go" /\ Op(t) \in ops

\* Thread t is running and in the middle of a call.
Inside(t, where) == on[t] /\ at[t] = where

Goto(t, where) == at' = [at EXCEPT ![t] = where] /\ UNCHANGED ip

\* The call returns, and the next n - 1 are left out.
Return(t, n) == at' = [at EXCEPT ![t] = "go"] /\ ip' = [ip EXCEPT ![t] = @ + n]

-----------------------------------------------------------------------------
(* sched_wakeup() and the wait queues.                                       *)

\* Mutant: the wakeup of a thread that has not reached schedule() is refused.
WokenAsleep(S) == {u \in S \ finished : waiting[u] /\ ~on[u]}

\* The threads of S that sched_wakeup() wakes.
Woken(S) == {u \in S \ finished : waiting[u]}

\* Thread t changes its own waiting and its hold of a CPU, and wakes others.
Settle(t, w, o, S) ==
    /\ waiting' = [u \in Threads |-> IF u = t THEN w ELSE waiting[u] /\ u \notin Woken(S)]
    /\ on' = [u \in Threads |-> IF u = t THEN o ELSE on[u] \/ u \in Woken(S)]

\* waitq_wakeup() of the queue q with nr = 0: everybody on it.
WakeAll(t, q) == Settle(t, waiting[t], on[t], ToSet(queue[q]))

\* waitq_add() of a link that may be on the queue already.
Added(t, q) ==
    [queue EXCEPT ![q] = IF t \in ToSet(@) THEN @ ELSE Append(@, t)]

\* Mutant: the link stays.
DeletedNot(t, q) == queue

\* waitq_del()
Deleted(t, q) == [queue EXCEPT ![q] = RemoveFirst(@, t)]

\* waitq_wait_prepare(): waitq_add(), and then, in a step of its own,
\* sched_wait_prepare().
WaitAdd(t, q) ==
    /\ Inside(t, "add")
    /\ queue' = Added(t, q)
    /\ Goto(t, "prepare")
    /\ UNCHANGED <<prog, on, waiting, finished>>

WaitPrepare(t) ==
    /\ Inside(t, "prepare")
    /\ Settle(t, TRUE, TRUE, {})
    /\ Goto(t, "check")
    /\ UNCHANGED <<prog, finished, queue>>

\* schedule() from sched_wait_timeout(): the thread leaves its CPU, unless it
\* has been woken since it prepared.
WaitSchedule(t) ==
    /\ Inside(t, "sleep")
    /\ \/ /\ waiting[t]
          /\ Settle(t, TRUE, FALSE, {})
          /\ Goto(t, "asleep")
       \/ /\ ~waiting[t]
          /\ Goto(t, "add")
          /\ UNCHANGED <<waiting, on>>
    /\ UNCHANGED <<prog, finished, queue>>

\* Woken, it goes round the loop again.
WaitAgain(t) ==
    /\ Inside(t, "asleep")
    /\ Goto(t, "add")
    /\ UNCHANGED <<prog, on, waiting, finished, queue>>

\* The timer of sched_wait_timeout() has run out, whether or not something else
\* has woken the thread too: the loop ends with -ETIMEDOUT.
WaitTimeout(t) ==
    /\ at[t] \in {"sleep", "asleep"} /\ t \notin finished
    /\ Settle(t, FALSE, TRUE, {})
    /\ Goto(t, "fail")
    /\ UNCHANGED <<prog, finished, queue>>

\* waitq_wait_cleanup() and the return from the wait; n calls are done with.
WaitCleanup(t, q, n) ==
    /\ queue' = Deleted(t, q)
    /\ Settle(t, FALSE, TRUE, {})
    /\ Return(t, n)
    /\ UNCHANGED <<prog, finished>>

\* The steps of the loop that do not look at the condition.
WaitLoop(t, q) == WaitAdd(t, q) \/ WaitPrepare(t) \/ WaitSchedule(t) \/ WaitAgain(t)

-----------------------------------------------------------------------------
SleepTypeOK ==
    /\ prog \in Programs
    /\ ip \in [Threads -> Nat] /\ \A t \in Threads : ip[t] \in 1..(Len(prog[t]) + 1)
    /\ on \in [Threads -> BOOLEAN]
    /\ waiting \in [Threads -> BOOLEAN]
    /\ finished \subseteq Threads
    /\ queue \in [Queues -> Seq(Threads)]
=============================================================================
