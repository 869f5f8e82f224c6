------------------------------- MODULE Sched -------------------------------
(***************************************************************************)
(* The SMP scheduler core: kernel/sched/sched.c with the context switch of *)
(* kernel/thread/thread_switch.c, the SCHED_WAIT loop of                   *)
(* thread_sched_wait.h, the ticker of sched_ticker.c and the big kernel    *)
(* lock that sched_lock() takes.                                           *)
(*                                                                         *)
(* Each section the code runs under rq.lock is one step; rq.lock is        *)
(* therefore not a variable.  Everything the code does outside rq.lock is  *)
(* a step of its own wherever another CPU can observe the difference.      *)
(* Memory is sequentially consistent.                                      *)
(***************************************************************************)
EXTENDS Integers, FiniteSets

CONSTANTS
    CPUs,        \* the cores that have run cpu_init()
    Threads,     \* schedees of type SCHEDEE_THREAD, the idle threads included
    LThreads,    \* schedees of type SCHEDEE_LTHREAD
    Idle,        \* Idle[c] is the idle thread of CPU c
    Affinity,    \* Affinity[s] is the set of CPUs schedee s may run on
    Levels,      \* the priorities in use
    InitPrio,    \* the priority each schedee is created with
    None,        \* nobody
    Launched,    \* the threads that already wait in SCHED_WAIT; others are new
    Ticking,     \* FALSE bounds a run to the time before the first sched_tick()
    BareWakers,  \* TRUE: threads call sched_wakeup() without sched_lock()
    Setters,     \* the contexts from which priorities are changed
    Tunable,     \* the schedees whose priority is changed
    Terminable,  \* the threads thread_terminate() is applied to
    Exiting      \* the threads that call thread_exit()

Schedees == Threads \cup LThreads
Idles == {Idle[c] : c \in CPUs}
Workers == Threads \ Idles
Contexts == {"locked", "bare", "lthread"}

ASSUME ThreadsAssumption ==
    /\ Threads \cap LThreads = {}
    /\ None \notin CPUs \cup Schedees

ASSUME IdleAssumption ==
    /\ Idle \in [CPUs -> Threads]
    /\ \A c, d \in CPUs : Idle[c] = Idle[d] => c = d

ASSUME AffinityAssumption ==
    /\ Affinity \in [Schedees -> SUBSET CPUs]
    /\ \A c \in CPUs : Affinity[Idle[c]] = {c}

ASSUME PrioAssumption ==
    /\ Levels \subseteq Int
    /\ InitPrio \in [Schedees -> Levels]

ASSUME OptionAssumption ==
    /\ Ticking \in BOOLEAN
    /\ BareWakers \in BOOLEAN
    /\ Setters \subseteq Contexts
    /\ Tunable \subseteq Schedees \ Idles
    /\ Launched \cup Terminable \cup Exiting \subseteq Workers

VARIABLES
    \* struct schedee
    ready, active, waiting, finished, released, slock, base, prio, runqPrio,
    \* struct runq and the scheduler's globals
    rq, nr, yieldReq, bkl, ticker,
    \* a thread: where it is in SCHED_WAIT, whether it holds sched_lock(), and
    \* the condition it waits for
    tpc, held, event,
    \* a CPU: the current schedee, where in the kernel it is, the locals of
    \* __schedule() and __sched_wakeup(), the pending dispatch and the IPI
    cur, pc, prev, preempt, yielding, tgt, ret, pending, ipi, sent

flagVars == <<ready, active, waiting, finished, released>>
prioVars == <<base, prio>>
queueVars == <<rq, nr, runqPrio>>
pokeVars == <<yieldReq, pending, ipi, sent>>
threadVars == <<tpc, held, event>>
frameVars == <<cur, prev, preempt, yielding>>
wakeVars == <<slock, tgt, ret>>
vars == <<flagVars, prioVars, queueVars, pokeVars, threadVars, frameVars,
          wakeVars, pc, bkl, ticker>>

\* Where a CPU can be.  "run" is thread code; "pick" to "leave" is
\* __schedule() with the BKL held; "wfin" to "wunlock" is sched_wakeup().
SchedulePcs == {"pick", "ltproc", "lt", "ltdone", "repick", "switch", "deact",
                "deact2", "release", "leave"}
WakePcs == {"wfin", "wwait", "wready", "winact", "wactive", "wunlock"}
\* Points of __schedule() and of threads where interrupts are enabled.
IrqOn == {"run", "lt", "ltdone", "leave"}

-----------------------------------------------------------------------------
(* The run queue seen as a set of schedees, each filed at a level.  The      *)
(* order within a level is left open; Runq refines it.                       *)

\* Mutant: the affinity of what is queued is ignored.
GetNextUnfiltered(c, q, level) ==
    {s \in q : \A t \in q : level[t] <= level[s]}

\* runq_get_next(): the schedees of the highest level that holds one allowed
\* to run here.
GetNext(c, q, level) ==
    LET here == {s \in q : c \in Affinity[s]}
    IN  {s \in here : \A t \in here : level[t] <= level[s]}

\* runq_get_next_ignore_affinity()
GetNextAnywhere(q, level) ==
    {s \in q : \A t \in q : level[t] <= level[s]}

\* Mutant: the schedee that stays on the CPU is left in the queue.
RunqTakeNothing(q, s) == q

\* runq_extract() or, for a thread that stays, runq_remove().
RunqTake(q, s) == q \ {s}

\* Mutant: the wrong polarity of sched_active().
InRqActive(s) == ready[s] /\ active[s]

\* in_rq of sched_change_priority() and of __sched_freeze().
InRq(s) == ready[s] /\ ~active[s]

\* critical_request_dispatch(&sched_critical) with the yield flag.
PostSwitch(c) ==
    /\ yieldReq' = TRUE
    /\ pending' = [pending EXCEPT ![c] = TRUE]

\* Mutant: this CPU counts as enough even where the schedee may not run on it.
CheckPreemptHere(c, s, n, p) ==
    LET taken == p[cur[c]] <= p[s]
        idle == {d \in Affinity[s] \ {c} : active[Idle[d]] /\ ~sent[d]}
        poked == IF taken /\ n <= 1 THEN {} ELSE idle
    IN  /\ yieldReq' = (yieldReq \/ taken)
        /\ pending' = [pending EXCEPT ![c] = @ \/ taken]
        /\ ipi' = [d \in CPUs |-> ipi[d] \/ d \in poked]
        /\ sent' = [d \in CPUs |-> sent[d] \/ d \in poked]

\* sched_check_preempt() followed by sched_wakeup_remote(), with n schedees
\* queued and priorities p.
CheckPreempt(c, s, n, p) ==
    LET taken == p[cur[c]] <= p[s]
        enough == c \in Affinity[s] /\ n <= IF taken THEN 1 ELSE 0
        idle == {d \in Affinity[s] \ {c} : active[Idle[d]] /\ ~sent[d]}
    IN  /\ yieldReq' = (yieldReq \/ taken)
        /\ pending' = [pending EXCEPT ![c] = @ \/ taken]
        /\ \/ /\ enough \/ idle = {}
              /\ UNCHANGED <<ipi, sent>>
           \/ /\ ~enough
              /\ \E d \in idle : /\ ipi' = [ipi EXCEPT ![d] = TRUE]
                                 /\ sent' = [sent EXCEPT ![d] = TRUE]

\* Mutant: the schedee is filed but never marked ready.
WakeupWaitingUnready(c, s) ==
    /\ rq' = rq \cup {s}
    /\ nr' = nr + 1
    /\ runqPrio' = [runqPrio EXCEPT ![s] = prio[s]]
    /\ ready' = ready
    /\ CheckPreempt(c, s, nr + 1, prio)
    /\ waiting' = [waiting EXCEPT ![s] = "no"]

\* __sched_wakeup_waiting(): file, mark ready, check for preemption, and only
\* then clear waiting.
WakeupWaiting(c, s) ==
    /\ rq' = rq \cup {s}
    /\ nr' = nr + 1
    /\ runqPrio' = [runqPrio EXCEPT ![s] = prio[s]]
    /\ ready' = [ready EXCEPT ![s] = TRUE]
    /\ CheckPreempt(c, s, nr + 1, prio)
    /\ waiting' = [waiting EXCEPT ![s] = "no"]

-----------------------------------------------------------------------------
\* Every CPU runs its idle thread.  A new thread is as schedee_init() leaves
\* it, and one that waits with nobody to wake it has the same flags.
Init ==
    /\ ready = [s \in Schedees |-> s \in Idles]
    /\ active = [s \in Schedees |-> s \in Idles]
    /\ waiting = [s \in Schedees |-> IF s \in Idles THEN "no" ELSE "yes"]
    /\ finished = [s \in Schedees |-> FALSE]
    /\ released = [s \in Schedees |-> s \notin Idles]
    /\ slock = [s \in Schedees |-> None]
    /\ base = InitPrio
    /\ prio = InitPrio
    /\ runqPrio = InitPrio
    /\ rq = {}
    /\ nr = 0
    /\ yieldReq = FALSE
    /\ bkl = None
    /\ ticker = {}
    /\ tpc = [t \in Threads |-> IF t \in Idles THEN "work"
                             ELSE IF t \in Launched THEN "resumed" ELSE "fresh"]
    /\ held = [t \in Threads |-> FALSE]
    /\ event = [s \in Schedees |-> FALSE]
    /\ cur = Idle
    /\ pc = [c \in CPUs |-> "run"]
    /\ prev = [c \in CPUs |-> None]
    /\ preempt = [c \in CPUs |-> FALSE]
    /\ yielding = [c \in CPUs |-> FALSE]
    /\ tgt = [c \in CPUs |-> None]
    /\ ret = [c \in CPUs |-> "run"]
    /\ pending = [c \in CPUs |-> FALSE]
    /\ ipi = [c \in CPUs |-> FALSE]
    /\ sent = [c \in CPUs |-> FALSE]

-----------------------------------------------------------------------------
(* What a worker thread does.  A pending dispatch is served before anything  *)
(* else unless sched_lock() is held.                                         *)

RunsWorker(c) ==
    /\ pc[c] = "run"
    /\ cur[c] \in Workers
    /\ pending[c] => held[cur[c]]

Works(c) == RunsWorker(c) /\ tpc[cur[c]] = "work"

\* The thread takes sched_lock() on a zero critical count.
SchedLock(c) ==
    /\ Works(c)
    /\ ~held[cur[c]]
    /\ bkl = None
    /\ bkl' = c
    /\ held' = [held EXCEPT ![cur[c]] = TRUE]
    /\ UNCHANGED <<flagVars, prioVars, queueVars, pokeVars, tpc, event,
                   frameVars, wakeVars, pc, ticker>>

\* Its outermost sched_unlock(); Preempt then serves what is pending.
SchedUnlock(c) ==
    /\ Works(c)
    /\ held[cur[c]]
    /\ bkl' = None
    /\ held' = [held EXCEPT ![cur[c]] = FALSE]
    /\ UNCHANGED <<flagVars, prioVars, queueVars, pokeVars, tpc, event,
                   frameVars, wakeVars, pc, ticker>>

\* sched_wait_prepare(), at the head of the SCHED_WAIT loop.
WaitPrepare(c) ==
    /\ RunsWorker(c)
    /\ tpc[cur[c]] \in {"work", "resumed"}
    /\ waiting' = [waiting EXCEPT ![cur[c]] = "yes"]
    /\ tpc' = [tpc EXCEPT ![cur[c]] = "check"]
    /\ UNCHANGED <<ready, active, finished, released, prioVars, queueVars,
                   pokeVars, held, event, frameVars, wakeVars, pc, bkl, ticker>>

\* if (cond_expr) break;
WaitCheck(c) ==
    /\ RunsWorker(c)
    /\ tpc[cur[c]] = "check"
    /\ tpc' = [tpc EXCEPT ![cur[c]] =
                  IF event[cur[c]] THEN "cleanup" ELSE "sleep"]
    /\ UNCHANGED <<flagVars, prioVars, queueVars, pokeVars, held, event,
                   frameVars, wakeVars, pc, bkl, ticker>>

\* sched_wait_cleanup(): the condition held, or sched_wait() returned an
\* error (-EINTR, -ETIMEDOUT) after a wakeup.
WaitCleanup(c) ==
    /\ RunsWorker(c)
    /\ tpc[cur[c]] \in {"cleanup", "resumed"}
    /\ waiting' = [waiting EXCEPT ![cur[c]] = "no"]
    /\ event' = [event EXCEPT ![cur[c]] = FALSE]
    /\ tpc' = [tpc EXCEPT ![cur[c]] = "work"]
    /\ UNCHANGED <<ready, active, finished, released, prioVars, queueVars,
                   pokeVars, held, frameVars, wakeVars, pc, bkl, ticker>>

\* thread_yield()
ThreadYield(c) ==
    /\ Works(c)
    /\ PostSwitch(c)
    /\ UNCHANGED <<flagVars, prioVars, queueVars, ipi, sent, threadVars,
                   frameVars, wakeVars, pc, bkl, ticker>>

\* thread_exit() up to sched_finished().
ExitFinish(c) ==
    /\ Works(c)
    /\ cur[c] \in Exiting
    /\ held[cur[c]]
    /\ finished' = [finished EXCEPT ![cur[c]] = TRUE]
    /\ tpc' = [tpc EXCEPT ![cur[c]] = "exit"]
    /\ UNCHANGED <<ready, active, waiting, released, prioVars, queueVars,
                   pokeVars, held, event, frameVars, wakeVars, pc, bkl, ticker>>

\* current->schedee.waiting = true
ExitWait(c) ==
    /\ RunsWorker(c)
    /\ tpc[cur[c]] = "exit"
    /\ waiting' = [waiting EXCEPT ![cur[c]] = "yes"]
    /\ tpc' = [tpc EXCEPT ![cur[c]] = "exiting"]
    /\ UNCHANGED <<ready, active, finished, released, prioVars, queueVars,
                   pokeVars, held, event, frameVars, wakeVars, pc, bkl, ticker>>

\* thread_terminate(s): sched_finished() and sched_freeze() under s->lock.
Terminate(c, s) ==
    /\ Works(c)
    /\ held[cur[c]]
    /\ slock[s] = None
    /\ finished' = [finished EXCEPT ![s] = TRUE]
    /\ rq' = IF InRq(s) THEN rq \ {s} ELSE rq
    /\ nr' = IF InRq(s) THEN nr - 1 ELSE nr
    /\ ready' = [ready EXCEPT ![s] = FALSE]
    /\ active' = [active EXCEPT ![s] = FALSE]
    /\ waiting' = [waiting EXCEPT ![s] = IF s = cur[c] THEN "yes" ELSE "no"]
    /\ UNCHANGED <<released, prioVars, runqPrio, pokeVars, threadVars,
                   frameVars, wakeVars, pc, bkl, ticker>>

\* The base and current priority that schedee_priority_set(), _inherit() and
\* _reverse() leave behind.
SetPriority(b, p, new) ==
    IF b = new THEN <<b, p>>
    ELSE <<new, IF b = p \/ p <= new THEN new ELSE p>>
InheritPriority(b, p, new) == <<b, IF new > p THEN new ELSE p>>
ReversePriority(b, p) == <<b, b>>

NewPriorities(s, new) ==
    {SetPriority(base[s], prio[s], new), InheritPriority(base[s], prio[s], new),
     ReversePriority(base[s], prio[s])}

\* sched_change_priority(), from a thread with or without sched_lock(), or
\* from a lightweight thread.
ChangePriority(c, s, new) ==
    /\ \/ Works(c) /\ IF held[cur[c]] THEN "locked" \in Setters
                                      ELSE "bare" \in Setters
       \/ pc[c] \in {"lt", "ltdone"} /\ "lthread" \in Setters
    /\ \E bp \in NewPriorities(s, new) :
          LET p == [prio EXCEPT ![s] = bp[2]]
          IN  /\ base' = [base EXCEPT ![s] = bp[1]]
              /\ prio' = p
              /\ rq' = IF InRq(s) THEN rq \cup {s} ELSE rq
              /\ runqPrio' = IF InRq(s) THEN [runqPrio EXCEPT ![s] = p[s]]
                                        ELSE runqPrio
              /\ CheckPreempt(c, s, nr, p)
    /\ UNCHANGED <<flagVars, nr, threadVars, frameVars, wakeVars, pc, bkl,
                   ticker>>

-----------------------------------------------------------------------------
(* sched_wakeup(), from a thread, a lightweight thread or an interrupt.      *)

\* SPIN_IPL_PROTECTED_DO(&s->lock, ...): the CPU takes the schedee's lock with
\* interrupts off and will return to where it was.
LockSchedee(c, s) ==
    /\ slock[s] = None
    /\ slock' = [slock EXCEPT ![s] = c]
    /\ tgt' = [tgt EXCEPT ![c] = s]
    /\ ret' = [ret EXCEPT ![c] = pc[c]]
    /\ pc' = [pc EXCEPT ![c] = "wfin"]

\* A thread makes the condition true and wakes the waiter.
ThreadWakeup(c, s) ==
    /\ Works(c)
    /\ BareWakers \/ held[cur[c]]
    /\ event' = [event EXCEPT ![s] = TRUE]
    /\ LockSchedee(c, s)
    /\ UNCHANGED <<flagVars, prioVars, queueVars, pokeVars, tpc, held,
                   frameVars, bkl, ticker>>

\* So does a lightweight thread, inside __schedule().
LThreadWakeup(c, s) ==
    /\ pc[c] \in {"lt", "ltdone"}
    /\ event' = [event EXCEPT ![s] = TRUE]
    /\ LockSchedee(c, s)
    /\ UNCHANGED <<flagVars, prioVars, queueVars, pokeVars, tpc, held,
                   frameVars, bkl, ticker>>

\* thread_exit() wakes the thread that joins this one, if there is one, and
\* then calls schedule().
ExitWakeJoining(c, s) ==
    /\ RunsWorker(c)
    /\ tpc[cur[c]] = "exiting"
    /\ s # cur[c]
    /\ event' = [event EXCEPT ![s] = TRUE]
    /\ tpc' = [tpc EXCEPT ![cur[c]] = "parting"]
    /\ LockSchedee(c, s)
    /\ UNCHANGED <<flagVars, prioVars, queueVars, pokeVars, held, frameVars,
                   bkl, ticker>>

\* Mutant: interrupts stay enabled inside sched_wakeup() and __schedule().
IrqEnterAnywhere(c) == bkl \in {None, c}

\* critical_enter(CRITICAL_IRQ_HANDLER): an interrupt owns the BKL.
IrqEnter(c) ==
    /\ pc[c] \in IrqOn
    /\ bkl \in {None, c}

\* So does an interrupt handler.  With e = FALSE it is a timeout or a signal,
\* a wakeup whose condition is still false.
IrqWakeup(c, s, e) ==
    /\ IrqEnter(c)
    /\ bkl' = c
    /\ event' = [event EXCEPT ![s] = @ \/ e]
    /\ LockSchedee(c, s)
    /\ UNCHANGED <<flagVars, prioVars, queueVars, pokeVars, tpc, held,
                   frameVars, ticker>>

\* sched_signal(): a ready schedee is only asked to reschedule.
Signal(c, s) ==
    /\ Works(c)
    /\ held[cur[c]]
    /\ \/ /\ ready[s]
          /\ PostSwitch(c)
          /\ UNCHANGED <<ipi, sent, wakeVars, pc>>
       \/ /\ ~ready[s]
          /\ LockSchedee(c, s)
          /\ UNCHANGED pokeVars
    /\ UNCHANGED <<flagVars, prioVars, queueVars, threadVars, frameVars, bkl,
                   ticker>>

Goto(c, l) == pc' = [pc EXCEPT ![c] = l]

\* Mutant: a finished schedee is woken like any other.
WakeFinishedToo(c) ==
    /\ pc[c] = "wfin"
    /\ Goto(c, "wwait")
    /\ UNCHANGED <<flagVars, prioVars, queueVars, pokeVars, threadVars,
                   frameVars, wakeVars, bkl, ticker>>

\* __sched_wakeup(): refuse a finished schedee.
WakeFinished(c) ==
    /\ pc[c] = "wfin"
    /\ Goto(c, IF finished[tgt[c]] THEN "wunlock" ELSE "wwait")
    /\ UNCHANGED <<flagVars, prioVars, queueVars, pokeVars, threadVars,
                   frameVars, wakeVars, bkl, ticker>>

\* was_waiting
WakeWaiting(c) ==
    /\ pc[c] = "wwait"
    /\ Goto(c, IF waiting[tgt[c]] = "yes" THEN "wready" ELSE "wunlock")
    /\ UNCHANGED <<flagVars, prioVars, queueVars, pokeVars, threadVars,
                   frameVars, wakeVars, bkl, ticker>>

\* Mutant: no test of ready; a preempted target is filed a second time.
WakeReadySkipped(c) ==
    /\ pc[c] = "wready"
    /\ Goto(c, "winact")
    /\ UNCHANGED <<flagVars, prioVars, queueVars, pokeVars, threadVars,
                   frameVars, wakeVars, bkl, ticker>>

\* __sched_wakeup_ready(): a target that has not yet given up the CPU only
\* loses its waiting flag.
WakeReady(c) ==
    /\ pc[c] = "wready"
    /\ \/ /\ ready[tgt[c]]
          /\ waiting' = [waiting EXCEPT ![tgt[c]] = "no"]
          /\ Goto(c, "wunlock")
       \/ /\ ~ready[tgt[c]]
          /\ Goto(c, "winact")
          /\ UNCHANGED waiting
    /\ UNCHANGED <<ready, active, finished, released, prioVars, queueVars,
                   pokeVars, threadVars, frameVars, wakeVars, bkl, ticker>>

\* __sched_wakeup_smp_inactive(): s->waiting = TW_SMP_WAKING
WakeInactive(c) ==
    /\ pc[c] = "winact"
    /\ waiting' = [waiting EXCEPT ![tgt[c]] = "waking"]
    /\ Goto(c, "wactive")
    /\ UNCHANGED <<ready, active, finished, released, prioVars, queueVars,
                   pokeVars, threadVars, frameVars, wakeVars, bkl, ticker>>

\* if (!s->active) __sched_wakeup_waiting(s)
WakeActive(c) ==
    /\ pc[c] = "wactive"
    /\ \/ /\ ~active[tgt[c]]
          /\ WakeupWaiting(c, tgt[c])
       \/ /\ active[tgt[c]]
          /\ UNCHANGED <<ready, waiting, queueVars, pokeVars>>
    /\ Goto(c, "wunlock")
    /\ UNCHANGED <<active, finished, released, prioVars, threadVars, frameVars,
                   wakeVars, bkl, ticker>>

\* Mutant: the BKL is dropped under a thread's sched_lock().
IrqExitHeld(c) ==
    bkl' = IF bkl = c /\ ret[c] = "run" THEN None ELSE bkl

\* critical_leave() of an interrupt that found a zero critical count.
IrqExit(c) ==
    bkl' = IF bkl = c /\ ret[c] = "run" /\ ~held[cur[c]] THEN None ELSE bkl

\* The schedee's lock is dropped and, in an interrupt that found a zero
\* critical count, the BKL with it.
WakeUnlock(c) ==
    /\ pc[c] = "wunlock"
    /\ slock' = [slock EXCEPT ![tgt[c]] = None]
    /\ tgt' = [tgt EXCEPT ![c] = None]
    /\ ret' = [ret EXCEPT ![c] = "run"]
    /\ Goto(c, ret[c])
    /\ IrqExit(c)
    /\ UNCHANGED <<flagVars, prioVars, queueVars, pokeVars, threadVars,
                   frameVars, ticker>>

-----------------------------------------------------------------------------
(* Interrupts that only ask for rescheduling.                                *)

\* resched_ipi_handler()
IrqResched(c) ==
    /\ IrqEnter(c)
    /\ ipi[c]
    /\ ipi' = [ipi EXCEPT ![c] = FALSE]
    /\ pending' = [pending EXCEPT ![c] = TRUE]
    /\ UNCHANGED <<flagVars, prioVars, queueVars, yieldReq, sent, threadVars,
                   frameVars, wakeVars, pc, bkl, ticker>>

\* sched_tick()
IrqTick(c) ==
    /\ Ticking
    /\ IrqEnter(c)
    /\ c \in ticker
    /\ ipi' = [d \in CPUs |-> ipi[d] \/ d # c]
    /\ PostSwitch(c)
    /\ UNCHANGED <<flagVars, prioVars, queueVars, sent, threadVars, frameVars,
                   wakeVars, pc, bkl, ticker>>

-----------------------------------------------------------------------------
(* __schedule()                                                              *)

\* sched_lock() and the head of __schedule(): the frame's locals, and the IPI
\* aimed at this CPU has done its job.
EnterSchedule(c, pre) ==
    /\ bkl' = c
    /\ prev' = [prev EXCEPT ![c] = cur[c]]
    /\ preempt' = [preempt EXCEPT ![c] = pre]
    /\ sent' = [sent EXCEPT ![c] = FALSE]
    /\ Goto(c, "pick")

\* Mutant: sched_preempt() without sched_lock().
PreemptUnlocked(c) ==
    /\ pc[c] = "run"
    /\ pending[c]
    /\ ~held[cur[c]]
    /\ pending' = [pending EXCEPT ![c] = FALSE]
    /\ EnterSchedule(c, TRUE)
    /\ UNCHANGED <<flagVars, prioVars, queueVars, yieldReq, ipi, threadVars,
                   cur, yielding, wakeVars, ticker>>

\* sched_preempt(), dispatched by critical_dispatch_pending().
Preempt(c) ==
    /\ pc[c] = "run"
    /\ pending[c]
    /\ ~held[cur[c]]
    /\ bkl = None
    /\ pending' = [pending EXCEPT ![c] = FALSE]
    /\ EnterSchedule(c, TRUE)
    /\ UNCHANGED <<flagVars, prioVars, queueVars, yieldReq, ipi, threadVars,
                   cur, yielding, wakeVars, ticker>>

\* schedule(), from SCHED_WAIT or from thread_exit().
Schedule(c) ==
    /\ RunsWorker(c)
    /\ bkl \in {None, c}
    /\ \/ /\ tpc[cur[c]] = "sleep"
          /\ tpc' = [tpc EXCEPT ![cur[c]] = "resumed"]
       \/ /\ tpc[cur[c]] \in {"exiting", "parting"}
          /\ tpc' = [tpc EXCEPT ![cur[c]] = "dead"]
    /\ EnterSchedule(c, FALSE)
    /\ UNCHANGED <<flagVars, prioVars, queueVars, yieldReq, pending, ipi, held,
                   event, cur, yielding, wakeVars, ticker>>

\* Mutant: a thread preempted on its way to sleep is put to sleep.
GoesToSleepPreempted(c) == waiting[prev[c]] # "no"

\* prev gives up the CPU for good: __schedule() was not called to preempt it
\* and it is still waiting.
GoesToSleep(c) == ~preempt[c] /\ waiting[prev[c]] # "no"

\* One turn of the loop, under rq.lock: on the first turn prev is filed or put
\* to sleep; then next is chosen and taken out of the queue.
Pick(c) ==
    LET p == prev[c]
        first == pc[c] = "pick"
        files == first /\ ~GoesToSleep(c)
        q == IF files THEN rq \cup {p} ELSE rq
        level == IF files THEN [runqPrio EXCEPT ![p] = prio[p]] ELSE runqPrio
        yield == IF first THEN yieldReq ELSE yielding[c]
    IN  /\ pc[c] \in {"pick", "repick"}
        /\ \E head \in GetNext(c, q, level) :
              LET peer == head \in Threads /\ prio[head] = prio[p]
                  stays == peer /\ ~yield /\ ~GoesToSleep(c)
                  next == IF stays THEN p ELSE head
              IN  /\ rq' = RunqTake(q, next)
                  /\ cur' = [cur EXCEPT ![c] = next]
                  /\ yieldReq' = (yieldReq /\ ~(peer /\ yield))
                  /\ Goto(c, IF next \in LThreads THEN "ltproc"
                             ELSE IF next = p THEN "leave" ELSE "switch")
        /\ nr' = IF files THEN nr ELSE nr - 1
        /\ runqPrio' = level
        /\ ready' = IF first /\ GoesToSleep(c) THEN [ready EXCEPT ![p] = FALSE]
                                               ELSE ready
        /\ yielding' = [yielding EXCEPT ![c] = yield]
        /\ UNCHANGED <<active, waiting, finished, released, prioVars, pending,
                       ipi, sent, threadVars, prev, preempt, wakeVars, bkl,
                       ticker>>

\* Mutant: the lightweight thread is not marked waiting before it runs.
LThreadStartDeaf(c) ==
    /\ pc[c] = "ltproc"
    /\ ready' = [ready EXCEPT ![cur[c]] = FALSE]
    /\ Goto(c, "lt")
    /\ UNCHANGED <<active, waiting, finished, released, prioVars, queueVars,
                   pokeVars, threadVars, frameVars, wakeVars, bkl, ticker>>

\* lthread_do_process() before run(): it may be woken again from here on.
LThreadStart(c) ==
    /\ pc[c] = "ltproc"
    /\ ready' = [ready EXCEPT ![cur[c]] = FALSE]
    /\ waiting' = [waiting EXCEPT ![cur[c]] = "yes"]
    /\ Goto(c, "lt")
    /\ UNCHANGED <<active, finished, released, prioVars, queueVars, pokeVars,
                   threadVars, frameVars, wakeVars, bkl, ticker>>

\* run() looks at its condition, for the last time in this call.
LThreadLook(c) ==
    /\ pc[c] = "lt"
    /\ event' = [event EXCEPT ![cur[c]] = FALSE]
    /\ Goto(c, "ltdone")
    /\ UNCHANGED <<flagVars, prioVars, queueVars, pokeVars, tpc, held,
                   frameVars, wakeVars, bkl, ticker>>

\* run() returns, whatever has happened since it looked; the loop turns again.
LThreadReturn(c) ==
    /\ pc[c] = "ltdone"
    /\ Goto(c, "repick")
    /\ UNCHANGED <<flagVars, prioVars, queueVars, pokeVars, threadVars,
                   frameVars, wakeVars, bkl, ticker>>

\* Mutants: next is still marked released, or is not marked active.
ActivateReleased(c) ==
    /\ pc[c] = "switch"
    /\ active' = [active EXCEPT ![cur[c]] = TRUE]
    /\ Goto(c, "deact")
    /\ UNCHANGED <<ready, waiting, finished, released, prioVars, queueVars,
                   pokeVars, threadVars, frameVars, wakeVars, bkl, ticker>>
ActivateInactive(c) ==
    /\ pc[c] = "switch"
    /\ released' = [released EXCEPT ![cur[c]] = FALSE]
    /\ Goto(c, "deact")
    /\ UNCHANGED <<ready, active, waiting, finished, prioVars, queueVars,
                   pokeVars, threadVars, frameVars, wakeVars, bkl, ticker>>

\* sched_start_switch(next), then context_switch().
Activate(c) ==
    /\ pc[c] = "switch"
    /\ released' = [released EXCEPT ![cur[c]] = FALSE]
    /\ active' = [active EXCEPT ![cur[c]] = TRUE]
    /\ Goto(c, "deact")
    /\ UNCHANGED <<ready, waiting, finished, prioVars, queueVars, pokeVars,
                   threadVars, frameVars, wakeVars, bkl, ticker>>

\* sched_finish_switch(prev), on next's stack: s->active = false
Deactivate(c) ==
    /\ pc[c] = "deact"
    /\ active' = [active EXCEPT ![prev[c]] = FALSE]
    /\ Goto(c, "deact2")
    /\ UNCHANGED <<ready, waiting, finished, released, prioVars, queueVars,
                   pokeVars, threadVars, frameVars, wakeVars, bkl, ticker>>

\* A wakeup that found prev active was left for this CPU to finish.
DeferredWakeup(c) ==
    LET due == waiting[prev[c]] = "waking" /\ ~finished[prev[c]]
    IN  /\ pc[c] = "deact2"
        /\ \/ /\ due
              /\ slock[prev[c]] = None
              /\ WakeupWaiting(c, prev[c])
           \/ /\ ~due
              /\ UNCHANGED <<ready, waiting, queueVars, pokeVars>>
        /\ Goto(c, "release")
        /\ UNCHANGED <<active, finished, released, prioVars, threadVars,
                       frameVars, wakeVars, bkl, ticker>>

\* The last touch of prev on this CPU.
Release(c) ==
    /\ pc[c] = "release"
    /\ released' = [released EXCEPT ![prev[c]] = TRUE]
    /\ Goto(c, "leave")
    /\ UNCHANGED <<ready, active, waiting, finished, prioVars, queueVars,
                   pokeVars, threadVars, frameVars, wakeVars, bkl, ticker>>

\* sched_ticker_add() and sched_ticker_del() on this CPU.
TickerAdd(c) == ticker \cup {c}
TickerDel(c) == ticker \ {c}

\* sched_ticker_update(): keep the tick while a peer of cur is queued here;
\* with nothing queued for this CPU drop it and, if no CPU that could run the
\* head of the queue ticks, interrupt those that are idle.
TickerUpdate(c) ==
    LET here == GetNext(c, rq, runqPrio)
    IN  \/ /\ nr = 0
           /\ ticker' = TickerDel(c)
           /\ UNCHANGED ipi
        \/ /\ nr # 0
           /\ here = {}
           /\ ticker' = TickerDel(c)
           /\ \/ /\ rq = {}
                 /\ UNCHANGED ipi
              \/ \E s \in GetNextAnywhere(rq, runqPrio) :
                    ipi' = [d \in CPUs |->
                              \/ ipi[d]
                              \/ /\ ticker \cap Affinity[s] = {}
                                 /\ d \in Affinity[s]
                                 /\ active[Idle[d]]]
        \/ /\ nr # 0
           /\ \E s \in here :
                 ticker' = IF prio[cur[c]] = prio[s] THEN TickerAdd(c)
                                                     ELSE ticker
           /\ UNCHANGED ipi

\* thread_ack_switched(): how a fresh thread leaves the scheduler.
AckSwitched(c) ==
    /\ tpc[cur[c]] = "fresh"
    /\ ticker' = TickerAdd(c)
    /\ tpc' = [tpc EXCEPT ![cur[c]] = "work"]
    /\ UNCHANGED ipi

\* The rest of __schedule() and sched_unlock(), on the stack of the thread
\* that now runs.
Leave(c) ==
    /\ pc[c] = "leave"
    /\ \/ AckSwitched(c)
       \/ /\ tpc[cur[c]] # "fresh"
          /\ TickerUpdate(c)
          /\ UNCHANGED tpc
    /\ bkl' = IF held[cur[c]] THEN c ELSE None
    /\ prev' = [prev EXCEPT ![c] = None]
    /\ preempt' = [preempt EXCEPT ![c] = FALSE]
    /\ yielding' = [yielding EXCEPT ![c] = FALSE]
    /\ Goto(c, "run")
    /\ UNCHANGED <<flagVars, prioVars, queueVars, yieldReq, pending, sent,
                   held, event, cur, wakeVars>>

-----------------------------------------------------------------------------
ThreadStep(c) ==
    \/ SchedLock(c) \/ SchedUnlock(c)
    \/ WaitPrepare(c) \/ WaitCheck(c) \/ WaitCleanup(c)
    \/ ThreadYield(c) \/ ExitFinish(c) \/ ExitWait(c)
    \/ \E s \in Workers : ExitWakeJoining(c, s)
    \/ \E s \in Terminable : Terminate(c, s)
    \/ \E s \in Tunable, new \in Levels : ChangePriority(c, s, new)

WakeStart(c) ==
    \E s \in Schedees \ Idles :
        \/ ThreadWakeup(c, s) \/ LThreadWakeup(c, s) \/ Signal(c, s)
        \/ \E e \in BOOLEAN : IrqWakeup(c, s, e)

WakeStep(c) ==
    \/ WakeFinished(c) \/ WakeWaiting(c) \/ WakeReady(c) \/ WakeInactive(c)
    \/ WakeActive(c) \/ WakeUnlock(c)

ScheduleStep(c) ==
    \/ Pick(c) \/ LThreadStart(c) \/ LThreadLook(c) \/ LThreadReturn(c)
    \/ Activate(c) \/ Deactivate(c) \/ DeferredWakeup(c) \/ Release(c) \/ Leave(c)

Next ==
    \E c \in CPUs :
        \/ ThreadStep(c) \/ WakeStart(c) \/ WakeStep(c)
        \/ IrqResched(c) \/ IrqTick(c)
        \/ Preempt(c) \/ Schedule(c) \/ ScheduleStep(c)

Spec == Init /\ [][Next]_vars

-----------------------------------------------------------------------------
(* Correctness.                                                              *)

\* Where CPU c is outside sched_wakeup().
At(c) == IF pc[c] \in WakePcs THEN ret[c] ELSE pc[c]

\* CPU c executes on the stack of next from context_switch() on.
Switched == {"deact", "deact2", "release", "leave"}
InSchedule(c) == At(c) \in SchedulePcs

\* The thread whose stack CPU c executes on.
Stack(c) == IF InSchedule(c) /\ At(c) \notin Switched THEN prev[c] ELSE cur[c]

TypeOK ==
    /\ ready \in [Schedees -> BOOLEAN]
    /\ active \in [Schedees -> BOOLEAN]
    /\ waiting \in [Schedees -> {"no", "yes", "waking"}]
    /\ finished \in [Schedees -> BOOLEAN]
    /\ released \in [Schedees -> BOOLEAN]
    /\ slock \in [Schedees -> CPUs \cup {None}]
    /\ base \in [Schedees -> Levels]
    /\ prio \in [Schedees -> Levels]
    /\ runqPrio \in [Schedees -> Levels]
    /\ rq \subseteq Schedees
    /\ nr \in Int
    /\ yieldReq \in BOOLEAN
    /\ bkl \in CPUs \cup {None}
    /\ ticker \subseteq CPUs
    /\ tpc \in [Threads -> {"fresh", "work", "check", "cleanup", "sleep",
                            "resumed", "exit", "exiting", "parting", "dead"}]
    /\ held \in [Threads -> BOOLEAN]
    /\ event \in [Schedees -> BOOLEAN]
    /\ cur \in [CPUs -> Schedees]
    /\ pc \in [CPUs -> {"run"} \cup SchedulePcs \cup WakePcs]
    /\ prev \in [CPUs -> Threads \cup {None}]
    /\ preempt \in [CPUs -> BOOLEAN]
    /\ yielding \in [CPUs -> BOOLEAN]
    /\ tgt \in [CPUs -> Schedees \cup {None}]
    /\ ret \in [CPUs -> IrqOn]
    /\ pending \in [CPUs -> BOOLEAN]
    /\ ipi \in [CPUs -> BOOLEAN]
    /\ sent \in [CPUs -> BOOLEAN]

\* A non-zero critical count promises the BKL (kernel/cpu/bkl.c): a CPU inside
\* __schedule(), or running a thread that holds sched_lock(), owns it.
BklPromise ==
    \A c \in CPUs :
        InSchedule(c) \/ (At(c) = "run" /\ held[cur[c]]) => bkl = c

\* No two CPUs ever execute on one stack: the corner case that TW_SMP_WAKING
\* was introduced for.
OneCpuPerThread ==
    \A c, d \in CPUs : Stack(c) = Stack(d) => c = d

\* A queued thread is on no CPU's stack, except for prev while its CPU is
\* still leaving it inside __schedule().
QueuedIsOff ==
    \A c \in CPUs : Stack(c) \in rq => InSchedule(c) /\ Stack(c) = prev[c]

\* rq_nr_ready stays exact: no schedee is filed twice or taken out unfiled.
NrReadyExact == nr = Cardinality(rq)

\* assert(next) in __schedule(): the queue always holds something this CPU may
\* run.
NextExists ==
    \A c \in CPUs :
        \/ pc[c] = "pick" /\ (preempt[c] \/ waiting[prev[c]] = "no")
        \/ pc[c] \in {"pick", "repick"} => \E s \in rq : c \in Affinity[s]

\* No wakeup is lost: a schedee that has given up its CPU although its
\* condition came true has a waker, or a CPU that still owes it the wakeup, or
\* is a lightweight thread that has yet to look at its condition in run().
NoLostWakeup ==
    \A s \in Schedees :
        event[s] /\ ~ready[s] /\ ~finished[s] =>
            \/ \E c \in CPUs : /\ tgt[c] = s
                               /\ pc[c] \in WakePcs \ {"wunlock"}
            \/ /\ waiting[s] = "waking"
               /\ \E c \in CPUs : /\ prev[c] = s
                                  /\ At(c) \notin {"release", "leave"}
            \/ \E c \in CPUs : At(c) = "lt" /\ cur[c] = s

\* A deferred wakeup is never dropped or overwritten: TW_SMP_WAKING only goes
\* away together with the schedee becoming ready.
WakingIsServed ==
    [][\A s \in Schedees :
          waiting[s] = "waking" /\ waiting'[s] # "waking" /\ ~finished'[s] =>
              waiting'[s] = "no" /\ ready'[s]]_vars

\* With no CPU inside __schedule(), the test `ready && !active' that
\* sched_change_priority() and sched_freeze() use says exactly which live
\* schedees are queued.
InRqTest ==
    (\A c \in CPUs : ~InSchedule(c)) =>
        \A s \in Schedees :
            ~finished[s] => ((ready[s] /\ ~active[s]) <=> s \in rq)

\* A priority is the queue a schedee is filed in (priority/inherit.c): every
\* queued live schedee is filed at its current priority.
FiledAtPriority == \A s \in rq : ~finished[s] => runqPrio[s] = prio[s]

\* A released schedee is in use by no CPU (sched.h): none executes on its
\* stack and none is still switching away from it.
ReleasedIsOff ==
    \A s \in Schedees, c \in CPUs :
        released[s] =>
            /\ Stack(c) # s
            /\ prev[c] = s => At(c) \notin {"deact", "deact2", "release"}

\* A finished schedee is never on the run queue: "must not be put back on the
\* runqueue on its way out of __schedule()" (sched.h).
FinishedNeverQueued == \A s \in rq : ~finished[s]

\* schedule() does not return to thread_exit(), which would panic.
ExitedNeverRuns ==
    \A c \in CPUs : At(c) = "run" => tpc[cur[c]] # "dead"

\* An idle CPU with no interrupt on its way has nothing queued that only it
\* could run and that outranks its idle thread: a thread pinned to an idle core
\* does start.
PinnedStarts ==
    \A c \in CPUs :
        pc[c] = "run" /\ cur[c] = Idle[c] /\ ~pending[c] /\ ~ipi[c]
            /\ ticker = {} =>
            \A s \in rq : Affinity[s] = {c} => prio[s] <= prio[Idle[c]]
=============================================================================
