# A verification project for the Embox SMP kernel core

Embox is a configurable real-time operating system. Its run-time core is the
kernel under `src/kernel`: a preemptive priority scheduler shared by all cores,
with lightweight threads that run inside it, a big kernel lock, wait and wake
primitives, and the synchronisation objects built on them. This directory
models that core in TLA+, checks it with TLC on small instances, and proves the
safety properties of the scheduler, its run queue, the critical levels, the
timers and the calls that sleep with TLAPS for every number of CPUs, threads and
timers and for every program that keeps to the rules of the calls.

All paths below are relative to the repository's `src/` directory.

## 1. Inventory

| component | state | operations | interacts with |
|---|---|---|---|
| scheduler core (`kernel/sched/sched.c`) | per schedee: `ready`, `active`, `waiting` (with `TW_SMP_WAKING`), `finished`, `released`, lock; global: run queue, `rq_nr_ready`, `sched_yield_req`; per CPU: current, `resched_sent` | `__schedule`, `schedule`, `sched_preempt`, `sched_wakeup`, `sched_change_priority`, `sched_freeze`, `sched_finished`, `sched_wait_prepare/cleanup` | everything |
| run queue (`kernel/sched/strategy/runq/list_array.c`) | a list per priority, bitmap of occupied ones, `runq_prio` | insert, remove, get_next, extract, get_next_ignore_affinity | called under `rq.lock` |
| priority (`kernel/sched/priority/inherit.c`) | base and current priority | set, inherit, reverse | `sched_change_priority`, mutex, pthread |
| tick (`kernel/sched/sched_ticker.c`) | the CPUs whose tick timer runs | add, del, `sched_tick` | `sched_ticker_update`, timers, IPI |
| context switch (`kernel/thread/thread_switch.c`) | `saved_prev`, saved critical count | switch, ack | scheduler core |
| lightweight threads (`kernel/lthread`) | a schedee, run function, joining | process, launch, join | run inside `__schedule` |
| wait/wake (`thread_sched_wait.[ch]`) | the waiter's condition, a timer | `SCHED_WAIT`, timed wait | scheduler core, timers |
| threads (`kernel/thread/core.c`) | state flags, joining, zombie list | create, launch, join, detach, exit, terminate, delete, yield | scheduler core |
| critical levels, BKL, spinlocks (`kernel/critical.c`, `include/kernel/critical.h`, `kernel/cpu/bkl.c`, `include/kernel/spinlock.h`) | count per CPU and level, dispatcher queue, lock owner | enter, leave, request and dispatch | interrupts, scheduler |
| interrupt entry, IPIs (`arch/aarch64/kernel`) | pending interrupts | handler, resched IPI, stop IPI | critical levels |
| mutex, condition, barrier, read-write lock, semaphore, wait queue (`kernel/thread/sync`, `kernel/sched/sync`, `kernel/sched/waitq.c`) | holder, counts, list of waiters, one `waitq_link` per thread | lock/unlock, wait/signal, up/down, enter/leave | wait/wake, priority |
| timers (`kernel/time`) | a delta list per CPU, started flags, `owner_cpu`, jiffies | start, stop, tick, handler | timed waits, tick |
| tasks (`kernel/task`) | status, children, main thread | new_task, exit, waitpid | threads, wait queues |
| signals, memory, file systems, network, drivers, libraries | | | through threads and wakeups |

What is hard here: sched_wakeup() runs concurrently with the switch of its
target on another CPU and is not under the big kernel lock; a CPU that has
chosen its next thread has released `rq.lock` before it marks that thread
active; interrupts may arrive wherever they are not masked, with the lock
already owned or not; a lightweight thread runs with interrupts enabled in the
middle of `__schedule`; threads are terminated from other CPUs; idle CPUs must
be poked by an IPI exactly when nobody else will serve them; a timed wait keeps
its timer on its own stack and closes it on whatever CPU it wakes on; spinlocks
are waited for by code that may be interrupted by code that waits for the BKL;
the memory of a thread, and of a task with its main thread, is reclaimed by
whoever of several parties comes first.

What makes each component correct: no two CPUs on one stack, no lost wakeup, an
exact count of queued schedees and something to run whenever a CPU asks
(scheduler core); the bitmap describes the lists and searches return the first
of the best level (run queue); a queued schedee is filed at its priority
(priority); a non-zero critical count means the BKL is owned (critical levels);
an exited thread never runs again and its memory is freed only when no CPU uses
it (threads); a pinned thread starts (tick, IPI); deltas add up to the times
asked for, no wait times out early and every one returns (timers); who sleeps
has a reason that somebody will end, a mutex belongs to who locked it and its
holder runs at the priority of its waiters (synchronisation); a task is freed
when nobody stands on its stacks, and its parent gets to know (tasks).

## 2. Modules

| module | what it is |
|---|---|
| `Sched` | the scheduler core with the context switch, wait/wake, tick, priorities, exit, interrupts and the BKL |
| `MCSched` | finite instances of `Sched`: affinities, priorities, symmetry |
| `SchedProofs` | TLAPS proofs about `Sched`: types and exclusion |
| `SchedWakeProofs` | the same: the run queue and its counter, deferred wakeups, something to run, no lost wakeup, no return from exit, pinned threads start |
| `PrioQueue` | abstract specification: a priority queue with affinity, first come first served within a level |
| `Runq` | the lists and the bitmap, with the refinement mapping to `PrioQueue` |
| `MCRunq` | a finite instance of `Runq` |
| `RunqProofs` | TLAPS proofs about `Runq`: the bitmap and the refinement |
| `Critical` | counts per critical level, BKL, spin regions, `irq_lock()`, interrupts, deferred dispatch |
| `MCCritical` | a finite instance of `Critical` |
| `CriticalProofs` | TLAPS proofs about `Critical`: all its invariants |
| `TimerSet` | abstract specification: timers with absolute times per CPU |
| `Timer` | the delta lists, the tick and timed waits, with the refinement mapping to `TimerSet` |
| `MCTimer` | a finite instance of `Timer` |
| `TimerProofs` | TLAPS proofs about `Timer`: all its safety properties and the refinement |
| `LeastNumber` | induction over numbers, as facts about sets |
| `Sleep` | threads as programs of calls that sleep; wait queues and the loop of `WAITQ_WAIT` |
| `Sync` | mutexes, conditions, barriers, read-write locks, over `Sleep` |
| `Thread` | create, launch, exit, join, detach, delete; task exit and waitpid, over `Sleep` |
| `Threads` | the composition of `Sync` and `Thread`, with the properties of both |
| `MCThreads` | the programs the composition is checked on |
| `ThreadsProofs` | TLAPS proofs about `Threads`: types, no lost sleeper, links and freed memory |
| `SyncProofs` | the same: who holds a mutex and at which priority, barriers, nothing leaks |
| `Semaphore` | counting semaphores, over `Sleep` |
| `MCSemaphore` | the programs semaphores are checked on |

### Sched

One variable per field of `struct schedee`, per global of `sched.c` and per
local of `__schedule()` that survives a step. `pc[c]` is where CPU `c` is:

* `run`: in the code of the thread `cur[c]`, whose own position in `SCHED_WAIT`
  or `thread_exit()` is `tpc`;
* `pick`, `ltproc`, `lt`, `ltdone`, `repick`, `switch`, `deact`, `deact2`,
  `release`, `leave`: inside `__schedule()`, in the order of the code; `lt` and
  `ltdone` are a lightweight thread's `run()` before and after it has looked at
  its condition for the last time (`LThreadLook`), so that a wakeup which comes
  between that look and the return is for the next call;
* `wfin`, `wwait`, `wready`, `winact`, `wactive`, `wunlock`: inside
  `__sched_wakeup()`, one step per read of a flag another CPU may change;
  `ret[c]` is where it was called from, so a thread, a lightweight thread and an
  interrupt all use the same steps.

Granularity. A section under `rq.lock` is one step, so that lock is not a
variable. `waiting`, `finished` and `active` are also touched outside it, which
is where the steps are split. `s->lock` is the variable `slock`. `Leave` merges
`sched_ticker_update()` with the unlock: its decision reads only the queue and
its action only adds interrupts and the CPU's own tick. `Terminate` merges
setting `finished` with `sched_freeze()`; it waits for `slock`, so no waker can
be between its reads; a waker that finds the flag while it holds the lock does
nothing, exactly as if it had come after the termination. Memory is sequentially consistent.

`held[t]` says that thread `t` is inside `sched_lock()`; it moves with the
thread, as `critical_count` does in `thread_prepare_switch()`. `bkl` is the
owner of the big kernel lock. `event[s]` is the condition `s` waits for: it is
made true by a waker before it calls `sched_wakeup()`. A timeout or a signal is
a wakeup from an interrupt that leaves `event` false.

The run queue is a set with a level per member; order within a level is open
here (`GetNext` may return any of the best), and `Runq` shows that the lists
give one such answer. The choice of the lowest-numbered idle CPU to poke is
open too.

Not in `Sched`: CPU time accounting, logging, address spaces,
`thread_signal_handle()` inside `thread_process()`, changing affinity at run
time, the freeing done by `thread_delete()`.

The constants that bound or widen a run are `Launched`, `Ticking`,
`BareWakers` (threads may call `sched_wakeup()` without `sched_lock()`),
`Setters` (from where priorities are changed), `Tunable`, `Terminable` and
`Exiting`. There are no counters to bound: the state space is finite.

### Runq and PrioQueue

`list` is a sequence per priority, `occupied` a set of bits per word.
`Reprioritise` lets the claimed priority change while a schedee is queued, which
is what `runq_prio` exists for. `Runq` implements `PrioQueue` with
`filed[s]` as the remembered level and `before` as the order in the lists;
`got` is the answer of the last search. `PrioQueue` is a specification, not code,
and so has no entries in the map.

### Critical

Each thread is a stack of frames (`stk`): open sections, waits for a lock, calls
of `critical_dispatch_pending()`, interrupts, `__schedule()`. The thread carries
its stack from CPU to CPU; `count`, `masked`, the stash of `irq_lock()` and the
`pending` dispatch stay with the CPU, and `SwapCount` exchanges the counts as
`thread_prepare_switch()` does. Counts keep their width: a level is a
digit of base `Radix` (64 in `critical.h`, whose masks have six bits each), the
levels in the order of `critical.h`.

What runs with interrupts masked on one CPU is one step unless it waits for
another CPU: taking the BKL and a spinlock are steps of their own, and so are the
parts of `spin_unlock_ipl()` between which an interrupt fits. `bkl_trylock()` and
raising the count are one step because the code masks around them. There is one
dispatcher, `sched_critical`, whose mask covers every level. A thread opens
sections in the orders in which the kernel does: `irq_lock()` under
`sched_lock()`, `rq.lock` under `sched_lock()` or alone, and a spinlock with
interrupts on (`kflock()`) under no other section. Two levels of sections of a
thread's own code, two calls and two interrupts or lightweight threads are
enough for an interrupt inside a spin region inside a nested section, followed
by a dispatch that comes back on the other CPU.

### Timer and TimerSet

`list[c]` is the delta list of CPU `c`, `owner[s]` is `owner_cpu`, `shared` the
per-CPU started bits of the ticker. `due` is an auxiliary variable: the absolute
time each timer was asked for. A sleeper stands for its timer too, since the
timer is on its stack; `linked` is its place in `thread_wait_list`, through which
`thread_wait_deinit()` finds it. `Arm` and `Close` take the CPU they run on as a
parameter: the thread may have moved between them.

`sched_wait_timeout()` holds no lock while it sets its timer up, and a thread may be
preempted, terminated and deleted at any point of it. `Link` is `thread_wait_add()`:
the timer is now found through its thread, and its `state` and `owner_cpu` are what
the stack held (an arbitrary choice; `Raw` are the threads at this point).
`SysTimerInit` gives them values, `Arm` is `sys_timer_start()`. The expiry that
`sys_timer_start()` computes before it takes the lock (`sys_timer.c:64`) is not a
step: `__timer_strat_start()` computes `cnt` again with the lock held
(`head_timer_smp.c:80`), so no timer is queued with a time that has passed. `astray`
says that a timer on no list has been stopped, closed over a stray `timer_sharing`
or given to the pool of timers; what such a kernel does next is not modelled
(`Halted`). The end of `sched_wait_timeout()`, which closes the timer and then
unlinks it, is one step: in between the timer is stopped, and a deletion there that
closes it again does nothing.

Every edit of a list is one
step, because all of them hold the BKL or run with interrupts masked inside
`__schedule()`; the loop of `timer_strat_sched()` is one step for the same
reason. Jiffies advance on one CPU only, and any CPU may take its tick late.
`MaxTime` stops the clock; `OutOfTime` says which waits that leaves unfinished.

### Sleep, Sync, Thread and Threads

A thread executes a program, a sequence of calls, chosen from `Programs`; `at`
is how far it is in the call. A call that fails (trylock, a timeout, -EDEADLK)
skips the call that would undo it, as a careful caller does. `on[t]` says that
the thread is ready or running, that is, its schedee is not released; that a
woken thread comes back to a CPU, and that a finished one does not, is the promise
`Sched` is about. Code inside `sched_lock()` is one step up to `schedule()`: the
BKL keeps the other sections out. The loop of `WAITQ_WAIT` in `mutex_lock()` and
`waitpid()` runs outside it and is split into adding the link, setting `waiting`,
evaluating the condition and sleeping, each of which interleaves with the rest.

`Thread` has the pool (`at = "none"`), the zombies (the two lists of
`core.c` and `main_thread_create.c` are one: with `task_quantity = 0`
`main_thread_delete()` is `thread_delete()`), and `TaskExit`, which terminates
and deletes every thread of the task although some still run on other CPUs. From
`task_exit()` to the switch the main thread owns the BKL, so only the parent,
whose `waitpid()` takes no lock, comes between.

`ProgramAssumption` says what the calls ask of a program: arguments of the right
kind; a call that undoes a lock right after one that may be refused; a read-write
lock given back by the call after the one that took it; a thread joined by one
thread, or detached, not both (`thread_join()` and `thread_detach()` assert it).
And it says what users of mutexes keep to (`Disciplined`): unlock what was locked
and nothing else, wait for a condition with its mutex locked once, hold none while
creating a thread, which may fail and end the program. The kernel does not enforce
these rules: `mutex_unlock()` asks for the owner only if the type says so, and a
mutex of the normal type is let go by whoever calls it. TLC evaluates the
assumption on the programs of the run.

`Renewed` gives a thread that is created its own priority
(`schedee_priority_init()`), whatever the thread that had the memory before left.

The main thread alone calls `task_exit()`, one thread collects a task, and there
are no signals; the hazards in `PROJECT.json` say what that leaves out.

The `Semaphore` module keeps the load and the store of `value++` apart where the
code holds no lock, and lets the compiler load `value` once or twice.

## 3. What is checked

Two CPUs with an idle thread each, and two or three threads. Two CPUs are enough
for every race between a switching CPU and a waking one. Two working threads
give a sleeper and a waker, which with the idle threads makes every CPU switch
in both directions. The `sched_pinned` run needs a third thread.

| run | instance | properties |
|---|---|---|
| `sched_wait` | two free threads at one level, wakers with and without the lock, ticks, IPIs, interrupts | `TypeOK`, `BklPromise`, `OneCpuPerThread`, `QueuedIsOff`, `NrReadyExact`, `NoLostWakeup`, `WakingIsServed` |
| `sched_lthread` | a thread and a lightweight thread whose priority is changed under the lock | `NextExists`, `NoLostWakeup`, `InRqTest`, `FiledAtPriority`, `ReleasedIsOff` |
| `sched_exit` | two threads pinned to different CPUs; one exits or is terminated; wakers hold the lock | `ExitedNeverRuns`, `PinnedStarts` |
| `runq` | three schedees, three of six priorities, two bits per word, so three words | `MapMatchesLists`, `ImplementsPrioQueue` |
| `timer` | two CPUs, two sleepers with timeout 2, a ticker on one CPU, one sleeper mortal, time up to 2 | `TypeOK`, `StartedIsQueued`, `DeltasExact`, `NoDanglingTimer`, `NoEarlyTimeout`, `ImplementsTimerSet`, `SleepReturns` |
| `critical` | two CPUs, three threads with 2, 1 and 0 calls, nesting 2, two events, `Radix` 4 | `TypeOK`, `CountIsSections`, `MaskedWhereNeeded`, `NoWaitCycle`, `PreemptNotLost`, `LockIsReleased`, `SwitchHappens` |
| `threads` | a parent and three threads, three mutexes (one per type), a condition, a barrier of three, a read-write lock; nine programs | `TypeOK`, `HolderHasLocked`, `NoLostSleeper`, `BoostCoversSleepers`, `BarrierTogether`, `OneLink`, `Undisturbed`, `FreedWhenUnused`, `NoLeak`, `Finishes` |

The passing runs visit from 15 thousand (`runq`) to about 3.1 million
(`sched_lthread`) distinct states. `Ticking` is off in all `Sched` runs except
`sched_wait`: a tick hides a missed poke, so `PinnedStarts` is asked of the time
before the first one. Symmetry is used in `sched_wait` and `runq`, over
schedees the instance treats alike. `timer`, `critical` and `threads` have about
263, 275 and 30 thousand states, without symmetry, since they check liveness.

The bounds of these runs. A timeout of 2 with a period of 1 puts up to three
timers on one list, in every order and with equal times: a wait arms its timer late, or
again for the time that is left. The clock reaches the time of every wait that armed
its timer at once. In `critical` a third thread is needed for a switch that is not an
exchange, and its own code does nothing. The programs of `threads` follow the
thread tests (`tests/kernel/thread`): two contenders and a holder at a mutex, a
low holder and a high waiter, nested mutexes of two types, a holder that sleeps for a
second mutex, a condition with an endless and a timed waiter, one of them holding
another mutex, two rounds of a barrier, readers and a writer, and
join, detach and task exit in every order, with the memory used again.

In `sched_wait` and `sched_lthread` threads may wake others with or without
`sched_lock()`; interrupts always own the BKL.

Each property of a passing run is broken by a mutant of the model, defined next
to the operator it replaces and labelled `Mutant`.

### Findings

Five runs expect a violation. Each states what the repository says of the code,
and TLC shows a behaviour of the code in which it is false.

* `sched_exit_race`: a waker without `sched_lock()` reads `finished` before
  `thread_exit()` stores it and `waiting` after; the exited thread is resumed and
  panics. The comment in `core.c:437` rules this out. With every waking thread
  under the lock the property holds (`sched_exit`).
* `sched_terminate`: `__schedule()` does not look at `finished`; a terminated
  thread that was running elsewhere is queued again by the next preemption.
* `sched_bare_setter`: `ready && !active` is also true of a thread another CPU
  has chosen and not yet activated. `pthread_setschedprio()`, which holds no
  `sched_lock()`, files it a second time; two CPUs run on one stack.
* `sched_pinned`: a thread pinned to a CPU that has chosen and not yet activated
  its idle thread is queued with no IPI, and that CPU goes idle.
* `semaphore`: `semaphore_enter()` and `semaphore_timedwait()` call
  `tryenter_sched_lock()` without the lock, so an increment of `value` is lost
  between two CPUs. With an atomic increment the property still fails:
  `semaphore_timedwait()` tries once more after a wait that has entered
  (`semaphore.c:52`) and takes two units.

The `timer` run and `TimerProofs` delimit one more. A timed wait links its timer to
the thread (`thread_sched_wait.c:82`) before `sys_timer_init()`, with no lock held. A
thread preempted there, then terminated and deleted by the exit of its task
(`multi.c:392-393`), has an uninitialised timer closed: `timer_strat_stop()` may act
on an `owner_cpu` that `timer_strat_start()` never wrote (against `sys_timer.h:72`,
"Written by timer_strat_start(), read by timer_strat_stop()"), a stray
`timer_sharing` be followed, or the stack be given to the pool of timers. TLC finds
`astray` true after four steps. `StartedIsQueued` says that this is the only way to
such a stop; calling `sys_timer_init()` before `thread_wait_add()` would close it.

### Fairness

`Sched` and `Runq` are checked for safety only. The other runs state liveness,
each under weak fairness and no more:

* `timer`: every CPU goes on taking its timer interrupt (`CpuTick`), a
  launched clock handler runs (`CpuHandler`), and a ready thread takes its next step
  (`WaitStep`). Each of these is enabled until it is taken or the kernel halts.
  `SleepReturns`: a thread is again and again outside its timed wait, or terminated.
* `critical`: every CPU goes on executing (`WF_vars(Step(c))`). `LockIsReleased`
  and `SwitchHappens` need nothing of the BKL, which is an unfair test-and-set:
  that a given CPU in `bkl_wait()` ever gets it is not claimed, and could not be.
* `threads`: a ready thread runs. The scheduler is one of strict priorities, so
  this is not true of every program; it is of these, which are finite: every
  thread of a higher priority blocks or exits, and ticks take turns among equals.
  A timeout need not fire. `Finishes`: the main thread and the parent reach their
  end, whatever the order of wakeups, so no call hangs.

Deadlock is checked in every passing run. `Rest` in `critical` and `Over` in
`threads` are the states in which the system may stop: every thread on a CPU is
in code of its own, or the programs are through.

## 4. What is proved

All theorems hold for sets of CPUs, threads, timers or schedees of any size, and
for every value of the other constants that the named assumptions of the modules
admit. Every inductive invariant below was first checked by TLC as an invariant
of the run of its module.

### Exclusion (`SchedProofs`)

Under the assumptions of `Sched`: the idle threads are distinct and pinned,
lightweight threads are not threads, priorities are integers.

* `TypeCorrect`: `Spec => []TypeOK`.
* `Exclusion`: `Spec => []IInv`, provided no priority is changed outside
  `sched_lock()` (the assumption `"bare" \notin Setters`; the run
  `sched_bare_setter` shows that it is needed).
* `BklPromiseHolds`, `OneCpuPerThreadHolds`, `QueuedIsOffHolds`,
  `ReleasedIsOffHolds`: consequences of `IInv`, under the same proviso.

Wakers without the lock, interrupts, exit, termination and lightweight threads
are all included.

None of the four is inductive alone. That a CPU in `__schedule()` owns the BKL
needs that no other CPU runs the same thread, since the lock is held by the
thread; that no two CPUs run one thread needs that only one is in `__schedule()`.
`IInv` has four parts:

* `Typed`: `TypeOK`, and what `pc` says about the frame of a CPU;
* `LockInv`: a waker owns its target's lock, the BKL promise, and a waker past
  its test of `ready` still sees it false;
* `StackInv`: one CPU per stack; a stack is queued only while its CPU is leaving
  it; what is chosen, and what was left, is on no stack; released is off;
* `FlagInv`: who is on a stack is active, who is queued, chosen or current is
  ready. These hold of a schedee that is not finished, or that a waker found
  unfinished: `sched_freeze()` clears the flags of a running thread.

The key case is a wakeup that files its target: the target must be on no stack.
It was seen unready, so it is not chosen or current; it is inactive, so by
`StackIsActive` it is on no stack. The deferred wakeup uses `LeftIsFree` instead.
The proof has one lemma per action, with one step per part of `IInv` that the
action can disturb; `Pick` is split by the outcome of the loop.

### The queue of the scheduler (`SchedWakeProofs`)

`QInv` adds to `IInv` what ties the flags to the queue, in both directions: a
schedee that is active has a CPU (`ActiveHasCpu`), one that is ready and not active
is queued or chosen (`ReadyIsQueued`), the schedee a CPU leaves is queued if it
may be resumed (`PrevIsQueued`, `PrevStays`), `TW_SMP_WAKING` is seen on unready
ones only (`WakingIsUnready`), and `rq_nr_ready` is the cardinality of the queue
(`Counted`). From it, if no priority is changed without `sched_lock()`:

* `NrReadyExactHolds`, `InRqTestHolds`;
* `WakingIsServedHolds`, an action property: only the CPU that leaves the stack
  of a waking schedee, and then files it, takes the mark away;
* `FiledAtPriorityHolds`, if priorities are changed under `sched_lock()` only
  (`Setters \subseteq {"locked"}`): a lightweight thread, which runs in the middle
  of `__schedule()`, may change the priority of the filed `prev`, which is active
  and so not filed anew.

### Who runs next (`SchedWakeProofs`)

* `NextExistsHolds`, with no proviso: `HInv` follows the idle thread of each CPU,
  which is queued unless the CPU runs it, and never waits.
* `NoLostWakeupHolds`, if no priority is changed without `sched_lock()`: `LInv`
  says that a schedee that is not waiting is ready, that a waking one is owed its
  filing by a CPU that has not left it yet, that who has gone to sleep did so
  inside `__schedule()`, and that a condition that came true has been served or
  has a waker at work.
* `ExitedNeverRunsHolds`, if moreover `BareWakers = FALSE`: `XInv` says that
  every waker at work owns the BKL and found its target alive, that an exiting
  thread holds it up to its last `schedule()`, and that a dead thread is off the
  queue. `sched_exit_race` shows what happens otherwise.
* `PinnedStartsHolds`, if moreover `Setters \subseteq {"locked"}` and no thread that
  is terminated has its priority changed. `PInv` says that a CPU that has chosen
  its idle thread has been poked, or nothing only it could run is queued above
  (`PinnedServed`), and that `resched_sent` is up only while the interrupt, or the
  dispatch it asks for, is still to come (`SentIsOnWay`): that is what allows
  `sched_wakeup_remote()` to spare a second one. Whoever files a schedee owns the
  BKL, so every other CPU is outside `__schedule()`, and if it is idle its idle
  thread is active and the poke finds it; `sched_pinned` is the case of a filing
  without the BKL. `__schedule()` itself compares the levels schedees are filed
  at, so these must be the priorities (`LevelIsPriority`); a terminated thread
  that is queued again is the one that `sched_change_priority()` does not file
  anew, hence the last proviso.

### The run queue (`RunqProofs`)

`RInv`: every schedee stands once, in the list of the level it was filed at, and
the bits set are those of the levels that are not empty (`Once`, `AtItsLevel`,
`BitsTell`). It is inductive; `Once` and `AtItsLevel` are needed because
`runq_remove()` unlinks a schedee from wherever it is and then looks at one level
only.

* `MapMatchesListsHolds`: `MapMatchesLists` for every number of priorities and
  every width of a word, which is arithmetic of words and bits (`WordAndBit`,
  `LevelUnique`, `BitOrder`).
* `PrioQueueRefined`: `Spec => ImplementsPrioQueue`. `OccupiedIs` proves what the
  scan of `runq_occupied_below()` returns, `SearchIs` what the search that uses
  it returns. Both are recursive functions; that they exist (`ChaseExists`) and
  what they compute is proved by induction on the level. Then one lemma per
  operation says what it does to the level of each schedee and to who stands
  before whom, and `NextRefines` maps each operation to the abstract one.

### The timers (`TimerProofs`)

`IInv` says that the deltas up to a timer sum to its due time and nothing is on a
list twice (`ListsShow`), that the started flags, the owner and the ticker's bits
tell where a timer is, unless it is linked and not yet initialised (`FlagsTell`,
which rests on `Trusted`), that a flag that is set belongs to a wait that goes on and
whose timer is linked (`StartedInWait`), and that a wait has lasted as long as the time paid
for (`WaitsPaid`). The sum of a prefix is a recursive function; `SumIs` and
`SumEquations` establish it by induction, and `StartShows`, `StopShows`,
`DropShows` say what the loops of `__timer_strat_start()`, `timer_strat_stop()`
and `timer_strat_sched()` do to the due times a list shows.

* `TypeCorrect` (so no counter becomes negative), `StartedIsQueuedHolds`,
  `DeltasExactHolds`, `NoDanglingTimerHolds`, and the action property
  `NoEarlyTimeoutHolds`, with no proviso.
* The second half of `StartedIsQueuedHolds` is `StrayOnlyInWindow`: `astray` is set
  only by the deletion of a terminated thread whose timer is linked and not
  initialised. Every other stop, from whatever CPU, finds the timer on the list its
  `owner_cpu` names.
* `TimerSetRefined`: `Spec => ImplementsTimerSet`, if the period of the ticker is
  not beyond the end of the modelled time (`Interval <= MaxTime`): the abstract
  timers are loaded with times up to `MaxTime`.

### Critical levels (`CriticalProofs`)

Under the assumptions of `Critical`: the CPUs start on different threads, and the
depth of nested calls (`MaxNest`) does not reach `Radix`, which is what the
comments "64 calls depth" and "64 calls" of `critical.h` ask of its users.

`CInv` says that a thread is on one CPU at most (`Apart`), that the state of a CPU
agrees with the stack of its thread (`CpusAgree`), and that a thread that is
switched out stands behind the switch, with the count of its stack saved
(`AwayAgree`). To agree (`Agrees`) is:

* the count is the sum, over the frames of the stack, of what each adds;
* the CPU holds the BKL, `rq.lock` or the spinlock exactly if the stack has a
  frame that does;
* interrupts are masked exactly if the last frame says so;
* if a switch is asked for and the count is zero, the last frame looks for it.

What makes it inductive is `Good`, which says what may stand on what (`Fits`): an
interrupt only where they are on, a call of `critical_dispatch_pending()` on no
open section, `__schedule()` on nothing harder than a SCHED section, a wait for
the BKL on no section that has it. Each is a guard of some action plus what
earlier frames promise; none can be dropped, since a frame comes back to the
top only when all above it have returned.

`CountTells` turns the sum into digits: a good stack has fewer than `Radix` frames
of a level, so each level of the count is the number of its frames and
`critical_leave()` finds zero exactly when the last section closes. There is one
lemma per action, by what it does to the last frame (push, pop or change it).

* `CriticalAgrees`: `Spec => []CInv`; `TypeCorrect`: no level carries into another.
* `CountIsSectionsHolds`, `MaskedWhereNeededHolds`, `PreemptNotLostHolds`.
* `NoWaitCycleHolds`: the holder of `rq.lock` waits for nobody, the holder of the BKL
  for `rq.lock` at most, and the holder of a spinlock for one of these two at most
  (`WaitOrder`). So if every CPU of a set waited for one of the set, none of them
  could hold `rq.lock`, so none the BKL, so none the spinlock: nobody is left to
  wait for.

### Threads (`ThreadsProofs`)

For all programs that `ProgramAssumption` admits, any number of threads, mutexes,
conditions, barriers and read-write locks.

`TInv` says of every thread (`Fine`) that it is in a call that has the place it is
at (`PlacedAt`), that from the preparation to the cleanup of a wait its link is on
the queue of that wait (`LinkedAt`), that in `cond_wait()` it has given its mutex
back (`GivenBack`), and that if it is marked waiting it has a reason (`Reason`):
the mutex is held, the lock cannot be entered, the thread it joins has not exited
and knows its joiner, the child has no status. A reason is taken away only by a
step that wakes a whole queue or the one joiner; the link shows that the sleeper
is among those woken. That is why the place of the link, and that it is there once
(`Single`), belong to the invariant. `Counted`, `RwCounted` and `Ended` (what is
deleted has exited, what is parked is not freed) are needed for the types.

Most steps of a call only move one thread, and `SyncKeeps` says what such a step
has to leave alone; deletions go through `DeleteKeeps`.

* `ThreadsInv`: `Spec => []TInv`; `TypeCorrect`; `NoLostSleeperHolds`.
* `FreedIsAbandoned`: from `PInv`, which adds that no wakeup reaches the pool
  (`Pooled`) and that nobody else reclaims what is joined (`Joined`). It needs
  nothing of the state in which the task exits.
* `OneLinkHolds`, `FreedWhenUnusedHolds`: `Spec /\ []Undisturbed => ...`.
  `thread_terminate()` undoes no wait, so a thread terminated inside one is freed
  with its link on the queue, and the thread created next in the same memory has
  it twice. `Undisturbed` asks of the program that the task exits only when its
  threads are at rest; the run `threads` checks that its programs do so, also
  those that exit while threads still run or join each other.

### Mutexes, barriers, deletion (`SyncProofs`)

For the same programs. The invariants count calls: `Balance(s, n, m)` is how often
the first `n` calls of the program `s` have locked `m` and not unlocked it.

* `HolderHasLockedHolds`: from `MutexInv` and `RwInv`. `MutexInv` says that the
  holder and the count of a mutex are what the calls of each thread add up to, the
  call it is in the middle of included (a lock that has got the mutex and not
  cleaned up, a `cond_wait()` that has given it back), and that a thread at its end
  has none. It is `Disciplined` that makes a refused lock take its unlock along.
  `RwInv` says who is inside a read-write lock and in which mode.
* `BoostCoversSleepersHolds`: from `BoostInv`, over `MutexInv`: nobody is below its
  base priority, who is above holds a mutex, and who is about to sleep for a mutex,
  or does, has made its holder inherit. The last is needed from the evaluation of
  the condition on, before the sleep. `schedee_priority_reverse()` knows the
  base and nothing else, so a holder that gives another mutex back, by an unlock
  or a condition wait, loses its boost (`UnlockedInside`); and what a sleeper
  inherits while it sleeps is not passed to the holder it waits for, so
  the bound is the base priority of the sleeper.
* `BarrierTogetherHolds`: from `BarrierInv`, which knows the number of the round:
  all users of a barrier have entered it `n` times, those asleep there once more,
  and `current_count` is their number. `barrier_wait()` sleeps once and does not
  look again, so the proof needs that nothing but the last party wakes a sleeper:
  a stale `joining` is the only other way to one, and `OnceInv` says that a joiner
  waits for the thread that points at it. `Meeting` is what the property asks
  of a program: as many threads use a barrier as it counts, and none is created
  or launched twice.
* `NoLeakHolds`, for every program and with no proviso: from `LeakInv`, which says
  that what is deleted is parked or freed and that whoever comes last of exit,
  detach and join deletes. The property speaks of threads that only the main thread
  creates (`OfMain`) and that it has given up by a call it has behind it
  (`GivenUp`), or of all of these once the task has exited.

The first three are stated as `Spec /\ []Undisturbed => ...`, for the reason given
above: a thread terminated inside a wait or with a mutex in its hands takes it
along.

### Induction

`LeastNumber` has the two facts these inductions rest on: a set of numbers that
is not empty has a least member, and a set that has 0 and is closed under
successor has all of `Nat`. They are stated of sets, because the provers cannot
instantiate the library's principles, whose parameter is an operator.

### Only model-checked

Liveness (`SleepReturns`, `LockIsReleased`, `SwitchHappens`, `Finishes`) is out of
the prover's reach, as is ENABLED. `Undisturbed` is a demand on programs, false of
some, and so a hypothesis of theorems and no theorem; TLC checks it of the
programs of the run. All other invariants and action properties of the passing
runs, and both refinements, are proved. What the runs that expect a violation
state is false, and the theorems name the proviso under which it holds.

## 5. What is not modelled

The components listed in `PROJECT.json` as `not_modelled`, with the reasons.
Weak memory: `sched_wait_prepare()` has no barrier ("TODO SMP barrier?"), which a
sequentially consistent model cannot judge. Lost IPIs: the comment on
`resched_sent` says a tick clears it, which the code does not do, but the model
loses none. Uniprocessor builds are the case of one CPU.

Within the modelled components: signals and the -EINTR they end waits with (a
barrier waiter would pass early, a joiner leave `joining` behind); an exit of the
task by a thread other than the main one; two collectors of one task, which
`waitpid()` does not exclude; `lthread_join()`, which sets `joining` after it has
looked, without a lock; wakeups of a given number of waiters; the memory of a task
that is collected while a thread of it still runs on another CPU.

The repository has some 650 thousand lines; the core modelled here is about five
and a half thousand, and the map covers half of it. The rest is mostly drivers,
board support, network protocols, file systems, commands, third-party projects
and data compiled into headers (neural network weights). What of it holds state
that processes share (the VFS, TCP, the block cache) would each be a project of
the size of this one, with little in common with the scheduler but its wait
queues.

## 6. Plan

What is left is in the model: `lthread_join()`, signals in the wait loops, an exit
of the task by any of its threads; then the abstract mutex and semaphore that the
code of `kernel/thread/sync` should implement, once the findings about semaphores
are settled.
