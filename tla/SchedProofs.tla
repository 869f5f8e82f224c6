---------------------------- MODULE SchedProofs ----------------------------
(***************************************************************************)
(* Proofs about Sched for any number of CPUs, threads and lightweight      *)
(* threads.                                                                *)
(***************************************************************************)
EXTENDS Sched, TLAPS

\* What the pc of a CPU says about its frame.
FrameOK ==
    \A c \in CPUs :
        /\ InSchedule(c) => prev[c] \in Threads
        /\ At(c) = "pick" => cur[c] = prev[c]
        /\ At(c) \in {"run", "pick", "switch"} \cup Switched
               => cur[c] \in Threads
        /\ At(c) \in {"ltproc", "lt", "ltdone"} => cur[c] \in LThreads
        /\ pc[c] \in WakePcs => tgt[c] \in Schedees

Typed == TypeOK /\ FrameOK

\* A waker owns its target's lock.
WakerLocks == \A c \in CPUs : pc[c] \in WakePcs => slock[tgt[c]] = c

\* Some CPU is inside sched_wakeup(s) and found s unfinished.
Waker(s) ==
    \E d \in CPUs : /\ pc[d] \in {"wwait", "wready", "winact", "wactive"}
                    /\ tgt[d] = s

\* thread_terminate() has not been applied to s, as far as flags can tell.
Sound(s) == ~finished[s] \/ Waker(s)

\* Where prev may already be filed although its CPU still runs on its stack.
Leaving == {"ltproc", "lt", "ltdone", "repick", "switch"}

\* Where a CPU runs the thread it calls current.
Settled == {"run", "pick"} \cup Switched

StackNotQueued == \A c \in CPUs : Stack(c) \in rq => At(c) \in Leaving

\* What __schedule() has chosen is off the queue and off every stack.
ChosenIsFree ==
    \A c \in CPUs : pc[c] \in {"switch", "ltproc"} =>
        /\ cur[c] \notin rq
        /\ \A d \in CPUs : Stack(d) # cur[c]

\* What __schedule() has switched away from is off every stack.
LeftIsFree ==
    \A c \in CPUs : pc[c] \in {"deact", "deact2", "release"} =>
        \A d \in CPUs : Stack(d) # prev[c]

StackIsActive ==
    \A c \in CPUs : Sound(Stack(c)) \/ ready[Stack(c)] => active[Stack(c)]

QueuedIsReady == \A s \in rq : Sound(s) => ready[s]

ChosenIsReady ==
    \A c \in CPUs :
        pc[c] \in {"switch", "ltproc"} /\ Sound(cur[c]) => ready[cur[c]]

CurrentIsReady ==
    \A c \in CPUs : At(c) \in Settled /\ Sound(cur[c]) => ready[cur[c]]

\* A prev that was filed stays ready while a lightweight thread runs.
PrevIsReady ==
    \A c \in CPUs :
        /\ At(c) \in {"ltproc", "lt", "ltdone", "repick"}
        /\ Sound(prev[c])
        /\ preempt[c] \/ waiting[prev[c]] = "no"
        => ready[prev[c]]

WakerSawUnready ==
    \A c \in CPUs : pc[c] \in {"winact", "wactive"} => ~ready[tgt[c]]

\* The locks, and what a waker may conclude while it holds one.
LockInv == WakerLocks /\ BklPromise /\ WakerSawUnready

\* Who is on whose stack.
StackInv ==
    /\ OneCpuPerThread
    /\ StackNotQueued
    /\ ChosenIsFree
    /\ LeftIsFree
    /\ ReleasedIsOff

\* What the flags of a schedee say about where it is.
FlagInv ==
    /\ StackIsActive
    /\ QueuedIsReady
    /\ ChosenIsReady
    /\ CurrentIsReady
    /\ PrevIsReady

\* The inductive invariant behind BklPromise, OneCpuPerThread, QueuedIsOff and
\* ReleasedIsOff.
IInv == Typed /\ LockInv /\ StackInv /\ FlagInv

-----------------------------------------------------------------------------
(* Types.                                                                    *)

USE DEF SchedulePcs, WakePcs, IrqOn, Switched
USE DEF flagVars, prioVars, queueVars, pokeVars, threadVars, frameVars, wakeVars

\* sched_check_preempt() leaves the reschedule requests well typed.
LEMMA PokeTyped ==
  ASSUME TypeOK, NEW c \in CPUs, NEW s, NEW n, NEW p, CheckPreempt(c, s, n, p)
  PROVE  /\ yieldReq' \in BOOLEAN
         /\ pending' \in [CPUs -> BOOLEAN]
         /\ ipi' \in [CPUs -> BOOLEAN]
         /\ sent' \in [CPUs -> BOOLEAN]
  <1>1. yieldReq' \in BOOLEAN BY DEF CheckPreempt, TypeOK
  <1>2. pending' \in [CPUs -> BOOLEAN]
    <2> DEFINE taken == p[cur[c]] <= p[s]
    <2>1. pending' = [pending EXCEPT ![c] = @ \/ taken] BY DEF CheckPreempt
    <2>2. \A d \in CPUs : pending'[d] \in BOOLEAN BY <2>1 DEF TypeOK
    <2>3. pending \in [CPUs -> BOOLEAN] BY DEF TypeOK
    <2> HIDE DEF taken
    <2> QED BY <2>1, <2>3
  <1>3. ipi' \in [CPUs -> BOOLEAN] BY DEF CheckPreempt, TypeOK
  <1>4. sent' \in [CPUs -> BOOLEAN] BY DEF CheckPreempt, TypeOK
  <1> QED BY <1>1, <1>2, <1>3, <1>4

\* The priority setters stay within the levels.
LEMMA PrioTyped ==
  ASSUME TypeOK, NEW s \in Schedees, NEW new \in Levels, NEW bp \in NewPriorities(s, new)
  PROVE  bp[1] \in Levels /\ bp[2] \in Levels
  BY DEF TypeOK, NewPriorities, SetPriority, InheritPriority, ReversePriority

\* sched_ticker_update() ticks and interrupts CPUs only.
LEMMA TickTyped ==
  ASSUME TypeOK, NEW c \in CPUs, TickerUpdate(c)
  PROVE  ticker' \subseteq CPUs /\ ipi' \in [CPUs -> BOOLEAN]
  <1>1. ticker' \subseteq CPUs BY DEF TickerUpdate, TickerAdd, TickerDel, TypeOK
  <1>2. ipi' \in [CPUs -> BOOLEAN]
    <2>1. CASE UNCHANGED ipi BY <2>1 DEF TypeOK
    <2>2. CASE \E s \in GetNextAnywhere(rq, runqPrio) :
                    ipi' = [d \in CPUs |->
                              \/ ipi[d]
                              \/ /\ ticker \cap Affinity[s] = {}
                                 /\ d \in Affinity[s]
                                 /\ active[Idle[d]]]
      BY <2>2, IdleAssumption DEF TypeOK, Schedees
    <2> QED BY <2>1, <2>2 DEF TickerUpdate
  <1> QED BY <1>1, <1>2

\* The initial state is well typed.
LEMMA TInit == Init => Typed
  <1> SUFFICES ASSUME Init PROVE Typed OBVIOUS
  <1>1. /\ ready \in [Schedees -> BOOLEAN]
        /\ active \in [Schedees -> BOOLEAN]
        /\ released \in [Schedees -> BOOLEAN]
    <2> DEFINE f == [s \in Schedees |-> s \in Idles]
               g == [s \in Schedees |-> s \notin Idles]
    <2>1. f \in [Schedees -> BOOLEAN] /\ g \in [Schedees -> BOOLEAN]
      OBVIOUS
    <2>2. ready = f /\ active = f /\ released = g BY DEF Init
    <2> QED BY <2>1, <2>2
  <1>2. tpc \in [Threads -> {"fresh", "work", "check", "cleanup", "sleep",
                            "resumed", "exit", "exiting", "parting", "dead"}]
    BY Zenon DEF Init
  <1>3. waiting \in [Schedees -> {"no", "yes", "waking"}] BY Zenon DEF Init
  <1>4. TypeOK
    <2>1. cur \in [CPUs -> Schedees] BY IdleAssumption DEF Init, Schedees
    <2>2. /\ base \in [Schedees -> Levels]
          /\ prio \in [Schedees -> Levels]
          /\ runqPrio \in [Schedees -> Levels]
      BY PrioAssumption DEF Init
    <2>3. /\ finished \in [Schedees -> BOOLEAN]
          /\ slock \in [Schedees -> CPUs \cup {None}]
          /\ bkl \in CPUs \cup {None}
      BY DEF Init
    <2>4. rq \subseteq Schedees /\ ticker \subseteq CPUs /\ yieldReq \in BOOLEAN
      BY Zenon DEF Init
    <2>5. nr \in Int BY DEF Init
    <2>6. /\ held \in [Threads -> BOOLEAN]
          /\ event \in [Schedees -> BOOLEAN]
          /\ pc \in [CPUs -> {"run"} \cup SchedulePcs \cup WakePcs]
          /\ prev \in [CPUs -> Threads \cup {None}]
          /\ preempt \in [CPUs -> BOOLEAN]
          /\ yielding \in [CPUs -> BOOLEAN]
          /\ tgt \in [CPUs -> Schedees \cup {None}]
          /\ ret \in [CPUs -> IrqOn]
          /\ pending \in [CPUs -> BOOLEAN]
          /\ ipi \in [CPUs -> BOOLEAN]
          /\ sent \in [CPUs -> BOOLEAN]
      BY DEF Init
    <2> QED BY <1>1, <1>2, <1>3, <2>1, <2>2, <2>3, <2>4, <2>5, <2>6 DEF TypeOK
  <1>5. FrameOK
    BY IdleAssumption DEF Init, FrameOK, At, InSchedule
  <1> QED BY <1>4, <1>5 DEF Typed

\* sched_lock() keeps the state well typed and the frames in order.
LEMMA TypedSchedLock ==
  ASSUME Typed, NEW c \in CPUs, SchedLock(c)
  PROVE  Typed'
  BY DEF Typed, TypeOK, FrameOK, At, InSchedule, SchedLock, Works,
      RunsWorker, Workers

\* So does sched_unlock().
LEMMA TypedSchedUnlock ==
  ASSUME Typed, NEW c \in CPUs, SchedUnlock(c)
  PROVE  Typed'
  BY DEF Typed, TypeOK, FrameOK, At, InSchedule, SchedUnlock, Works,
      RunsWorker, Workers

\* So does sched_wait_prepare().
LEMMA TypedWaitPrepare ==
  ASSUME Typed, NEW c \in CPUs, WaitPrepare(c)
  PROVE  Typed'
  BY DEF Typed, TypeOK, FrameOK, At, InSchedule, WaitPrepare, RunsWorker,
      Workers

\* So does the test of the condition in SCHED_WAIT.
LEMMA TypedWaitCheck ==
  ASSUME Typed, NEW c \in CPUs, WaitCheck(c)
  PROVE  Typed'
  BY DEF Typed, TypeOK, FrameOK, At, InSchedule, WaitCheck, RunsWorker,
      Workers

\* So does sched_wait_cleanup().
LEMMA TypedWaitCleanup ==
  ASSUME Typed, NEW c \in CPUs, WaitCleanup(c)
  PROVE  Typed'
  BY DEF Typed, TypeOK, FrameOK, At, InSchedule, WaitCleanup, RunsWorker,
      Workers

\* So does thread_yield().
LEMMA TypedThreadYield ==
  ASSUME Typed, NEW c \in CPUs, ThreadYield(c)
  PROVE  Typed'
  BY DEF Typed, TypeOK, FrameOK, At, InSchedule, ThreadYield, Works,
      RunsWorker, Workers, PostSwitch

\* So does sched_finished() in thread_exit().
LEMMA TypedExitFinish ==
  ASSUME Typed, NEW c \in CPUs, ExitFinish(c)
  PROVE  Typed'
  BY DEF Typed, TypeOK, FrameOK, At, InSchedule, ExitFinish, Works,
      RunsWorker, Workers

\* So does marking the exiting thread as waiting.
LEMMA TypedExitWait ==
  ASSUME Typed, NEW c \in CPUs, ExitWait(c)
  PROVE  Typed'
  BY DEF Typed, TypeOK, FrameOK, At, InSchedule, ExitWait, RunsWorker,
      Workers

\* So does thread_exit() starting to wake the joining thread.
LEMMA TypedExitWakeJoining ==
  ASSUME Typed, NEW c \in CPUs, NEW s \in Schedees, ExitWakeJoining(c, s)
  PROVE  Typed'
  BY DEF Typed, TypeOK, FrameOK, At, InSchedule, ExitWakeJoining, RunsWorker,
      Workers, LockSchedee, Schedees

\* So does thread_terminate().
LEMMA TypedTerminate ==
  ASSUME Typed, NEW c \in CPUs, NEW s \in Schedees, Terminate(c, s)
  PROVE  Typed'
  BY DEF Typed, TypeOK, FrameOK, At, InSchedule, Terminate, Works,
      RunsWorker, Workers, InRq

\* So does a thread entering sched_wakeup().
LEMMA TypedThreadWakeup ==
  ASSUME Typed, NEW c \in CPUs, NEW s \in Schedees, ThreadWakeup(c, s)
  PROVE  Typed'
  BY DEF Typed, TypeOK, FrameOK, At, InSchedule, ThreadWakeup, Works,
      RunsWorker, Workers, LockSchedee

\* So does a lightweight thread entering sched_wakeup().
LEMMA TypedLThreadWakeup ==
  ASSUME Typed, NEW c \in CPUs, NEW s \in Schedees, LThreadWakeup(c, s)
  PROVE  Typed'
  BY DEF Typed, TypeOK, FrameOK, At, InSchedule, LThreadWakeup, LockSchedee

\* So does an interrupt handler entering sched_wakeup().
LEMMA TypedIrqWakeup ==
  ASSUME Typed, NEW c \in CPUs, NEW s \in Schedees, NEW e \in BOOLEAN,
      IrqWakeup(c, s, e)
  PROVE  Typed'
  BY DEF Typed, TypeOK, FrameOK, At, InSchedule, IrqWakeup, IrqEnter,
      LockSchedee

\* So does sched_signal(), with or without a wakeup.
LEMMA TypedSignal ==
  ASSUME Typed, NEW c \in CPUs, NEW s \in Schedees, Signal(c, s) PROVE Typed'
  <1>1. TypeOK'
    <2>1. CASE ready[s]
      <3>1. yieldReq' \in BOOLEAN /\ pending' \in [CPUs -> BOOLEAN]
        BY <2>1, Zenon DEF Typed, TypeOK, Signal, PostSwitch
      <3> QED BY <2>1, <3>1 DEF Typed, TypeOK, Signal
    <2>2. CASE ~ready[s]
      <3>1. slock' \in [Schedees -> CPUs \cup {None}]
        BY <2>2 DEF Typed, TypeOK, Signal, LockSchedee
      <3>2. tgt' \in [CPUs -> Schedees \cup {None}]
        BY <2>2 DEF Typed, TypeOK, Signal, LockSchedee
      <3>3. ret' \in [CPUs -> IrqOn]
        BY <2>2 DEF Typed, TypeOK, Signal, LockSchedee, Works, RunsWorker
      <3>4. pc' \in [CPUs -> {"run"} \cup SchedulePcs \cup WakePcs]
        BY <2>2 DEF Typed, TypeOK, Signal, LockSchedee
      <3> QED BY <2>2, <3>1, <3>2, <3>3, <3>4 DEF Typed, TypeOK, Signal
    <2> QED BY <2>1, <2>2
  <1>2. FrameOK'
    BY DEF Typed, TypeOK, FrameOK, At, InSchedule, Signal, LockSchedee, Works,
        RunsWorker, PostSwitch
  <1> QED BY <1>1, <1>2 DEF Typed

\* So does the test of finished in __sched_wakeup().
LEMMA TypedWakeFinished ==
  ASSUME Typed, NEW c \in CPUs, WakeFinished(c)
  PROVE  Typed'
  BY DEF Typed, TypeOK, FrameOK, At, InSchedule, WakeFinished, Goto

\* So does the test of waiting in __sched_wakeup().
LEMMA TypedWakeWaiting ==
  ASSUME Typed, NEW c \in CPUs, WakeWaiting(c)
  PROVE  Typed'
  BY DEF Typed, TypeOK, FrameOK, At, InSchedule, WakeWaiting, Goto

\* So does __sched_wakeup_ready().
LEMMA TypedWakeReady ==
  ASSUME Typed, NEW c \in CPUs, WakeReady(c)
  PROVE  Typed'
  BY DEF Typed, TypeOK, FrameOK, At, InSchedule, WakeReady, Goto

\* So does setting TW_SMP_WAKING.
LEMMA TypedWakeInactive ==
  ASSUME Typed, NEW c \in CPUs, WakeInactive(c)
  PROVE  Typed'
  BY DEF Typed, TypeOK, FrameOK, At, InSchedule, WakeInactive, Goto

\* So does leaving sched_wakeup().
LEMMA TypedWakeUnlock ==
  ASSUME Typed, NEW c \in CPUs, WakeUnlock(c)
  PROVE  Typed'
  BY DEF Typed, TypeOK, FrameOK, At, InSchedule, WakeUnlock, Goto, IrqExit

\* So does the rescheduling interrupt.
LEMMA TypedIrqResched ==
  ASSUME Typed, NEW c \in CPUs, IrqResched(c)
  PROVE  Typed'
  BY DEF Typed, TypeOK, FrameOK, At, InSchedule, IrqResched, IrqEnter

\* So does sched_tick().
LEMMA TypedIrqTick ==
  ASSUME Typed, NEW c \in CPUs, IrqTick(c)
  PROVE  Typed'
  BY DEF Typed, TypeOK, FrameOK, At, InSchedule, IrqTick, IrqEnter,
      PostSwitch

\* So does entering __schedule() through sched_preempt(): prev is a thread.
LEMMA TypedPreempt ==
  ASSUME Typed, NEW c \in CPUs, Preempt(c)
  PROVE  Typed'
  BY DEF Typed, TypeOK, FrameOK, At, InSchedule, Preempt, EnterSchedule, Goto

\* So does entering __schedule() through schedule().
LEMMA TypedSchedule ==
  ASSUME Typed, NEW c \in CPUs, Schedule(c)
  PROVE  Typed'
  BY DEF Typed, TypeOK, FrameOK, At, InSchedule, Schedule, EnterSchedule,
      Goto, RunsWorker, Workers

\* So does lthread_do_process() before run().
LEMMA TypedLThreadStart ==
  ASSUME Typed, NEW c \in CPUs, LThreadStart(c)
  PROVE  Typed'
  BY DEF Typed, TypeOK, FrameOK, At, InSchedule, LThreadStart, Goto

\* So does run(), looking at its condition and returning.
LEMMA TypedLThreadReturn ==
  ASSUME Typed, NEW c \in CPUs, LThreadLook(c) \/ LThreadReturn(c)
  PROVE  Typed'
  <1>1. CASE LThreadLook(c)
    BY <1>1 DEF Typed, TypeOK, FrameOK, At, InSchedule, LThreadLook, Goto
  <1>2. CASE LThreadReturn(c)
    BY <1>2 DEF Typed, TypeOK, FrameOK, At, InSchedule, LThreadReturn, Goto
  <1> QED BY <1>1, <1>2

\* So does sched_start_switch().
LEMMA TypedActivate ==
  ASSUME Typed, NEW c \in CPUs, Activate(c)
  PROVE  Typed'
  BY DEF Typed, TypeOK, FrameOK, At, InSchedule, Activate, Goto

\* So does clearing active in __sched_deactivate().
LEMMA TypedDeactivate ==
  ASSUME Typed, NEW c \in CPUs, Deactivate(c)
  PROVE  Typed'
  <1>1. active' \in [Schedees -> BOOLEAN] BY Zenon DEF Typed, TypeOK, Deactivate
  <1> QED BY <1>1 DEF Typed, TypeOK, FrameOK, At, InSchedule, Deactivate, Goto

\* So does setting released.
LEMMA TypedRelease ==
  ASSUME Typed, NEW c \in CPUs, Release(c)
  PROVE  Typed'
  <1>1. released' \in [Schedees -> BOOLEAN] BY Zenon DEF Typed, TypeOK, Release
  <1> QED BY <1>1 DEF Typed, TypeOK, FrameOK, At, InSchedule, Release, Goto

\* So does the end of __schedule().
LEMMA TypedLeave ==
  ASSUME Typed, NEW c \in CPUs, Leave(c) PROVE Typed'
  <1>1. ticker' \subseteq CPUs /\ ipi' \in [CPUs -> BOOLEAN]
    BY TickTyped DEF Leave, AckSwitched, TickerAdd, Typed, TypeOK
  <1>2. TypeOK' BY <1>1 DEF Typed, TypeOK, FrameOK, At, InSchedule, Leave,
        AckSwitched, Goto
  <1>3. FrameOK' BY DEF Typed, TypeOK, FrameOK, At, InSchedule, Leave,
        AckSwitched, Goto
  <1> QED BY <1>2, <1>3 DEF Typed

\* So does the end of __sched_wakeup_smp_inactive().
LEMMA TypedWakeActive ==
  ASSUME Typed, NEW c \in CPUs, WakeActive(c) PROVE Typed'
  <1>1. TypeOK'
    <2>1. CASE WakeupWaiting(c, tgt[c])
      <3>1. /\ yieldReq' \in BOOLEAN
            /\ pending' \in [CPUs -> BOOLEAN]
            /\ ipi' \in [CPUs -> BOOLEAN]
            /\ sent' \in [CPUs -> BOOLEAN]
        BY <2>1, PokeTyped DEF WakeupWaiting, Typed
      <3>2. tgt[c] \in Schedees BY DEF WakeActive, Typed, FrameOK
      <3>3. /\ ready' \in [Schedees -> BOOLEAN]
            /\ waiting' \in [Schedees -> {"no", "yes", "waking"}]
            /\ runqPrio' \in [Schedees -> Levels]
            /\ rq' \subseteq Schedees
            /\ nr' \in Int
        BY <2>1, <3>2 DEF WakeupWaiting, Typed, TypeOK
      <3> QED BY <3>1, <3>3 DEF WakeActive, Goto, Typed, TypeOK
    <2>2. CASE active[tgt[c]]
      BY <2>2 DEF Typed, TypeOK, WakeActive, Goto
    <2> QED BY <2>1, <2>2 DEF WakeActive
  <1>2. FrameOK' BY DEF Typed, TypeOK, FrameOK, At, InSchedule, WakeActive, Goto
  <1> QED BY <1>1, <1>2 DEF Typed

\* So does the deferred wakeup in __sched_deactivate().
LEMMA TypedDeferredWakeup ==
  ASSUME Typed, NEW c \in CPUs, DeferredWakeup(c) PROVE Typed'
  <1>1. TypeOK'
    <2>1. CASE WakeupWaiting(c, prev[c])
      <3>1. /\ yieldReq' \in BOOLEAN
            /\ pending' \in [CPUs -> BOOLEAN]
            /\ ipi' \in [CPUs -> BOOLEAN]
            /\ sent' \in [CPUs -> BOOLEAN]
        BY <2>1, PokeTyped DEF WakeupWaiting, Typed
      <3>2. prev[c] \in Schedees
        BY DEF DeferredWakeup, Typed, FrameOK, At, InSchedule, Schedees
      <3>3. /\ ready' \in [Schedees -> BOOLEAN]
            /\ waiting' \in [Schedees -> {"no", "yes", "waking"}]
            /\ runqPrio' \in [Schedees -> Levels]
            /\ rq' \subseteq Schedees
            /\ nr' \in Int
        BY <2>1, <3>2 DEF WakeupWaiting, Typed, TypeOK
      <3> QED BY <3>1, <3>3 DEF DeferredWakeup, Goto, Typed, TypeOK
    <2>2. CASE UNCHANGED <<ready, waiting, queueVars, pokeVars>>
      BY <2>2 DEF Typed, TypeOK, DeferredWakeup, Goto
    <2> QED BY <2>1, <2>2 DEF DeferredWakeup
  <1>2. FrameOK' BY DEF Typed, TypeOK, FrameOK, At, InSchedule, DeferredWakeup, Goto
  <1> QED BY <1>1, <1>2 DEF Typed

\* So does sched_change_priority().
LEMMA TypedChangePriority ==
  ASSUME Typed, NEW c \in CPUs, NEW s \in Schedees, NEW new \in Levels,
         ChangePriority(c, s, new)
  PROVE  Typed'
  <1>1. TypeOK'
    <2>1. PICK bp \in NewPriorities(s, new) :
            LET p == [prio EXCEPT ![s] = bp[2]]
            IN  /\ base' = [base EXCEPT ![s] = bp[1]]
                /\ prio' = p
                /\ rq' = IF InRq(s) THEN rq \cup {s} ELSE rq
                /\ runqPrio' = IF InRq(s) THEN [runqPrio EXCEPT ![s] = p[s]]
                                          ELSE runqPrio
                /\ CheckPreempt(c, s, nr, p)
      BY DEF ChangePriority
    <2>2. bp[1] \in Levels /\ bp[2] \in Levels BY PrioTyped DEF Typed
    <2>3. /\ yieldReq' \in BOOLEAN
          /\ pending' \in [CPUs -> BOOLEAN]
          /\ ipi' \in [CPUs -> BOOLEAN]
          /\ sent' \in [CPUs -> BOOLEAN]
      BY <2>1, PokeTyped DEF Typed
    <2> QED BY <2>1, <2>2, <2>3 DEF ChangePriority, Typed, TypeOK
  <1>2. FrameOK' BY DEF Typed, FrameOK, At, InSchedule, ChangePriority
  <1> QED BY <1>1, <1>2 DEF Typed

\* What one turn of the loop of __schedule() does to the queue and to the
\* CPU: it takes next, which is queued or is a prev that stays.
LEMMA PickEffect ==
  ASSUME Typed, NEW c \in CPUs, Pick(c)
  PROVE  \E next \in Schedees :
            LET p == prev[c]
                first == pc[c] = "pick"
                files == first /\ ~GoesToSleep(c)
                q == IF files THEN rq \cup {p} ELSE rq
            IN  /\ rq' = q \ {next}
                /\ \/ next \in q
                   \/ next = p /\ ~GoesToSleep(c)
                /\ cur' = [cur EXCEPT ![c] = next]
                /\ pc' = [pc EXCEPT ![c] =
                             IF next \in LThreads THEN "ltproc"
                             ELSE IF next = p THEN "leave" ELSE "switch"]
                /\ ready' = IF first /\ GoesToSleep(c)
                            THEN [ready EXCEPT ![p] = FALSE] ELSE ready
  <1> DEFINE p == prev[c]
             first == pc[c] = "pick"
             files == first /\ ~GoesToSleep(c)
             q == IF files THEN rq \cup {p} ELSE rq
             level == IF files THEN [runqPrio EXCEPT ![p] = prio[p]] ELSE runqPrio
             yield == IF first THEN yieldReq ELSE yielding[c]
             peer(head) == head \in Threads /\ prio[head] = prio[p]
             stays(head) == peer(head) /\ ~yield /\ ~GoesToSleep(c)
             next(head) == IF stays(head) THEN p ELSE head
  <1>1. p \in Threads BY DEF Pick, Typed, FrameOK, At, InSchedule
  <1>2. q \subseteq Schedees BY <1>1 DEF Typed, TypeOK, Schedees
  <1>3. PICK head \in GetNext(c, q, level) :
              /\ rq' = RunqTake(q, next(head))
              /\ cur' = [cur EXCEPT ![c] = next(head)]
              /\ Goto(c, IF next(head) \in LThreads THEN "ltproc"
                             ELSE IF next(head) = p THEN "leave" ELSE "switch")
    BY DEF Pick
  <1>4. head \in q BY DEF GetNext
  <1>5. next(head) \in Schedees BY <1>1, <1>2, <1>4 DEF Schedees
  <1>6. next(head) \in q \/ (next(head) = p /\ ~GoesToSleep(c)) BY <1>4
  <1>7. ready' = IF first /\ GoesToSleep(c)
                 THEN [ready EXCEPT ![p] = FALSE] ELSE ready
    BY DEF Pick
  <1> HIDE DEF next, q
  <1> QED BY <1>3, <1>5, <1>6, <1>7 DEF RunqTake, Goto, q

\* So does one turn of the loop of __schedule().
LEMMA TypedPick ==
  ASSUME Typed, NEW c \in CPUs, Pick(c)
  PROVE  Typed'
  <1> DEFINE p == prev[c]
             files == pc[c] = "pick" /\ ~GoesToSleep(c)
             yield == IF pc[c] = "pick" THEN yieldReq ELSE yielding[c]
  <1>1. PICK next \in Schedees :
            LET q == IF files THEN rq \cup {p} ELSE rq
            IN  /\ rq' = q \ {next}
                /\ cur' = [cur EXCEPT ![c] = next]
                /\ pc' = [pc EXCEPT ![c] =
                             IF next \in LThreads THEN "ltproc"
                             ELSE IF next = p THEN "leave" ELSE "switch"]
    BY PickEffect
  <1>2. p \in Threads BY DEF Pick, Typed, FrameOK, At, InSchedule
  <1>3. yieldReq' \in BOOLEAN /\ yielding' \in [CPUs -> BOOLEAN]
    BY DEF Pick, Typed, TypeOK
  <1>4. /\ runqPrio' \in [Schedees -> Levels]
        /\ ready' \in [Schedees -> BOOLEAN]
        /\ nr' \in Int
    BY <1>2 DEF Pick, Typed, TypeOK, Schedees
  <1>5. /\ rq' \subseteq Schedees
        /\ cur' \in [CPUs -> Schedees]
        /\ pc' \in [CPUs -> {"run"} \cup SchedulePcs \cup WakePcs]
    BY <1>1, <1>2 DEF Typed, TypeOK, Schedees
  <1>6. TypeOK' BY <1>3, <1>4, <1>5 DEF Pick, Typed, TypeOK
  <1>7. FrameOK'
    BY <1>1, <1>2 DEF Pick, Typed, TypeOK, FrameOK, At, InSchedule, Schedees
  <1> QED BY <1>6, <1>7 DEF Typed

\* Every step of the scheduler does.
LEMMA TypedNext ==
  ASSUME Typed, [Next]_vars
  PROVE  Typed'
  <1>1. /\ Workers \subseteq Schedees /\ Terminable \subseteq Schedees
        /\ Tunable \subseteq Schedees
    BY OptionAssumption DEF Workers, Schedees
  <1>2. ASSUME NEW c \in CPUs, ThreadStep(c) PROVE Typed'
    BY <1>1, <1>2, TypedSchedLock, TypedSchedUnlock, TypedWaitPrepare,
        TypedWaitCheck, TypedWaitCleanup, TypedThreadYield, TypedExitFinish,
        TypedExitWait, TypedExitWakeJoining, TypedTerminate,
        TypedChangePriority DEF ThreadStep
  <1>3. ASSUME NEW c \in CPUs, WakeStart(c) PROVE Typed'
    BY <1>1, <1>3, TypedThreadWakeup, TypedLThreadWakeup, TypedIrqWakeup,
        TypedSignal DEF WakeStart
  <1>4. ASSUME NEW c \in CPUs, WakeStep(c) PROVE Typed'
    BY <1>4, TypedWakeFinished, TypedWakeWaiting, TypedWakeReady,
        TypedWakeInactive, TypedWakeActive, TypedWakeUnlock DEF WakeStep
  <1>5. ASSUME NEW c \in CPUs, ScheduleStep(c) PROVE Typed'
    BY <1>5, TypedPick, TypedLThreadStart, TypedLThreadReturn,
        TypedActivate, TypedDeactivate, TypedDeferredWakeup, TypedRelease,
        TypedLeave DEF ScheduleStep
  <1>6. CASE UNCHANGED vars
    BY <1>6 DEF vars, Typed, TypeOK, FrameOK, At, InSchedule
  <1> QED BY <1>2, <1>3, <1>4, <1>5, <1>6, TypedIrqResched, TypedIrqTick,
      TypedPreempt, TypedSchedule DEF Next

\* The state of the scheduler is well typed: whatever the number of CPUs and
\* threads, and however priorities are changed.
THEOREM TypeCorrect == Spec => []TypeOK
  <1>1. Typed /\ [Next]_vars => Typed' BY TypedNext
  <1>2. Typed => TypeOK BY DEF Typed
  <1> QED BY TInit, <1>1, <1>2, PTL DEF Spec


-----------------------------------------------------------------------------
(* Exclusion.                                                                *)

USE DEF Typed, TypeOK, FrameOK, Schedees, At, InSchedule, Stack

\* sched_lock(): the BKL promise holds for the taker because no other CPU
\* runs the same thread.
LEMMA SafeSchedLock ==
  ASSUME IInv, NEW c \in CPUs, SchedLock(c)
  PROVE  IInv'
  <1>1. Typed' BY TypedSchedLock DEF IInv
  <1>2. LockInv'
    <2>1. WakerLocks'
      BY <1>1, ThreadsAssumption DEF IInv, LockInv, WakerLocks, SchedLock,
          Works, RunsWorker, Workers
    <2>2. BklPromise'
      BY <1>1, ThreadsAssumption DEF IInv, LockInv, StackInv, BklPromise,
          OneCpuPerThread, SchedLock, Works, RunsWorker, Workers
    <2>3. WakerSawUnready'
      BY <1>1, ThreadsAssumption DEF IInv, LockInv, WakerSawUnready,
          SchedLock, Works, RunsWorker, Workers
    <2> QED BY <2>1, <2>2, <2>3 DEF LockInv
  <1>3. StackInv'
    BY <1>1 DEF IInv, StackInv, OneCpuPerThread, StackNotQueued,
        ChosenIsFree, LeftIsFree, ReleasedIsOff, Leaving, SchedLock, Works,
        RunsWorker, Workers
  <1>4. FlagInv'
    BY <1>1 DEF IInv, FlagInv, StackIsActive, QueuedIsReady, ChosenIsReady,
        CurrentIsReady, PrevIsReady, Sound, Waker, Settled, SchedLock, Works,
        RunsWorker, Workers
  <1> QED BY <1>1, <1>2, <1>3, <1>4 DEF IInv

\* sched_unlock(): only the owner of the BKL drops it.
LEMMA SafeSchedUnlock ==
  ASSUME IInv, NEW c \in CPUs, SchedUnlock(c)
  PROVE  IInv'
  <1>1. Typed' BY TypedSchedUnlock DEF IInv
  <1>2. LockInv'
    BY <1>1 DEF IInv, LockInv, WakerLocks, BklPromise, WakerSawUnready,
        SchedUnlock, Works, RunsWorker, Workers
  <1>3. StackInv'
    BY <1>1 DEF IInv, StackInv, OneCpuPerThread, StackNotQueued,
        ChosenIsFree, LeftIsFree, ReleasedIsOff, Leaving, SchedUnlock, Works,
        RunsWorker, Workers
  <1>4. FlagInv'
    BY <1>1 DEF IInv, FlagInv, StackIsActive, QueuedIsReady, ChosenIsReady,
        CurrentIsReady, PrevIsReady, Sound, Waker, Settled, SchedUnlock,
        Works, RunsWorker, Workers
  <1> QED BY <1>1, <1>2, <1>3, <1>4 DEF IInv

\* sched_wait_prepare(): the running thread marks only itself.
LEMMA SafeWaitPrepare ==
  ASSUME IInv, NEW c \in CPUs, WaitPrepare(c)
  PROVE  IInv'
  <1>1. Typed' BY TypedWaitPrepare DEF IInv
  <1>2. LockInv'
    BY <1>1 DEF IInv, LockInv, WakerLocks, BklPromise, WakerSawUnready,
        WaitPrepare, RunsWorker, Workers
  <1>3. StackInv'
    BY <1>1 DEF IInv, StackInv, OneCpuPerThread, StackNotQueued,
        ChosenIsFree, LeftIsFree, ReleasedIsOff, Leaving, WaitPrepare,
        RunsWorker, Workers
  <1>4. FlagInv'
    BY <1>1 DEF IInv, FlagInv, StackIsActive, QueuedIsReady, ChosenIsReady,
        CurrentIsReady, PrevIsReady, Sound, Waker, Settled, WaitPrepare,
        RunsWorker, Workers
  <1> QED BY <1>1, <1>2, <1>3, <1>4 DEF IInv

\* The test of the condition in SCHED_WAIT touches nothing shared.
LEMMA SafeWaitCheck ==
  ASSUME IInv, NEW c \in CPUs, WaitCheck(c)
  PROVE  IInv'
  <1>1. Typed' BY TypedWaitCheck DEF IInv
  <1>2. LockInv'
    BY <1>1 DEF IInv, LockInv, WakerLocks, BklPromise, WakerSawUnready,
        WaitCheck, RunsWorker, Workers
  <1>3. StackInv'
    BY <1>1 DEF IInv, StackInv, OneCpuPerThread, StackNotQueued,
        ChosenIsFree, LeftIsFree, ReleasedIsOff, Leaving, WaitCheck,
        RunsWorker, Workers
  <1>4. FlagInv'
    BY <1>1 DEF IInv, FlagInv, StackIsActive, QueuedIsReady, ChosenIsReady,
        CurrentIsReady, PrevIsReady, Sound, Waker, Settled, WaitCheck,
        RunsWorker, Workers
  <1> QED BY <1>1, <1>2, <1>3, <1>4 DEF IInv

\* sched_wait_cleanup(): the thread is on this stack, so it is not the prev
\* of a CPU inside __schedule().
LEMMA SafeWaitCleanup ==
  ASSUME IInv, NEW c \in CPUs, WaitCleanup(c)
  PROVE  IInv'
  <1>1. Typed' BY TypedWaitCleanup DEF IInv
  <1>2. LockInv'
    BY <1>1 DEF IInv, LockInv, WakerLocks, BklPromise, WakerSawUnready,
        WaitCleanup, RunsWorker, Workers
  <1>3. StackInv'
    BY <1>1 DEF IInv, StackInv, OneCpuPerThread, StackNotQueued,
        ChosenIsFree, LeftIsFree, ReleasedIsOff, Leaving, WaitCleanup,
        RunsWorker, Workers
  <1>4. FlagInv'
    BY <1>1, SMTT(30) DEF IInv, FlagInv, StackIsActive, QueuedIsReady, ChosenIsReady,
        CurrentIsReady, PrevIsReady, Sound, Waker, Settled, WaitCleanup,
        RunsWorker, Workers
  <1> QED BY <1>1, <1>2, <1>3, <1>4 DEF IInv

\* thread_yield() touches no lock, stack or flag.
LEMMA SafeThreadYield ==
  ASSUME IInv, NEW c \in CPUs, ThreadYield(c)
  PROVE  IInv'
  <1>1. Typed' BY TypedThreadYield DEF IInv
  <1>2. LockInv'
    BY <1>1 DEF IInv, LockInv, WakerLocks, BklPromise, WakerSawUnready,
        ThreadYield, Works, RunsWorker, Workers, PostSwitch
  <1>3. StackInv'
    BY <1>1 DEF IInv, StackInv, OneCpuPerThread, StackNotQueued,
        ChosenIsFree, LeftIsFree, ReleasedIsOff, Leaving, ThreadYield, Works,
        RunsWorker, Workers, PostSwitch
  <1>4. FlagInv'
    BY <1>1 DEF IInv, FlagInv, StackIsActive, QueuedIsReady, ChosenIsReady,
        CurrentIsReady, PrevIsReady, Sound, Waker, Settled, ThreadYield,
        Works, RunsWorker, Workers, PostSwitch
  <1> QED BY <1>1, <1>2, <1>3, <1>4 DEF IInv

\* sched_finished() in thread_exit() only makes the thread less Sound.
LEMMA SafeExitFinish ==
  ASSUME IInv, NEW c \in CPUs, ExitFinish(c)
  PROVE  IInv'
  <1>1. Typed' BY TypedExitFinish DEF IInv
  <1>2. LockInv'
    BY <1>1 DEF IInv, LockInv, WakerLocks, BklPromise, WakerSawUnready,
        ExitFinish, Works, RunsWorker, Workers
  <1>3. StackInv'
    BY <1>1 DEF IInv, StackInv, OneCpuPerThread, StackNotQueued,
        ChosenIsFree, LeftIsFree, ReleasedIsOff, Leaving, ExitFinish, Works,
        RunsWorker, Workers
  <1>4. FlagInv'
    BY <1>1 DEF IInv, FlagInv, StackIsActive, QueuedIsReady, ChosenIsReady,
        CurrentIsReady, PrevIsReady, Sound, Waker, Settled, ExitFinish,
        Works, RunsWorker, Workers
  <1> QED BY <1>1, <1>2, <1>3, <1>4 DEF IInv

\* thread_exit() marking itself waiting leaves it ready and on its stack.
LEMMA SafeExitWait ==
  ASSUME IInv, NEW c \in CPUs, ExitWait(c)
  PROVE  IInv'
  <1>1. Typed' BY TypedExitWait DEF IInv
  <1>2. LockInv'
    BY <1>1 DEF IInv, LockInv, WakerLocks, BklPromise, WakerSawUnready,
        ExitWait, RunsWorker, Workers
  <1>3. StackInv'
    BY <1>1 DEF IInv, StackInv, OneCpuPerThread, StackNotQueued,
        ChosenIsFree, LeftIsFree, ReleasedIsOff, Leaving, ExitWait,
        RunsWorker, Workers
  <1>4. FlagInv'
    BY <1>1 DEF IInv, FlagInv, StackIsActive, QueuedIsReady, ChosenIsReady,
        CurrentIsReady, PrevIsReady, Sound, Waker, Settled, ExitWait,
        RunsWorker, Workers
  <1> QED BY <1>1, <1>2, <1>3, <1>4 DEF IInv

\* thread_exit() takes the lock of the joining thread.
LEMMA SafeExitWakeJoining ==
  ASSUME IInv, NEW c \in CPUs, NEW s \in Schedees, ExitWakeJoining(c, s)
  PROVE  IInv'
  <1>1. Typed' BY TypedExitWakeJoining DEF IInv
  <1>2. LockInv'
    <2>1. WakerLocks'
      BY <1>1, ThreadsAssumption DEF IInv, LockInv, WakerLocks,
          ExitWakeJoining, RunsWorker, Workers, LockSchedee
    <2>2. BklPromise'
      BY <1>1, ThreadsAssumption DEF IInv, LockInv, BklPromise,
          ExitWakeJoining, RunsWorker, Workers, LockSchedee
    <2>3. WakerSawUnready'
      BY <1>1, ThreadsAssumption DEF IInv, LockInv, WakerSawUnready,
          ExitWakeJoining, RunsWorker, Workers, LockSchedee
    <2> QED BY <2>1, <2>2, <2>3 DEF LockInv
  <1>3. StackInv'
    BY <1>1 DEF IInv, StackInv, OneCpuPerThread, StackNotQueued,
        ChosenIsFree, LeftIsFree, ReleasedIsOff, Leaving, ExitWakeJoining,
        RunsWorker, Workers, LockSchedee, Schedees
  <1>4. FlagInv'
    BY <1>1 DEF IInv, FlagInv, StackIsActive, QueuedIsReady, ChosenIsReady,
        CurrentIsReady, PrevIsReady, Sound, Waker, Settled, ExitWakeJoining,
        RunsWorker, Workers, LockSchedee, Schedees
  <1> QED BY <1>1, <1>2, <1>3, <1>4 DEF IInv

\* thread_terminate(): with the target locked there is no waker, so the
\* target stops being Sound.
LEMMA SafeTerminate ==
  ASSUME IInv, NEW c \in CPUs, NEW s \in Schedees, Terminate(c, s)
  PROVE  IInv'
  <1>1. Typed' BY TypedTerminate DEF IInv
  <1>2. LockInv'
    BY <1>1 DEF IInv, LockInv, WakerLocks, BklPromise, WakerSawUnready,
        Terminate, Works, RunsWorker, Workers, InRq
  <1>3. StackInv'
    BY <1>1 DEF IInv, StackInv, OneCpuPerThread, StackNotQueued,
        ChosenIsFree, LeftIsFree, ReleasedIsOff, Leaving, Terminate, Works,
        RunsWorker, Workers, InRq
  <1>4. FlagInv'
    <2>1. StackIsActive'
      BY <1>1, ThreadsAssumption DEF IInv, LockInv, FlagInv, StackIsActive,
          WakerLocks, Sound, Waker, Terminate, Works, RunsWorker, Workers,
          InRq
    <2>2. QueuedIsReady'
      BY <1>1, ThreadsAssumption DEF IInv, LockInv, FlagInv, QueuedIsReady,
          WakerLocks, Sound, Waker, Terminate, Works, RunsWorker, Workers,
          InRq
    <2>3. ChosenIsReady'
      BY <1>1, ThreadsAssumption DEF IInv, LockInv, FlagInv, ChosenIsReady,
          WakerLocks, Sound, Waker, Terminate, Works, RunsWorker, Workers,
          InRq
    <2>4. CurrentIsReady'
      BY <1>1, ThreadsAssumption DEF IInv, LockInv, FlagInv, CurrentIsReady,
          WakerLocks, Sound, Waker, Settled, Terminate, Works, RunsWorker,
          Workers, InRq
    <2>5. PrevIsReady'
      BY <1>1, ThreadsAssumption DEF IInv, LockInv, FlagInv, PrevIsReady,
          WakerLocks, Sound, Waker, Terminate, Works, RunsWorker, Workers,
          InRq
    <2> QED BY <2>1, <2>2, <2>3, <2>4, <2>5 DEF FlagInv
  <1> QED BY <1>1, <1>2, <1>3, <1>4 DEF IInv

\* A thread takes the lock of the schedee it wakes.
LEMMA SafeThreadWakeup ==
  ASSUME IInv, NEW c \in CPUs, NEW s \in Schedees, ThreadWakeup(c, s)
  PROVE  IInv'
  <1>1. Typed' BY TypedThreadWakeup DEF IInv
  <1>2. LockInv'
    <2>1. WakerLocks'
      BY <1>1, ThreadsAssumption DEF IInv, LockInv, WakerLocks, ThreadWakeup,
          Works, RunsWorker, Workers, LockSchedee
    <2>2. BklPromise'
      BY <1>1, ThreadsAssumption DEF IInv, LockInv, BklPromise, ThreadWakeup,
          Works, RunsWorker, Workers, LockSchedee
    <2>3. WakerSawUnready'
      BY <1>1, ThreadsAssumption DEF IInv, LockInv, WakerSawUnready,
          ThreadWakeup, Works, RunsWorker, Workers, LockSchedee
    <2> QED BY <2>1, <2>2, <2>3 DEF LockInv
  <1>3. StackInv'
    BY <1>1 DEF IInv, StackInv, OneCpuPerThread, StackNotQueued,
        ChosenIsFree, LeftIsFree, ReleasedIsOff, Leaving, ThreadWakeup,
        Works, RunsWorker, Workers, LockSchedee
  <1>4. FlagInv'
    BY <1>1 DEF IInv, FlagInv, StackIsActive, QueuedIsReady, ChosenIsReady,
        CurrentIsReady, PrevIsReady, Sound, Waker, Settled, ThreadWakeup,
        Works, RunsWorker, Workers, LockSchedee
  <1> QED BY <1>1, <1>2, <1>3, <1>4 DEF IInv

\* A lightweight thread takes the lock of the schedee it wakes.
LEMMA SafeLThreadWakeup ==
  ASSUME IInv, NEW c \in CPUs, NEW s \in Schedees, LThreadWakeup(c, s)
  PROVE  IInv'
  <1>1. Typed' BY TypedLThreadWakeup DEF IInv
  <1>2. LockInv'
    <2>1. WakerLocks'
      BY <1>1, ThreadsAssumption DEF IInv, LockInv, WakerLocks,
          LThreadWakeup, LockSchedee
    <2>2. BklPromise'
      BY <1>1, ThreadsAssumption DEF IInv, LockInv, BklPromise,
          LThreadWakeup, LockSchedee
    <2>3. WakerSawUnready'
      BY <1>1, ThreadsAssumption DEF IInv, LockInv, WakerSawUnready,
          LThreadWakeup, LockSchedee
    <2> QED BY <2>1, <2>2, <2>3 DEF LockInv
  <1>3. StackInv'
    BY <1>1 DEF IInv, StackInv, OneCpuPerThread, StackNotQueued,
        ChosenIsFree, LeftIsFree, ReleasedIsOff, Leaving, LThreadWakeup,
        LockSchedee
  <1>4. FlagInv'
    BY <1>1 DEF IInv, FlagInv, StackIsActive, QueuedIsReady, ChosenIsReady,
        CurrentIsReady, PrevIsReady, Sound, Waker, Settled, LThreadWakeup,
        LockSchedee
  <1> QED BY <1>1, <1>2, <1>3, <1>4 DEF IInv

\* An interrupt takes the BKL and the lock of the schedee it wakes.
LEMMA SafeIrqWakeup ==
  ASSUME IInv, NEW c \in CPUs, NEW s \in Schedees, NEW e \in BOOLEAN,
      IrqWakeup(c, s, e)
  PROVE  IInv'
  <1>1. Typed' BY TypedIrqWakeup DEF IInv
  <1>2. LockInv'
    <2>1. WakerLocks'
      BY <1>1, ThreadsAssumption DEF IInv, LockInv, WakerLocks, IrqWakeup,
          IrqEnter, LockSchedee
    <2>2. BklPromise'
      BY <1>1, ThreadsAssumption DEF IInv, LockInv, BklPromise, IrqWakeup,
          IrqEnter, LockSchedee
    <2>3. WakerSawUnready'
      BY <1>1, ThreadsAssumption DEF IInv, LockInv, WakerSawUnready,
          IrqWakeup, IrqEnter, LockSchedee
    <2> QED BY <2>1, <2>2, <2>3 DEF LockInv
  <1>3. StackInv'
    BY <1>1 DEF IInv, StackInv, OneCpuPerThread, StackNotQueued,
        ChosenIsFree, LeftIsFree, ReleasedIsOff, Leaving, IrqWakeup,
        IrqEnter, LockSchedee
  <1>4. FlagInv'
    BY <1>1 DEF IInv, FlagInv, StackIsActive, QueuedIsReady, ChosenIsReady,
        CurrentIsReady, PrevIsReady, Sound, Waker, Settled, IrqWakeup,
        IrqEnter, LockSchedee
  <1> QED BY <1>1, <1>2, <1>3, <1>4 DEF IInv

\* sched_signal() takes the lock of a schedee that is not ready.
LEMMA SafeSignal ==
  ASSUME IInv, NEW c \in CPUs, NEW s \in Schedees, Signal(c, s)
  PROVE  IInv'
  <1>1. Typed' BY TypedSignal DEF IInv
  <1>2. LockInv'
    <2>1. WakerLocks'
      BY <1>1, ThreadsAssumption DEF IInv, LockInv, WakerLocks, Signal,
          Works, RunsWorker, Workers, LockSchedee, PostSwitch
    <2>2. BklPromise'
      BY <1>1, ThreadsAssumption DEF IInv, LockInv, BklPromise, Signal,
          Works, RunsWorker, Workers, LockSchedee, PostSwitch
    <2>3. WakerSawUnready'
      BY <1>1, ThreadsAssumption DEF IInv, LockInv, WakerSawUnready, Signal,
          Works, RunsWorker, Workers, LockSchedee, PostSwitch
    <2> QED BY <2>1, <2>2, <2>3 DEF LockInv
  <1>3. StackInv'
    <2>1. OneCpuPerThread'
      BY <1>1, ThreadsAssumption DEF IInv, StackInv, OneCpuPerThread, Signal,
          Works, RunsWorker, Workers, LockSchedee, PostSwitch
    <2>2. StackNotQueued'
      BY <1>1, ThreadsAssumption DEF IInv, StackInv, StackNotQueued, Leaving,
          Signal, Works, RunsWorker, Workers, LockSchedee, PostSwitch
    <2>3. ChosenIsFree'
      BY <1>1, ThreadsAssumption DEF IInv, StackInv, ChosenIsFree, Signal,
          Works, RunsWorker, Workers, LockSchedee, PostSwitch
    <2>4. LeftIsFree'
      BY <1>1, ThreadsAssumption DEF IInv, StackInv, LeftIsFree, Signal,
          Works, RunsWorker, Workers, LockSchedee, PostSwitch
    <2>5. ReleasedIsOff'
      BY <1>1, ThreadsAssumption DEF IInv, StackInv, ReleasedIsOff, Signal,
          Works, RunsWorker, Workers, LockSchedee, PostSwitch
    <2> QED BY <2>1, <2>2, <2>3, <2>4, <2>5 DEF StackInv
  <1>4. FlagInv'
    <2>1. UNCHANGED <<flagVars, rq, cur, prev, preempt>>
      BY DEF Signal
    <2>2. /\ pc'[c] \in {"run", "wfin"}
          /\ \A d \in CPUs \ {c} : pc'[d] = pc[d] /\ tgt'[d] = tgt[d]
          /\ \A d \in CPUs : At(d)' = At(d)
      BY DEF IInv, Typed, TypeOK, Signal, Works, RunsWorker, LockSchedee, At
    <2>3. \A x : Sound(x)' => Sound(x)
      BY <2>1, <2>2 DEF Sound, Waker
    <2>4. StackIsActive'
      BY <2>1, <2>2, <2>3 DEF IInv, FlagInv, StackIsActive, Stack, InSchedule
    <2>5. QueuedIsReady'
      BY <2>1, <2>3 DEF IInv, FlagInv, QueuedIsReady
    <2>6. ChosenIsReady'
      BY <2>1, <2>2, <2>3 DEF IInv, FlagInv, ChosenIsReady
    <2>7. CurrentIsReady'
      BY <2>1, <2>2, <2>3 DEF IInv, FlagInv, CurrentIsReady
    <2>8. PrevIsReady'
      BY <2>1, <2>2, <2>3 DEF IInv, FlagInv, PrevIsReady
    <2> QED BY <2>4, <2>5, <2>6, <2>7, <2>8 DEF FlagInv
  <1> QED BY <1>1, <1>2, <1>3, <1>4 DEF IInv

\* A waker that goes on found its target unfinished, hence Sound.
LEMMA SafeWakeFinished ==
  ASSUME IInv, NEW c \in CPUs, WakeFinished(c)
  PROVE  IInv'
  <1>1. Typed' BY TypedWakeFinished DEF IInv
  <1>2. LockInv'
    BY <1>1 DEF IInv, LockInv, WakerLocks, BklPromise, WakerSawUnready,
        WakeFinished, Goto
  <1>3. StackInv'
    BY <1>1 DEF IInv, StackInv, OneCpuPerThread, StackNotQueued,
        ChosenIsFree, LeftIsFree, ReleasedIsOff, Leaving, WakeFinished, Goto
  <1>4. FlagInv'
    BY <1>1 DEF IInv, FlagInv, StackIsActive, QueuedIsReady, ChosenIsReady,
        CurrentIsReady, PrevIsReady, Sound, Waker, Settled, WakeFinished,
        Goto
  <1> QED BY <1>1, <1>2, <1>3, <1>4 DEF IInv

\* A waker that goes on found its target waiting.
LEMMA SafeWakeWaiting ==
  ASSUME IInv, NEW c \in CPUs, WakeWaiting(c)
  PROVE  IInv'
  <1>1. Typed' BY TypedWakeWaiting DEF IInv
  <1>2. LockInv'
    BY <1>1 DEF IInv, LockInv, WakerLocks, BklPromise, WakerSawUnready,
        WakeWaiting, Goto
  <1>3. StackInv'
    BY <1>1 DEF IInv, StackInv, OneCpuPerThread, StackNotQueued,
        ChosenIsFree, LeftIsFree, ReleasedIsOff, Leaving, WakeWaiting, Goto
  <1>4. FlagInv'
    BY <1>1 DEF IInv, FlagInv, StackIsActive, QueuedIsReady, ChosenIsReady,
        CurrentIsReady, PrevIsReady, Sound, Waker, Settled, WakeWaiting, Goto
  <1> QED BY <1>1, <1>2, <1>3, <1>4 DEF IInv

\* A waker that goes on found its target not ready.
LEMMA SafeWakeReady ==
  ASSUME IInv, NEW c \in CPUs, WakeReady(c)
  PROVE  IInv'
  <1>1. Typed' BY TypedWakeReady DEF IInv
  <1>2. LockInv'
    BY <1>1 DEF IInv, LockInv, WakerLocks, BklPromise, WakerSawUnready,
        WakeReady, Goto
  <1>3. StackInv'
    <2>1. OneCpuPerThread'
      BY <1>1, ThreadsAssumption, SMTT(30) DEF IInv, StackInv, OneCpuPerThread,
          WakeReady, Goto
    <2>2. StackNotQueued'
      BY <1>1, ThreadsAssumption DEF IInv, StackInv, StackNotQueued, Leaving,
          WakeReady, Goto
    <2>3. ChosenIsFree'
      BY <1>1, ThreadsAssumption DEF IInv, StackInv, ChosenIsFree, WakeReady,
          Goto
    <2>4. LeftIsFree'
      BY <1>1, ThreadsAssumption DEF IInv, StackInv, LeftIsFree, WakeReady,
          Goto
    <2>5. ReleasedIsOff'
      BY <1>1, ThreadsAssumption DEF IInv, StackInv, ReleasedIsOff,
          WakeReady, Goto
    <2> QED BY <2>1, <2>2, <2>3, <2>4, <2>5 DEF StackInv
  <1>4. FlagInv'
    <2>1. StackIsActive'
      BY <1>1, ThreadsAssumption, SMTT(30) DEF IInv, FlagInv, StackIsActive, Sound,
          Waker, WakeReady, Goto
    <2>2. QueuedIsReady'
      BY <1>1, ThreadsAssumption DEF IInv, FlagInv, QueuedIsReady, Sound,
          Waker, WakeReady, Goto
    <2>3. ChosenIsReady'
      BY <1>1, ThreadsAssumption DEF IInv, FlagInv, ChosenIsReady, Sound,
          Waker, WakeReady, Goto
    <2>4. CurrentIsReady'
      BY <1>1, ThreadsAssumption DEF IInv, FlagInv, CurrentIsReady, Sound,
          Waker, Settled, WakeReady, Goto
    <2>5. PrevIsReady'
      BY <1>1, ThreadsAssumption DEF IInv, FlagInv, PrevIsReady, Sound,
          Waker, WakeReady, Goto
    <2> QED BY <2>1, <2>2, <2>3, <2>4, <2>5 DEF FlagInv
  <1> QED BY <1>1, <1>2, <1>3, <1>4 DEF IInv

\* TW_SMP_WAKING is no flag the invariant reads as not waiting.
LEMMA SafeWakeInactive ==
  ASSUME IInv, NEW c \in CPUs, WakeInactive(c)
  PROVE  IInv'
  <1>1. Typed' BY TypedWakeInactive DEF IInv
  <1>2. LockInv'
    BY <1>1 DEF IInv, LockInv, WakerLocks, BklPromise, WakerSawUnready,
        WakeInactive, Goto
  <1>3. StackInv'
    BY <1>1 DEF IInv, StackInv, OneCpuPerThread, StackNotQueued,
        ChosenIsFree, LeftIsFree, ReleasedIsOff, Leaving, WakeInactive, Goto
  <1>4. FlagInv'
    BY <1>1 DEF IInv, FlagInv, StackIsActive, QueuedIsReady, ChosenIsReady,
        CurrentIsReady, PrevIsReady, Sound, Waker, Settled, WakeInactive,
        Goto
  <1> QED BY <1>1, <1>2, <1>3, <1>4 DEF IInv

\* The waker drops the lock and, out of an interrupt that found a zero
\* critical count, the BKL.
LEMMA SafeWakeUnlock ==
  ASSUME IInv, NEW c \in CPUs, WakeUnlock(c)
  PROVE  IInv'
  <1>1. Typed' BY TypedWakeUnlock DEF IInv
  <1>2. LockInv'
    BY <1>1 DEF IInv, LockInv, WakerLocks, BklPromise, WakerSawUnready,
        WakeUnlock, Goto, IrqExit
  <1>3. StackInv'
    BY <1>1, SMTT(30) DEF IInv, StackInv, OneCpuPerThread, StackNotQueued,
        ChosenIsFree, LeftIsFree, ReleasedIsOff, Leaving, WakeUnlock, Goto,
        IrqExit
  <1>4. FlagInv'
    BY <1>1 DEF IInv, FlagInv, StackIsActive, QueuedIsReady, ChosenIsReady,
        CurrentIsReady, PrevIsReady, Sound, Waker, Settled, WakeUnlock, Goto,
        IrqExit
  <1> QED BY <1>1, <1>2, <1>3, <1>4 DEF IInv

\* The rescheduling interrupt only makes a dispatch pending.
LEMMA SafeIrqResched ==
  ASSUME IInv, NEW c \in CPUs, IrqResched(c)
  PROVE  IInv'
  <1>1. Typed' BY TypedIrqResched DEF IInv
  <1>2. LockInv'
    BY <1>1 DEF IInv, LockInv, WakerLocks, BklPromise, WakerSawUnready,
        IrqResched, IrqEnter
  <1>3. StackInv'
    BY <1>1 DEF IInv, StackInv, OneCpuPerThread, StackNotQueued,
        ChosenIsFree, LeftIsFree, ReleasedIsOff, Leaving, IrqResched,
        IrqEnter
  <1>4. FlagInv'
    BY <1>1 DEF IInv, FlagInv, StackIsActive, QueuedIsReady, ChosenIsReady,
        CurrentIsReady, PrevIsReady, Sound, Waker, Settled, IrqResched,
        IrqEnter
  <1> QED BY <1>1, <1>2, <1>3, <1>4 DEF IInv

\* sched_tick() only makes dispatches pending.
LEMMA SafeIrqTick ==
  ASSUME IInv, NEW c \in CPUs, IrqTick(c)
  PROVE  IInv'
  <1>1. Typed' BY TypedIrqTick DEF IInv
  <1>2. LockInv'
    BY <1>1 DEF IInv, LockInv, WakerLocks, BklPromise, WakerSawUnready,
        IrqTick, IrqEnter, PostSwitch
  <1>3. StackInv'
    BY <1>1 DEF IInv, StackInv, OneCpuPerThread, StackNotQueued,
        ChosenIsFree, LeftIsFree, ReleasedIsOff, Leaving, IrqTick, IrqEnter,
        PostSwitch
  <1>4. FlagInv'
    BY <1>1 DEF IInv, FlagInv, StackIsActive, QueuedIsReady, ChosenIsReady,
        CurrentIsReady, PrevIsReady, Sound, Waker, Settled, IrqTick,
        IrqEnter, PostSwitch
  <1> QED BY <1>1, <1>2, <1>3, <1>4 DEF IInv

\* sched_preempt(): the BKL was free, so no other CPU is inside
\* __schedule().
LEMMA SafePreempt ==
  ASSUME IInv, NEW c \in CPUs, Preempt(c)
  PROVE  IInv'
  <1>1. Typed' BY TypedPreempt DEF IInv
  <1>2. LockInv'
    <2>1. WakerLocks'
      BY <1>1, ThreadsAssumption DEF IInv, LockInv, WakerLocks, Preempt,
          EnterSchedule, Goto
    <2>2. BklPromise'
      BY <1>1, ThreadsAssumption DEF IInv, LockInv, BklPromise, Preempt,
          EnterSchedule, Goto
    <2>3. WakerSawUnready'
      BY <1>1, ThreadsAssumption DEF IInv, LockInv, WakerSawUnready, Preempt,
          EnterSchedule, Goto
    <2> QED BY <2>1, <2>2, <2>3 DEF LockInv
  <1>3. StackInv'
    BY <1>1, SMTT(30) DEF IInv, StackInv, OneCpuPerThread, StackNotQueued,
        ChosenIsFree, LeftIsFree, ReleasedIsOff, Leaving, Preempt,
        EnterSchedule, Goto
  <1>4. FlagInv'
    BY <1>1 DEF IInv, FlagInv, StackIsActive, QueuedIsReady, ChosenIsReady,
        CurrentIsReady, PrevIsReady, Sound, Waker, Settled, Preempt,
        EnterSchedule, Goto
  <1> QED BY <1>1, <1>2, <1>3, <1>4 DEF IInv

\* schedule(): the BKL was free or held by this very thread.
LEMMA SafeSchedule ==
  ASSUME IInv, NEW c \in CPUs, Schedule(c)
  PROVE  IInv'
  <1>1. Typed' BY TypedSchedule DEF IInv
  <1>2. LockInv'
    <2>1. WakerLocks'
      BY <1>1, ThreadsAssumption DEF IInv, LockInv, WakerLocks, Schedule,
          EnterSchedule, Goto, RunsWorker, Workers
    <2>2. BklPromise'
      BY <1>1, ThreadsAssumption DEF IInv, LockInv, BklPromise, Schedule,
          EnterSchedule, Goto, RunsWorker, Workers
    <2>3. WakerSawUnready'
      BY <1>1, ThreadsAssumption DEF IInv, LockInv, WakerSawUnready,
          Schedule, EnterSchedule, Goto, RunsWorker, Workers
    <2> QED BY <2>1, <2>2, <2>3 DEF LockInv
  <1>3. StackInv'
    BY <1>1, SMTT(30) DEF IInv, StackInv, OneCpuPerThread, StackNotQueued,
        ChosenIsFree, LeftIsFree, ReleasedIsOff, Leaving, Schedule,
        EnterSchedule, Goto, RunsWorker, Workers
  <1>4. FlagInv'
    BY <1>1, SMTT(40) DEF IInv, FlagInv, StackIsActive, QueuedIsReady, ChosenIsReady,
        CurrentIsReady, PrevIsReady, Sound, Waker, Settled, Schedule,
        EnterSchedule, Goto, RunsWorker, Workers
  <1> QED BY <1>1, <1>2, <1>3, <1>4 DEF IInv

\* lthread_do_process(): the lightweight thread just taken off the queue
\* stops being ready.
LEMMA SafeLThreadStart ==
  ASSUME IInv, NEW c \in CPUs, LThreadStart(c)
  PROVE  IInv'
  <1>1. Typed' BY TypedLThreadStart DEF IInv
  <1>2. LockInv'
    BY <1>1 DEF IInv, LockInv, WakerLocks, BklPromise, WakerSawUnready,
        LThreadStart, Goto
  <1>3. StackInv'
    BY <1>1, SMTT(30) DEF IInv, StackInv, OneCpuPerThread, StackNotQueued,
        ChosenIsFree, LeftIsFree, ReleasedIsOff, Leaving, LThreadStart, Goto
  <1>4. FlagInv'
    <2>1. StackIsActive'
      BY <1>1, ThreadsAssumption DEF IInv, FlagInv, StackIsActive, Sound,
          Waker, LThreadStart, Goto
    <2>2. QueuedIsReady'
      BY <1>1, ThreadsAssumption DEF IInv, StackInv, FlagInv, QueuedIsReady,
          ChosenIsFree, Sound, Waker, LThreadStart, Goto
    <2>3. ChosenIsReady'
      BY <1>1, ThreadsAssumption DEF IInv, LockInv, FlagInv, ChosenIsReady,
          BklPromise, Sound, Waker, LThreadStart, Goto
    <2>4. CurrentIsReady'
      BY <1>1, ThreadsAssumption DEF IInv, FlagInv, CurrentIsReady, Sound,
          Waker, Settled, LThreadStart, Goto
    <2>5. PrevIsReady'
      BY <1>1, ThreadsAssumption DEF IInv, FlagInv, PrevIsReady, Sound,
          Waker, LThreadStart, Goto
    <2> QED BY <2>1, <2>2, <2>3, <2>4, <2>5 DEF FlagInv
  <1> QED BY <1>1, <1>2, <1>3, <1>4 DEF IInv

\* In run() and after it the CPU is still on the stack of prev.
LEMMA SafeLThreadReturn ==
  ASSUME IInv, NEW c \in CPUs, LThreadLook(c) \/ LThreadReturn(c)
  PROVE  IInv'
  <1>1. Typed' BY TypedLThreadReturn DEF IInv
  <1>0. PICK l \in {"ltdone", "repick"} :
          /\ pc[c] \in {"lt", "ltdone"}
          /\ pc' = [pc EXCEPT ![c] = l]
          /\ UNCHANGED <<flagVars, prioVars, queueVars, pokeVars, frameVars,
                         wakeVars, held, bkl>>
    BY DEF LThreadLook, LThreadReturn, Goto
  <1> HIDE DEF LThreadLook, LThreadReturn
  <1>2. LockInv'
    BY <1>0, <1>1 DEF IInv, LockInv, WakerLocks, BklPromise, WakerSawUnready
  <1>3. StackInv'
    BY <1>0, <1>1, SMTT(30) DEF IInv, StackInv, OneCpuPerThread, StackNotQueued,
        ChosenIsFree, LeftIsFree, ReleasedIsOff, Leaving
  <1>4. FlagInv'
    BY <1>0, <1>1 DEF IInv, FlagInv, StackIsActive, QueuedIsReady, ChosenIsReady,
        CurrentIsReady, PrevIsReady, Sound, Waker, Settled
  <1> QED BY <1>1, <1>2, <1>3, <1>4 DEF IInv

\* sched_start_switch() and context_switch(): next was on no stack, and
\* prev is on none from here on.
LEMMA SafeActivate ==
  ASSUME IInv, NEW c \in CPUs, Activate(c)
  PROVE  IInv'
  <1>1. Typed' BY TypedActivate DEF IInv
  <1>2. LockInv'
    BY <1>1 DEF IInv, LockInv, WakerLocks, BklPromise, WakerSawUnready,
        Activate, Goto
  <1>3. StackInv'
    <2>1. OneCpuPerThread'
      BY <1>1, ThreadsAssumption DEF IInv, StackInv, OneCpuPerThread,
          ChosenIsFree, Activate, Goto
    <2>2. StackNotQueued'
      BY <1>1, ThreadsAssumption DEF IInv, StackInv, StackNotQueued,
          ChosenIsFree, Leaving, Activate, Goto
    <2>3. ChosenIsFree'
      BY <1>1, ThreadsAssumption DEF IInv, LockInv, StackInv, ChosenIsFree,
          BklPromise, Activate, Goto
    <2>4. LeftIsFree'
      <3>1. prev[c] = Stack(c) /\ cur[c] # prev[c]
        BY DEF IInv, StackInv, ChosenIsFree, Activate
      <3>2. \A d \in CPUs : Stack(d)' = IF d = c THEN cur[c] ELSE Stack(d)
        BY DEF IInv, Activate, Goto
      <3>3. \A d \in CPUs : Stack(d)' # prev[c]
        BY <3>1, <3>2 DEF IInv, StackInv, OneCpuPerThread
      <3>4. ASSUME NEW d \in CPUs, pc'[d] \in {"deact", "deact2", "release"}
            PROVE  d = c
        BY <3>4 DEF IInv, LockInv, BklPromise, Activate, Goto
      <3> QED BY <3>3, <3>4 DEF LeftIsFree, Activate
    <2>5. ReleasedIsOff'
      BY <1>1, ThreadsAssumption DEF IInv, StackInv, ReleasedIsOff, Activate,
          Goto
    <2> QED BY <2>1, <2>2, <2>3, <2>4, <2>5 DEF StackInv
  <1>4. FlagInv'
    BY <1>1 DEF IInv, FlagInv, StackIsActive, QueuedIsReady, ChosenIsReady,
        CurrentIsReady, PrevIsReady, Sound, Waker, Settled, Activate, Goto
  <1> QED BY <1>1, <1>2, <1>3, <1>4 DEF IInv

\* Clearing active concerns prev, which is on no stack any more.
LEMMA SafeDeactivate ==
  ASSUME IInv, NEW c \in CPUs, Deactivate(c)
  PROVE  IInv'
  <1>1. Typed' BY TypedDeactivate DEF IInv
  <1>2. LockInv'
    BY <1>1 DEF IInv, LockInv, WakerLocks, BklPromise, WakerSawUnready,
        Deactivate, Goto
  <1>3. StackInv'
    BY <1>1 DEF IInv, StackInv, OneCpuPerThread, StackNotQueued,
        ChosenIsFree, LeftIsFree, ReleasedIsOff, Leaving, Deactivate, Goto
  <1>4. FlagInv'
    <2>1. StackIsActive'
      BY <1>1, ThreadsAssumption DEF IInv, StackInv, FlagInv, StackIsActive,
          LeftIsFree, Sound, Waker, Deactivate, Goto
    <2>2. QueuedIsReady'
      BY <1>1, ThreadsAssumption DEF IInv, FlagInv, QueuedIsReady, Sound,
          Waker, Deactivate, Goto
    <2>3. ChosenIsReady'
      BY <1>1, ThreadsAssumption DEF IInv, FlagInv, ChosenIsReady, Sound,
          Waker, Deactivate, Goto
    <2>4. CurrentIsReady'
      BY <1>1, ThreadsAssumption DEF IInv, FlagInv, CurrentIsReady, Sound,
          Waker, Settled, Deactivate, Goto
    <2>5. PrevIsReady'
      BY <1>1, ThreadsAssumption DEF IInv, FlagInv, PrevIsReady, Sound,
          Waker, Deactivate, Goto
    <2> QED BY <2>1, <2>2, <2>3, <2>4, <2>5 DEF FlagInv
  <1> QED BY <1>1, <1>2, <1>3, <1>4 DEF IInv

\* released is set once prev is on no stack and no switch away from it is
\* left.
LEMMA SafeRelease ==
  ASSUME IInv, NEW c \in CPUs, Release(c)
  PROVE  IInv'
  <1>1. Typed' BY TypedRelease DEF IInv
  <1>2. LockInv'
    BY <1>1 DEF IInv, LockInv, WakerLocks, BklPromise, WakerSawUnready,
        Release, Goto
  <1>3. StackInv'
    <2>1. OneCpuPerThread'
      BY <1>1, ThreadsAssumption DEF IInv, StackInv, OneCpuPerThread,
          Release, Goto
    <2>2. StackNotQueued'
      BY <1>1, ThreadsAssumption DEF IInv, StackInv, StackNotQueued, Leaving,
          Release, Goto
    <2>3. ChosenIsFree'
      BY <1>1, ThreadsAssumption DEF IInv, StackInv, ChosenIsFree, Release,
          Goto
    <2>4. LeftIsFree'
      BY <1>1, ThreadsAssumption DEF IInv, StackInv, LeftIsFree, Release,
          Goto
    <2>5. ReleasedIsOff'
      BY <1>1, ThreadsAssumption DEF IInv, LockInv, StackInv, ReleasedIsOff,
          LeftIsFree, BklPromise, Release, Goto
    <2> QED BY <2>1, <2>2, <2>3, <2>4, <2>5 DEF StackInv
  <1>4. FlagInv'
    BY <1>1 DEF IInv, FlagInv, StackIsActive, QueuedIsReady, ChosenIsReady,
        CurrentIsReady, PrevIsReady, Sound, Waker, Settled, Release, Goto
  <1> QED BY <1>1, <1>2, <1>3, <1>4 DEF IInv

\* The end of __schedule() hands the BKL to the thread that now runs, if
\* that one holds sched_lock().
LEMMA SafeLeave ==
  ASSUME IInv, NEW c \in CPUs, Leave(c)
  PROVE  IInv'
  <1>1. Typed' BY TypedLeave DEF IInv
  <1>2. LockInv'
    BY <1>1, SMTT(30) DEF IInv, LockInv, WakerLocks, BklPromise, WakerSawUnready,
        Leave, AckSwitched, Goto
  <1>3. StackInv'
    BY <1>1 DEF IInv, StackInv, OneCpuPerThread, StackNotQueued,
        ChosenIsFree, LeftIsFree, ReleasedIsOff, Leaving, Leave, AckSwitched,
        Goto
  <1>4. FlagInv'
    BY <1>1 DEF IInv, FlagInv, StackIsActive, QueuedIsReady, ChosenIsReady,
        CurrentIsReady, PrevIsReady, Sound, Waker, Settled, Leave, AckSwitched,
        Goto
  <1> QED BY <1>1, <1>2, <1>3, <1>4 DEF IInv

\* An inactive target is on no stack and chosen by nobody, so it may be
\* filed.
LEMMA SafeWakeActive ==
  ASSUME IInv, NEW c \in CPUs, WakeActive(c)
  PROVE  IInv'
  <1>1. Typed' BY TypedWakeActive DEF IInv
  <1>2. LockInv'
    BY <1>1 DEF IInv, LockInv, WakerLocks, BklPromise, WakerSawUnready,
        WakeActive, Goto, WakeupWaiting
  <1>3. StackInv'
    <2>1. OneCpuPerThread'
      BY <1>1, ThreadsAssumption DEF IInv, StackInv, OneCpuPerThread,
          WakeActive, Goto, WakeupWaiting
    <2>2. StackNotQueued'
      BY <1>1, ThreadsAssumption DEF IInv, StackInv, FlagInv, StackNotQueued,
          StackIsActive, Leaving, Sound, Waker, WakeActive, Goto,
          WakeupWaiting
    <2>3. ChosenIsFree'
      BY <1>1, ThreadsAssumption DEF IInv, LockInv, StackInv, FlagInv,
          ChosenIsFree, ChosenIsReady, WakerSawUnready, Sound, Waker,
          WakeActive, Goto, WakeupWaiting
    <2>4. LeftIsFree'
      BY <1>1, ThreadsAssumption DEF IInv, StackInv, LeftIsFree, WakeActive,
          Goto, WakeupWaiting
    <2>5. ReleasedIsOff'
      BY <1>1, ThreadsAssumption, SMTT(30) DEF IInv, StackInv, ReleasedIsOff,
          WakeActive, Goto, WakeupWaiting
    <2> QED BY <2>1, <2>2, <2>3, <2>4, <2>5 DEF StackInv
  <1>4. FlagInv'
    <2>1. StackIsActive'
      BY <1>1 DEF IInv, FlagInv, StackIsActive, Sound, Waker, WakeActive,
          Goto, WakeupWaiting
    <2>2. QueuedIsReady'
      BY <1>1 DEF IInv, FlagInv, QueuedIsReady, Sound, Waker, WakeActive,
          Goto, WakeupWaiting
    <2>3. ChosenIsReady'
      BY <1>1 DEF IInv, FlagInv, ChosenIsReady, Sound, Waker, WakeActive,
          Goto, WakeupWaiting
    <2>4. CurrentIsReady'
      BY <1>1 DEF IInv, FlagInv, CurrentIsReady, Sound, Waker, Settled, WakeActive,
          Goto, WakeupWaiting
    <2>5. PrevIsReady'
      BY <1>1 DEF IInv, FlagInv, PrevIsReady, Sound, Waker, WakeActive,
          Goto, WakeupWaiting
    <2> QED BY <2>1, <2>2, <2>3, <2>4, <2>5 DEF FlagInv
  <1> QED BY <1>1, <1>2, <1>3, <1>4 DEF IInv

\* The deferred wakeup files prev, which is on no stack.
LEMMA SafeDeferredWakeup ==
  ASSUME IInv, NEW c \in CPUs, DeferredWakeup(c)
  PROVE  IInv'
  <1>1. Typed' BY TypedDeferredWakeup DEF IInv
  <1>2. LockInv'
    <2>1. WakerLocks'
      BY <1>1, ThreadsAssumption DEF IInv, LockInv, WakerLocks,
          DeferredWakeup, Goto, WakeupWaiting
    <2>2. BklPromise'
      BY <1>1, ThreadsAssumption DEF IInv, LockInv, BklPromise,
          DeferredWakeup, Goto, WakeupWaiting
    <2>3. WakerSawUnready'
      BY <1>1, ThreadsAssumption DEF IInv, LockInv, WakerSawUnready,
          WakerLocks, DeferredWakeup, Goto, WakeupWaiting
    <2> QED BY <2>1, <2>2, <2>3 DEF LockInv
  <1>3. StackInv'
    <2>1. OneCpuPerThread'
      BY <1>1, ThreadsAssumption DEF IInv, StackInv, OneCpuPerThread,
          DeferredWakeup, Goto, WakeupWaiting
    <2>2. StackNotQueued'
      BY <1>1, ThreadsAssumption DEF IInv, StackInv, StackNotQueued,
          LeftIsFree, Leaving, DeferredWakeup, Goto, WakeupWaiting
    <2>3. ChosenIsFree'
      BY <1>1, ThreadsAssumption DEF IInv, LockInv, StackInv, ChosenIsFree,
          BklPromise, DeferredWakeup, Goto, WakeupWaiting
    <2>4. LeftIsFree'
      BY <1>1, ThreadsAssumption DEF IInv, StackInv, LeftIsFree,
          DeferredWakeup, Goto, WakeupWaiting
    <2>5. ReleasedIsOff'
      BY <1>1, ThreadsAssumption DEF IInv, StackInv, ReleasedIsOff,
          DeferredWakeup, Goto, WakeupWaiting
    <2> QED BY <2>1, <2>2, <2>3, <2>4, <2>5 DEF StackInv
  <1>4. FlagInv'
    <2>1. StackIsActive'
      BY <1>1 DEF IInv, FlagInv, StackIsActive, Sound, Waker, DeferredWakeup,
          Goto, WakeupWaiting
    <2>2. QueuedIsReady'
      BY <1>1 DEF IInv, FlagInv, QueuedIsReady, Sound, Waker, DeferredWakeup,
          Goto, WakeupWaiting
    <2>3. ChosenIsReady'
      BY <1>1 DEF IInv, FlagInv, ChosenIsReady, Sound, Waker, DeferredWakeup,
          Goto, WakeupWaiting
    <2>4. CurrentIsReady'
      BY <1>1 DEF IInv, FlagInv, CurrentIsReady, Sound, Waker, Settled, DeferredWakeup,
          Goto, WakeupWaiting
    <2>5. PrevIsReady'
      BY <1>1 DEF IInv, FlagInv, PrevIsReady, Sound, Waker, DeferredWakeup,
          Goto, WakeupWaiting
    <2> QED BY <2>1, <2>2, <2>3, <2>4, <2>5 DEF FlagInv
  <1> QED BY <1>1, <1>2, <1>3, <1>4 DEF IInv

\* sched_change_priority() with sched_lock(), or from a lightweight thread,
\* files only what is on no stack and chosen by nobody.
LEMMA SafeChangePriority ==
  ASSUME IInv, "bare" \notin Setters, NEW c \in CPUs, NEW s \in Schedees, NEW
      new \in Levels, ChangePriority(c, s, new)
  PROVE  IInv'
  <1>1. Typed' BY TypedChangePriority DEF IInv
  <1>2. LockInv'
    BY <1>1 DEF IInv, LockInv, WakerLocks, BklPromise, WakerSawUnready,
        ChangePriority, Works, RunsWorker, Workers, InRq
  <1>3. StackInv'
    <2>1. OneCpuPerThread'
      BY <1>1, ThreadsAssumption DEF IInv, StackInv, OneCpuPerThread,
          ChangePriority, Works, RunsWorker, Workers, InRq
    <2>2. StackNotQueued'
      BY <1>1, ThreadsAssumption DEF IInv, StackInv, FlagInv, StackNotQueued,
          StackIsActive, Leaving, Sound, Waker, ChangePriority, Works,
          RunsWorker, Workers, InRq
    <2>3. ChosenIsFree'
      BY <1>1, ThreadsAssumption DEF IInv, LockInv, StackInv, ChosenIsFree,
          BklPromise, ChangePriority, Works, RunsWorker, Workers, InRq
    <2>4. LeftIsFree'
      BY <1>1, ThreadsAssumption DEF IInv, StackInv, LeftIsFree,
          ChangePriority, Works, RunsWorker, Workers, InRq
    <2>5. ReleasedIsOff'
      BY <1>1, ThreadsAssumption, SMTT(30) DEF IInv, StackInv, ReleasedIsOff,
          ChangePriority, Works, RunsWorker, Workers, InRq
    <2> QED BY <2>1, <2>2, <2>3, <2>4, <2>5 DEF StackInv
  <1>4. FlagInv'
    BY <1>1 DEF IInv, FlagInv, StackIsActive, QueuedIsReady, ChosenIsReady,
        CurrentIsReady, PrevIsReady, Sound, Waker, Settled, ChangePriority,
        Works, RunsWorker, Workers, InRq
  <1> QED BY <1>1, <1>2, <1>3, <1>4 DEF IInv

\* Only one CPU is inside __schedule(), so the turn of c disturbs nobody else.
LEMMA SafePick ==
  ASSUME IInv, NEW c \in CPUs, Pick(c)
  PROVE  IInv'
  <1> DEFINE p == prev[c]
             first == pc[c] = "pick"
             q == IF first /\ ~GoesToSleep(c) THEN rq \cup {p} ELSE rq
  <1>1. Typed' BY TypedPick DEF IInv
  <1>2. PICK next \in Schedees :
            /\ rq' = q \ {next}
            /\ next \in q \/ (next = p /\ ~GoesToSleep(c))
            /\ cur' = [cur EXCEPT ![c] = next]
            /\ pc' = [pc EXCEPT ![c] =
                         IF next \in LThreads THEN "ltproc"
                         ELSE IF next = p THEN "leave" ELSE "switch"]
            /\ ready' = IF first /\ GoesToSleep(c)
                        THEN [ready EXCEPT ![p] = FALSE] ELSE ready
    BY PickEffect DEF IInv
  <1>3. /\ pc[c] \in {"pick", "repick"}
        /\ UNCHANGED <<active, waiting, finished, released, held, prev, preempt,
                       wakeVars, bkl>>
    BY DEF Pick
  <1> HIDE DEF Pick
  <1>4. p \in Threads /\ Stack(c) = p BY <1>3 DEF IInv
  <1>5. \A d \in CPUs \ {c} : ~InSchedule(d) /\ Stack(d) = cur[d]
    BY <1>3 DEF IInv, LockInv, BklPromise
  <1>6. \A d \in CPUs : Stack(d)' = Stack(d)
    BY <1>1, <1>2, <1>3, <1>4, <1>5, ThreadsAssumption
  <1>7. \A s \in Schedees : Sound(s)' <=> Sound(s)
    BY <1>2, <1>3 DEF Sound, Waker
  <1>8. Sound(p) /\ (first \/ preempt[c] \/ waiting[p] = "no") => ready[p]
    BY <1>3, <1>4 DEF IInv, FlagInv, CurrentIsReady, PrevIsReady, Settled
  <1>9. \A s \in q : Sound(s) => ready[s]
    BY <1>8 DEF IInv, FlagInv, QueuedIsReady
  <1>10. first => p \notin rq
    BY <1>4 DEF IInv, StackInv, StackNotQueued, Leaving
  <1>11. LockInv'
    BY <1>1, <1>2, <1>3, <1>5 DEF IInv, LockInv, WakerLocks, BklPromise,
       WakerSawUnready
  <1>12. StackInv'
    <2>1. OneCpuPerThread'
      BY <1>6 DEF IInv, StackInv, OneCpuPerThread
    <2>2. StackNotQueued'
      <3>1. \A d \in CPUs \ {c} : Stack(d) \notin rq /\ Stack(d) # p
        BY <1>4, <1>5 DEF IInv, StackInv, StackNotQueued, OneCpuPerThread, Leaving
      <3>2. At(c)' \in Leaving \/ (At(c)' = "leave" /\ p \notin rq')
        BY <1>2, <1>3 DEF IInv, Leaving
      <3> QED BY <1>2, <1>4, <1>6, <3>1, <3>2 DEF StackNotQueued
    <2>3. ChosenIsFree'
      <3>1. ASSUME pc'[c] \in {"switch", "ltproc"}, NEW d \in CPUs
            PROVE  Stack(d) # next
        BY <3>1, <1>2, <1>3, <1>4, <1>5, ThreadsAssumption
        DEF IInv, StackInv, StackNotQueued, OneCpuPerThread, Leaving
      <3> QED BY <1>2, <1>3, <1>5, <1>6, <3>1 DEF IInv, ChosenIsFree
    <2>4. LeftIsFree'
      BY <1>2, <1>3, <1>5, ThreadsAssumption DEF LeftIsFree
    <2>5. ReleasedIsOff'
      BY <1>2, <1>3, <1>5, <1>6, ThreadsAssumption
      DEF IInv, StackInv, ReleasedIsOff
    <2> QED BY <2>1, <2>2, <2>3, <2>4, <2>5 DEF StackInv
  <1>13. FlagInv'
    <2>1. StackIsActive'
      <3>1. \A d \in CPUs : Stack(d) \in Schedees BY <1>4, <1>5 DEF IInv
      <3>2. \A s \in Schedees : ready'[s] => ready[s] BY <1>2, <1>4 DEF IInv
      <3> QED BY <1>3, <1>6, <1>7, <3>1, <3>2 DEF IInv, FlagInv, StackIsActive
    <2>2. QueuedIsReady'
      BY <1>1, <1>2, <1>4, <1>7, <1>9, <1>10 DEF IInv, QueuedIsReady
    <2>3. ChosenIsReady'
      <3>1. CASE next \in q /\ next # p
        BY <3>1, <1>2, <1>3, <1>4, <1>5, <1>7, <1>9 DEF IInv, ChosenIsReady
      <3>2. CASE next = p
        BY <3>2, <1>2, <1>3, <1>4, <1>5, ThreadsAssumption DEF IInv, ChosenIsReady
      <3> QED BY <1>2, <3>1, <3>2
    <2>4. CurrentIsReady'
      <3>1. ASSUME NEW d \in CPUs \ {c}, At(d)' \in Settled, Sound(cur[d])
            PROVE  ready'[cur[d]] /\ cur'[d] = cur[d]
        BY <3>1, <1>2, <1>3, <1>4, <1>5
        DEF IInv, FlagInv, CurrentIsReady, StackInv, OneCpuPerThread
      <3>2. ASSUME At(c)' \in Settled, Sound(next)
            PROVE  next = p /\ ready'[p]
        BY <3>2, <1>2, <1>3, <1>4, <1>8, <1>9, <1>10, ThreadsAssumption
        DEF GoesToSleep, Settled, IInv
      <3> QED BY <1>1, <1>2, <1>7, <3>1, <3>2 DEF CurrentIsReady, IInv
    <2>5. PrevIsReady'
      BY <1>2, <1>3, <1>4, <1>5, <1>7, <1>8 DEF IInv, PrevIsReady, GoesToSleep
    <2> QED BY <2>1, <2>2, <2>3, <2>4, <2>5 DEF FlagInv
  <1> QED BY <1>1, <1>11, <1>12, <1>13 DEF IInv

\* Every step of the scheduler keeps the inductive invariant.
LEMMA SafeNext ==
  ASSUME "bare" \notin Setters, IInv, [Next]_vars
  PROVE  IInv'
  <1>1. /\ Workers \subseteq Schedees /\ Terminable \subseteq Schedees
        /\ Tunable \subseteq Schedees
    BY OptionAssumption DEF Workers, Schedees
  <1>2. ASSUME NEW c \in CPUs, ThreadStep(c) PROVE IInv'
    BY <1>1, <1>2, SafeSchedLock, SafeSchedUnlock, SafeWaitPrepare,
        SafeWaitCheck, SafeWaitCleanup, SafeThreadYield, SafeExitFinish,
        SafeExitWait, SafeExitWakeJoining, SafeTerminate, SafeChangePriority
        DEF ThreadStep
  <1>3. ASSUME NEW c \in CPUs, WakeStart(c) PROVE IInv'
    BY <1>1, <1>3, SafeThreadWakeup, SafeLThreadWakeup, SafeIrqWakeup,
        SafeSignal DEF WakeStart
  <1>4. ASSUME NEW c \in CPUs, WakeStep(c) PROVE IInv'
    BY <1>4, SafeWakeFinished, SafeWakeWaiting, SafeWakeReady,
        SafeWakeInactive, SafeWakeActive, SafeWakeUnlock DEF WakeStep
  <1>5. ASSUME NEW c \in CPUs, ScheduleStep(c) PROVE IInv'
    BY <1>5, SafePick, SafeLThreadStart, SafeLThreadReturn,
        SafeActivate, SafeDeactivate, SafeDeferredWakeup, SafeRelease,
        SafeLeave DEF ScheduleStep
  <1>6. CASE UNCHANGED vars
    <2>1. Typed' BY <1>6, TypedNext DEF IInv
    <2>2. LockInv'
      BY <1>6 DEF vars, IInv, LockInv, WakerLocks, BklPromise, WakerSawUnready
    <2>3. StackInv'
      BY <1>6 DEF vars, IInv, StackInv, OneCpuPerThread, StackNotQueued,
         ChosenIsFree, LeftIsFree, ReleasedIsOff
    <2>4. FlagInv'
      BY <1>6 DEF vars, IInv, FlagInv, StackIsActive, QueuedIsReady,
         ChosenIsReady, CurrentIsReady, PrevIsReady, Sound, Waker
    <2> QED BY <2>1, <2>2, <2>3, <2>4 DEF IInv
  <1> QED BY <1>2, <1>3, <1>4, <1>5, <1>6, SafeIrqResched, SafeIrqTick,
      SafePreempt, SafeSchedule DEF Next

\* The initial state, with every CPU on its own idle thread, satisfies it.
LEMMA SafeInit == Init => IInv
  <1> SUFFICES ASSUME Init PROVE IInv OBVIOUS
  <1>1. Typed BY TInit
  <1>2. \A c \in CPUs : Stack(c) = Idle[c] /\ At(c) = "run" BY DEF Init
  <1>3. \A c \in CPUs : Idle[c] \in Idles BY DEF Idles
  <1>4. Idles \subseteq Threads BY IdleAssumption DEF Idles
  <1>5. LockInv
    BY <1>3, <1>4 DEF Init, LockInv, WakerLocks, BklPromise, WakerSawUnready
  <1>6. StackInv
    <2>1. OneCpuPerThread BY <1>2, IdleAssumption DEF OneCpuPerThread
    <2>2. StackNotQueued BY DEF Init, StackNotQueued
    <2>3. ChosenIsFree /\ LeftIsFree BY DEF Init, ChosenIsFree, LeftIsFree
    <2>4. ReleasedIsOff BY <1>2, <1>3 DEF Init, ReleasedIsOff
    <2> QED BY <2>1, <2>2, <2>3, <2>4 DEF StackInv
  <1>7. FlagInv
    BY <1>2, <1>3, <1>4 DEF Init, FlagInv, StackIsActive, QueuedIsReady,
       ChosenIsReady, CurrentIsReady, PrevIsReady, Sound, Waker
  <1> QED BY <1>1, <1>5, <1>6, <1>7 DEF IInv

\* The inductive invariant holds as long as no thread changes a priority
\* without sched_lock().
THEOREM Exclusion ==
  ASSUME "bare" \notin Setters
  PROVE  Spec => []IInv
  <1>1. IInv /\ [Next]_vars => IInv' BY SafeNext
  <1> QED BY SafeInit, <1>1, PTL DEF Spec

\* Every CPU inside __schedule() or under sched_lock() owns the BKL.
THEOREM BklPromiseHolds ==
  ASSUME "bare" \notin Setters
  PROVE  Spec => []BklPromise
  <1>1. IInv => BklPromise BY DEF IInv, LockInv
  <1> QED BY Exclusion, <1>1, PTL

\* No two CPUs execute on one stack, whatever wakes whom from wherever.
THEOREM OneCpuPerThreadHolds ==
  ASSUME "bare" \notin Setters
  PROVE  Spec => []OneCpuPerThread
  <1>1. IInv => OneCpuPerThread BY DEF IInv, StackInv
  <1> QED BY Exclusion, <1>1, PTL

\* A queued thread is on no stack but that of the CPU leaving it.
THEOREM QueuedIsOffHolds ==
  ASSUME "bare" \notin Setters
  PROVE  Spec => []QueuedIsOff
  <1>1. IInv => QueuedIsOff
    BY DEF IInv, StackInv, StackNotQueued, QueuedIsOff, Leaving
  <1> QED BY Exclusion, <1>1, PTL

\* What is marked released may be freed: no CPU is on its stack or switching
\* away from it.
THEOREM ReleasedIsOffHolds ==
  ASSUME "bare" \notin Setters
  PROVE  Spec => []ReleasedIsOff
  <1>1. IInv => ReleasedIsOff BY DEF IInv, StackInv
  <1> QED BY Exclusion, <1>1, PTL
=============================================================================
