--------------------------- MODULE SchedWakeProofs ---------------------------
(***************************************************************************)
(* Proofs about Sched: that the run queue holds exactly the schedees it    *)
(* should and rq_nr_ready counts them, that a deferred wakeup is served    *)
(* and no wakeup is lost, that __schedule() always finds something to run, *)
(* that an exited thread never returns from schedule() and that a thread   *)
(* pinned to an idle CPU starts.  They rest on the exclusion that          *)
(* SchedProofs establishes.                                                *)
(***************************************************************************)
EXTENDS SchedProofs, FiniteSetTheorems

\* TW_SMP_WAKING is only ever seen on a schedee that is off the queue.
WakingIsUnready == \A s \in Schedees : waiting[s] = "waking" => ~ready[s]

\* s->active means that a CPU is on s's stack or has just left it.
ActiveHasCpu ==
    \A s \in Schedees : active[s] =>
        \E c \in CPUs : Stack(c) = s \/ (At(c) = "deact" /\ prev[c] = s)

\* A ready schedee that is not active is queued, or chosen and about to run.
ReadyIsQueued ==
    \A s \in Schedees : ready[s] /\ ~active[s] =>
        \/ s \in rq
        \/ \E c \in CPUs : At(c) \in {"switch", "ltproc"} /\ cur[c] = s

\* While a CPU leaves prev, prev is queued if it is ready.
PrevIsQueued ==
    \A c \in CPUs :
        At(c) \in Leaving \cup {"deact"} /\ ready[prev[c]] => prev[c] \in rq

\* While a lightweight thread runs, a prev that may be resumed is queued.
Between == {"ltproc", "lt", "ltdone", "repick"}
PrevStays ==
    \A c \in CPUs :
        At(c) \in Between /\ (preempt[c] \/ waiting[prev[c]] = "no")
            => prev[c] \in rq

\* rq_nr_ready is the size of the queue.
Counted == IsFiniteSet(rq) /\ nr = Cardinality(rq)

\* The inductive invariant behind NrReadyExact, InRqTest and WakingIsServed.
QInv ==
    /\ WakingIsUnready
    /\ ActiveHasCpu
    /\ ReadyIsQueued
    /\ PrevIsQueued
    /\ PrevStays
    /\ Counted

USE DEF SchedulePcs, WakePcs, IrqOn, Switched
USE DEF flagVars, prioVars, queueVars, pokeVars, threadVars, frameVars, wakeVars
USE DEF Typed, TypeOK, FrameOK, Schedees, At, InSchedule, Stack, Leaving, Between

-----------------------------------------------------------------------------
(* Steps that leave the queue alone.                                         *)

\* A step that neither switches stacks nor enters or leaves __schedule(), as
\* far as the queue is concerned.
FramesKept ==
    \A c \in CPUs :
        /\ Stack(c)' = Stack(c)
        /\ At(c) = "deact" => At(c)' = "deact" /\ prev'[c] = prev[c]
        /\ At(c) \in {"switch", "ltproc"} => At(c)' = At(c) /\ cur'[c] = cur[c]
        /\ At(c)' \in Leaving \cup {"deact"} =>
              /\ At(c) \in Leaving \cup {"deact"}
              /\ At(c)' \in Between => At(c) \in Between
              /\ prev'[c] = prev[c]
              /\ preempt'[c] = preempt[c]

\* waiting is only set to TW_SMP_WAKING for an unready schedee, and cleared
\* for a prev only if that is queued.
WaitingKept ==
    /\ \A s \in Schedees :
          waiting'[s] = "waking" => waiting[s] = "waking" \/ ~ready[s]
    /\ \A c \in CPUs :
          At(c) \in Between /\ waiting'[prev[c]] = "no" =>
              waiting[prev[c]] = "no" \/ prev[c] \in rq

\* Such a step keeps the invariant if it changes no flag and no queue.
LEMMA QuietStep ==
  ASSUME QInv, FramesKept, WaitingKept, UNCHANGED <<ready, active, rq, nr>>
  PROVE  QInv'
  <1>1. WakingIsUnready' BY DEF QInv, WakingIsUnready, WaitingKept
  <1>2. ActiveHasCpu'
    BY DEF QInv, ActiveHasCpu, FramesKept
  <1>3. ReadyIsQueued'
    BY DEF QInv, ReadyIsQueued, FramesKept
  <1>4. PrevIsQueued'
    BY DEF QInv, PrevIsQueued, FramesKept
  <1>5. PrevStays'
    BY DEF QInv, PrevStays, FramesKept, WaitingKept
  <1>6. Counted' BY DEF QInv, Counted
  <1> QED BY <1>1, <1>2, <1>3, <1>4, <1>5, <1>6 DEF QInv

\* A step that moves no CPU into, within or out of __schedule().
SameFrames ==
    /\ \A c \in CPUs : At(c)' = At(c)
    /\ UNCHANGED <<cur, prev, preempt>>

\* Then every CPU keeps its frame.
LEMMA SameFramesKept ==
  ASSUME SameFrames
  PROVE  FramesKept
  BY DEF SameFrames, FramesKept

\* sched_wakeup(), interrupts and what a thread does outside schedule() all
\* leave the frames of __schedule() alone.
LEMMA OutsideSchedule ==
  ASSUME Typed, NEW c \in CPUs,
         \/ ThreadStep(c) \/ WakeStart(c) \/ WakeStep(c)
         \/ IrqResched(c) \/ IrqTick(c)
  PROVE  SameFrames
  <1>1. ASSUME \/ SchedLock(c) \/ SchedUnlock(c) \/ WaitPrepare(c)
               \/ WaitCheck(c) \/ WaitCleanup(c) \/ ThreadYield(c)
               \/ ExitFinish(c) \/ ExitWait(c) \/ IrqResched(c) \/ IrqTick(c)
        PROVE  UNCHANGED <<pc, ret, cur, prev, preempt>>
    BY <1>1 DEF SchedLock, SchedUnlock, WaitPrepare, WaitCheck, WaitCleanup,
       ThreadYield, ExitFinish, ExitWait, IrqResched, IrqTick
  <1>2. ASSUME NEW s, Terminate(c, s)
        PROVE  UNCHANGED <<pc, ret, cur, prev, preempt>>
    BY <1>2 DEF Terminate
  <1>3. ASSUME NEW s, NEW new, ChangePriority(c, s, new)
        PROVE  UNCHANGED <<pc, ret, cur, prev, preempt>>
    BY <1>3 DEF ChangePriority
  <1>4. ASSUME UNCHANGED <<pc, ret, cur, prev, preempt>> PROVE SameFrames
    BY <1>4 DEF SameFrames
  <1>5. ASSUME NEW s, LockSchedee(c, s), pc[c] \in IrqOn,
               UNCHANGED <<cur, prev, preempt>>
        PROVE  SameFrames
    BY <1>5 DEF SameFrames, LockSchedee
  <1>6. ASSUME NEW s, \/ ExitWakeJoining(c, s) \/ ThreadWakeup(c, s)
                      \/ LThreadWakeup(c, s)
                      \/ \E e \in BOOLEAN : IrqWakeup(c, s, e)
        PROVE  SameFrames
    BY <1>5, <1>6 DEF ExitWakeJoining, ThreadWakeup, LThreadWakeup, IrqWakeup,
       IrqEnter, Works, RunsWorker
  <1>7. ASSUME NEW s, Signal(c, s) PROVE SameFrames
    <2>1. CASE ready[s] BY <1>7, <2>1, <1>4 DEF Signal
    <2>2. CASE ~ready[s] BY <1>7, <2>2, <1>5 DEF Signal, Works, RunsWorker
    <2> QED BY <2>1, <2>2
  <1>8. ASSUME WakeStep(c) PROVE SameFrames
    BY <1>8 DEF SameFrames, WakeStep, WakeFinished, WakeWaiting, WakeReady,
       WakeInactive, WakeActive, WakeUnlock, Goto
  <1> QED BY <1>1, <1>2, <1>3, <1>4, <1>6, <1>7, <1>8 DEF ThreadStep, WakeStart

\* A CPU that runs a thread under sched_lock(), or a lightweight thread, knows
\* that no other CPU is inside __schedule().
LEMMA OwnerAlone ==
  ASSUME IInv, NEW c \in CPUs, InSchedule(c) \/ (At(c) = "run" /\ held[cur[c]])
  PROVE  \A d \in CPUs \ {c} : ~InSchedule(d)
  BY DEF IInv, LockInv, BklPromise

\* sched_change_priority() only files again what is queued.
LEMMA QueueChangePriority ==
  ASSUME IInv, QInv, "bare" \notin Setters, NEW c \in CPUs, NEW s \in Tunable,
         NEW new \in Levels, ChangePriority(c, s, new)
  PROVE  rq' = rq
  <1>1. s \in Schedees BY OptionAssumption
  <1>2. \A d \in CPUs : At(d) \notin {"switch", "ltproc"}
    BY OwnerAlone DEF ChangePriority, Works, RunsWorker
  <1>3. InRq(s) => s \in rq BY <1>1, <1>2 DEF QInv, ReadyIsQueued, InRq
  <1> QED BY <1>3 DEF ChangePriority

\* What a thread does between two calls of schedule(), thread_terminate()
\* aside, leaves the queue as it is.
LEMMA QueueThreadStep ==
  ASSUME IInv, QInv, "bare" \notin Setters, NEW c \in CPUs, ThreadStep(c),
         \A s \in Terminable : ~Terminate(c, s)
  PROVE  QInv'
  <1>1. FramesKept BY OutsideSchedule, SameFramesKept DEF IInv
  <1>2. ASSUME \/ SchedLock(c) \/ SchedUnlock(c) \/ WaitCheck(c)
               \/ ThreadYield(c) \/ ExitFinish(c)
               \/ \E s \in Workers : ExitWakeJoining(c, s)
        PROVE  UNCHANGED <<ready, active, waiting, rq, nr>>
    BY <1>2 DEF SchedLock, SchedUnlock, WaitCheck, ThreadYield, ExitFinish,
       ExitWakeJoining
  <1>3. ASSUME NEW s \in Tunable, NEW new \in Levels, ChangePriority(c, s, new)
        PROVE  UNCHANGED <<ready, active, waiting, rq, nr>>
    BY <1>3, QueueChangePriority DEF ChangePriority
  <1>4. ASSUME UNCHANGED <<ready, active, waiting, rq, nr>> PROVE QInv'
    BY <1>1, <1>4, QuietStep DEF WaitingKept
  <1>5. ASSUME WaitPrepare(c) \/ WaitCleanup(c) \/ ExitWait(c) PROVE QInv'
    <2>1. cur[c] \in Threads /\ At(c) = "run"
      BY <1>5 DEF WaitPrepare, WaitCleanup, ExitWait, RunsWorker, Workers
    <2>2. PICK w \in {"yes", "no"} : waiting' = [waiting EXCEPT ![cur[c]] = w]
      BY <1>5 DEF WaitPrepare, WaitCleanup, ExitWait
    <2>3. \A d \in CPUs : At(d) \in Between => prev[d] # cur[c]
      BY <2>1, SMTT(40) DEF IInv, StackInv, OneCpuPerThread
    <2>4. WaitingKept BY <2>1, <2>2, <2>3 DEF IInv, WaitingKept
    <2>5. UNCHANGED <<ready, active, rq, nr>>
      BY <1>5 DEF WaitPrepare, WaitCleanup, ExitWait
    <2> QED BY <1>1, <2>4, <2>5, QuietStep
  <1> QED BY <1>2, <1>3, <1>4, <1>5 DEF ThreadStep

\* thread_terminate() takes the schedee out of the queue if it is there: with
\* sched_lock() held, `ready && !active' says so exactly.
LEMMA QueueTerminate ==
  ASSUME IInv, QInv, NEW c \in CPUs, NEW s \in Schedees, Terminate(c, s),
         SameFrames
  PROVE  QInv'
  <1>1. /\ At(c) = "run" /\ held[cur[c]]
        /\ ready' = [ready EXCEPT ![s] = FALSE]
        /\ active' = [active EXCEPT ![s] = FALSE]
        /\ rq' = IF InRq(s) THEN rq \ {s} ELSE rq
        /\ nr' = IF InRq(s) THEN nr - 1 ELSE nr
        /\ \A t \in Schedees : waiting'[t] = "waking" => waiting[t] = "waking"
    BY DEF Terminate, Works, RunsWorker, IInv
  <1> HIDE DEF Terminate
  <1>2. \A d \in CPUs : ~InSchedule(d) BY <1>1, OwnerAlone
  <1>3. InRq(s) => s \in rq BY <1>2 DEF QInv, ReadyIsQueued, InRq
  <1>4. WakingIsUnready' BY <1>1 DEF QInv, WakingIsUnready, IInv
  <1>5. ActiveHasCpu' BY <1>1, SameFramesKept, SMTT(40) DEF QInv, ActiveHasCpu, FramesKept, IInv
  <1>6. ReadyIsQueued' BY <1>1, <1>2 DEF QInv, ReadyIsQueued, IInv
  <1>7. PrevIsQueued' /\ PrevStays'
    BY <1>2 DEF SameFrames, PrevIsQueued, PrevStays
  <1>8. Counted' BY <1>1, <1>3, FS_RemoveElement DEF QInv, Counted
  <1> QED BY <1>4, <1>5, <1>6, <1>7, <1>8 DEF QInv

\* __sched_wakeup_waiting() files what was not queued.
LEMMA QueueFile ==
  ASSUME IInv, QInv, NEW c, NEW s \in Schedees, s \notin rq,
         WakeupWaiting(c, s), UNCHANGED active, FramesKept
  PROVE  QInv'
  <1>1. /\ rq' = rq \cup {s}
        /\ nr' = nr + 1
        /\ ready' = [ready EXCEPT ![s] = TRUE]
        /\ waiting' = [waiting EXCEPT ![s] = "no"]
    BY DEF WakeupWaiting
  <1> HIDE DEF WakeupWaiting
  <1>2. WakingIsUnready' BY <1>1 DEF QInv, WakingIsUnready, IInv
  <1>3. ActiveHasCpu' BY DEF QInv, ActiveHasCpu, FramesKept
  <1>4. ReadyIsQueued' BY <1>1, SMTT(40) DEF QInv, ReadyIsQueued, FramesKept, IInv
  <1>5. PrevIsQueued' BY <1>1 DEF QInv, PrevIsQueued, FramesKept, IInv
  <1>6. PrevStays' BY <1>1 DEF QInv, PrevStays, FramesKept, IInv
  <1>7. Counted' BY <1>1, FS_AddElement DEF QInv, Counted
  <1> QED BY <1>2, <1>3, <1>4, <1>5, <1>6, <1>7 DEF QInv

\* sched_wakeup() files its target only if that is not queued: the target was
\* seen unready under its lock.
LEMMA QueueWakeStep ==
  ASSUME IInv, QInv, NEW c \in CPUs, WakeStep(c)
  PROVE  QInv'
  <1> DEFINE s == tgt[c]
  <1>1. FramesKept BY OutsideSchedule, SameFramesKept DEF IInv
  <1>2. s \in Schedees
    BY DEF WakeStep, WakeFinished, WakeWaiting, WakeReady, WakeInactive,
       WakeActive, WakeUnlock, IInv
  <1>3. CASE WakeFinished(c) \/ WakeWaiting(c) \/ WakeUnlock(c)
    <2>1. UNCHANGED <<ready, active, waiting, rq, nr>>
      BY <1>3 DEF WakeFinished, WakeWaiting, WakeUnlock
    <2> QED BY <1>1, <2>1, QuietStep DEF WaitingKept
  <1>4. CASE WakeReady(c)
    <2>1. UNCHANGED <<ready, active, rq, nr>> BY <1>4 DEF WakeReady
    <2>2. \/ waiting' = waiting
          \/ ready[s] /\ waiting' = [waiting EXCEPT ![s] = "no"]
      BY <1>4, Zenon DEF WakeReady
    <2>3. WaitingKept
      <3>1. CASE waiting' = waiting BY <3>1 DEF WaitingKept
      <3>2. CASE ready[s] /\ waiting' = [waiting EXCEPT ![s] = "no"]
        <4>1. \A d \in CPUs : At(d) \in Between /\ prev[d] = s => s \in rq
          BY <3>2 DEF QInv, PrevIsQueued
        <4> QED BY <1>2, <3>2, <4>1 DEF WaitingKept, IInv
      <3> QED BY <2>2, <3>1, <3>2
    <2> QED BY <1>1, <2>1, <2>3, QuietStep
  <1>5. CASE WakeInactive(c)
    <2>1. UNCHANGED <<ready, active, rq, nr>> BY <1>5 DEF WakeInactive
    <2>2. ~ready[s] /\ waiting' = [waiting EXCEPT ![s] = "waking"]
      BY <1>5 DEF WakeInactive, IInv, LockInv, WakerSawUnready
    <2>3. WaitingKept BY <1>2, <2>2 DEF WaitingKept, IInv
    <2> QED BY <1>1, <2>1, <2>3, QuietStep
  <1>6. CASE WakeActive(c)
    <2>1. CASE WakeupWaiting(c, s)
      <3>1. ~ready[s] /\ Sound(s)
        BY <1>6 DEF WakeActive, IInv, LockInv, WakerSawUnready, Sound, Waker
      <3>2. s \notin rq BY <3>1 DEF IInv, FlagInv, QueuedIsReady
      <3>3. UNCHANGED active BY <1>6 DEF WakeActive
      <3> QED BY <1>1, <1>2, <2>1, <3>2, <3>3, QueueFile
    <2>2. CASE UNCHANGED <<ready, active, waiting, rq, nr>>
      BY <1>1, <2>2, QuietStep DEF WaitingKept
    <2> QED BY <1>6, <2>1, <2>2 DEF WakeActive
  <1> QED BY <1>3, <1>4, <1>5, <1>6 DEF WakeStep

\* Entering sched_wakeup(), interrupts and the way into and out of
\* __schedule() leave the queue alone.
LEMMA QueueQuiet ==
  ASSUME IInv, QInv, NEW c \in CPUs,
         \/ WakeStart(c) \/ IrqResched(c) \/ IrqTick(c) \/ Preempt(c)
         \/ Schedule(c) \/ LThreadLook(c) \/ LThreadReturn(c) \/ Release(c) \/ Leave(c)
  PROVE  QInv'
  <1>1. UNCHANGED <<ready, active, waiting, rq, nr>>
    BY DEF WakeStart, ThreadWakeup, LThreadWakeup, IrqWakeup, Signal,
       IrqResched, IrqTick, Preempt, Schedule, LThreadLook, LThreadReturn, Release, Leave
  <1>2. ASSUME Preempt(c) \/ Schedule(c) PROVE FramesKept
    BY <1>2 DEF Preempt, Schedule, EnterSchedule, Goto, RunsWorker, FramesKept,
       IInv
  <1>3. ASSUME LThreadLook(c) \/ LThreadReturn(c) \/ Release(c) \/ Leave(c) PROVE FramesKept
    BY <1>3 DEF LThreadLook, LThreadReturn, Release, Leave, Goto, FramesKept, IInv
  <1>4. FramesKept
    BY <1>2, <1>3, OutsideSchedule, SameFramesKept DEF IInv
  <1> QED BY <1>1, <1>4, QuietStep DEF WaitingKept

\* A lightweight thread that starts was already taken out of the queue.
LEMMA QueueLThreadStart ==
  ASSUME IInv, QInv, NEW c \in CPUs, LThreadStart(c)
  PROVE  QInv'
  <1>1. /\ pc[c] = "ltproc"
        /\ ready' = [ready EXCEPT ![cur[c]] = FALSE]
        /\ waiting' = [waiting EXCEPT ![cur[c]] = "yes"]
        /\ pc' = [pc EXCEPT ![c] = "lt"]
        /\ UNCHANGED <<active, rq, nr, cur, prev, preempt, ret>>
    BY DEF LThreadStart, Goto
  <1> HIDE DEF LThreadStart
  <1>2. cur[c] \in LThreads BY <1>1 DEF IInv
  <1>3. WakingIsUnready' BY <1>1, <1>2 DEF QInv, WakingIsUnready, IInv
  <1>4. ActiveHasCpu' BY <1>1 DEF QInv, ActiveHasCpu, IInv
  <1>5. ReadyIsQueued' BY <1>1, <1>2 DEF QInv, ReadyIsQueued, IInv
  <1>6. PrevIsQueued' BY <1>1, <1>2 DEF QInv, PrevIsQueued, IInv
  <1>7. PrevStays' BY <1>1, <1>2, ThreadsAssumption DEF QInv, PrevStays, IInv
  <1>8. Counted' BY <1>1 DEF QInv, Counted
  <1> QED BY <1>3, <1>4, <1>5, <1>6, <1>7, <1>8 DEF QInv

\* sched_start_switch() marks next active as its stack takes over.
LEMMA QueueActivate ==
  ASSUME IInv, QInv, NEW c \in CPUs, Activate(c)
  PROVE  QInv'
  <1>1. /\ pc[c] = "switch"
        /\ active' = [active EXCEPT ![cur[c]] = TRUE]
        /\ pc' = [pc EXCEPT ![c] = "deact"]
        /\ UNCHANGED <<ready, waiting, rq, nr, cur, prev, preempt, ret>>
    BY DEF Activate, Goto
  <1> HIDE DEF Activate
  <1>2. WakingIsUnready' BY <1>1 DEF QInv, WakingIsUnready
  <1>3. ActiveHasCpu' BY <1>1 DEF QInv, ActiveHasCpu, IInv
  <1>4. ReadyIsQueued' BY <1>1 DEF QInv, ReadyIsQueued, IInv
  <1>5. PrevIsQueued' BY <1>1 DEF QInv, PrevIsQueued, IInv
  <1>6. PrevStays' BY <1>1 DEF QInv, PrevStays, IInv
  <1>7. Counted' BY <1>1 DEF QInv, Counted
  <1> QED BY <1>2, <1>3, <1>4, <1>5, <1>6, <1>7 DEF QInv

\* sched_finish_switch() clears active of a prev that is queued if ready.
LEMMA QueueDeactivate ==
  ASSUME IInv, QInv, NEW c \in CPUs, Deactivate(c)
  PROVE  QInv'
  <1>1. /\ pc[c] = "deact"
        /\ active' = [active EXCEPT ![prev[c]] = FALSE]
        /\ pc' = [pc EXCEPT ![c] = "deact2"]
        /\ UNCHANGED <<ready, waiting, rq, nr, cur, prev, preempt, ret>>
    BY DEF Deactivate, Goto
  <1> HIDE DEF Deactivate
  <1>2. WakingIsUnready' BY <1>1 DEF QInv, WakingIsUnready
  <1>3. ActiveHasCpu' BY <1>1 DEF QInv, ActiveHasCpu, IInv
  <1>4. ReadyIsQueued' BY <1>1 DEF QInv, ReadyIsQueued, PrevIsQueued, IInv
  <1>5. PrevIsQueued' BY <1>1 DEF QInv, PrevIsQueued, IInv
  <1>6. PrevStays' BY <1>1 DEF QInv, PrevStays, IInv
  <1>7. Counted' BY <1>1 DEF QInv, Counted
  <1> QED BY <1>2, <1>3, <1>4, <1>5, <1>6, <1>7 DEF QInv

\* A wakeup left to the end of the switch files a prev that is not queued.
LEMMA QueueDeferredWakeup ==
  ASSUME IInv, QInv, NEW c \in CPUs, DeferredWakeup(c)
  PROVE  QInv'
  <1> DEFINE s == prev[c]
  <1>1. /\ pc[c] = "deact2"
        /\ pc' = [pc EXCEPT ![c] = "release"]
        /\ UNCHANGED <<active, cur, prev, preempt, ret>>
    BY DEF DeferredWakeup, Goto
  <1>2. FramesKept BY <1>1 DEF FramesKept, IInv
  <1>3. CASE /\ waiting[s] = "waking" /\ ~finished[s]
             /\ WakeupWaiting(c, s)
    <2>1. s \in Schedees BY <1>1 DEF IInv
    <2>2. ~ready[s] BY <1>3, <2>1 DEF QInv, WakingIsUnready
    <2>3. s \notin rq BY <1>3, <2>2 DEF IInv, FlagInv, QueuedIsReady, Sound
    <2> QED BY <1>1, <1>2, <1>3, <2>1, <2>3, QueueFile
  <1>4. CASE UNCHANGED <<ready, waiting, rq, nr>>
    BY <1>1, <1>2, <1>4, QuietStep DEF WaitingKept
  <1> QED BY <1>3, <1>4 DEF DeferredWakeup

\* A turn of __schedule() takes out of the queue what is in it, and leaves
\* prev there if prev may be resumed.
LEMMA QueuePick ==
  ASSUME IInv, QInv, NEW c \in CPUs, Pick(c)
  PROVE  QInv'
  <1> DEFINE p == prev[c]
             first == pc[c] = "pick"
             q == IF first /\ ~GoesToSleep(c) THEN rq \cup {p} ELSE rq
  <1>1. PICK next \in Schedees :
            /\ rq' = q \ {next}
            /\ next \in q \/ (next = p /\ ~GoesToSleep(c))
            /\ cur' = [cur EXCEPT ![c] = next]
            /\ pc' = [pc EXCEPT ![c] =
                         IF next \in LThreads THEN "ltproc"
                         ELSE IF next = p THEN "leave" ELSE "switch"]
            /\ ready' = IF first /\ GoesToSleep(c)
                        THEN [ready EXCEPT ![p] = FALSE] ELSE ready
    BY PickEffect DEF IInv
  <1>2. /\ pc[c] \in {"pick", "repick"}
        /\ nr' = IF first /\ ~GoesToSleep(c) THEN nr ELSE nr - 1
        /\ UNCHANGED <<active, waiting, prev, preempt, ret>>
    BY DEF Pick
  <1> HIDE DEF Pick
  <1>3. p \in Threads /\ Stack(c) = p /\ InSchedule(c) BY <1>2 DEF IInv
  <1>4. \A d \in CPUs \ {c} : ~InSchedule(d) BY <1>3, OwnerAlone
  <1>5. first => p \notin rq
    BY <1>3 DEF IInv, StackInv, StackNotQueued
  <1>6. ~GoesToSleep(c) => p \in q
    BY <1>2 DEF QInv, PrevStays, GoesToSleep, IInv
  <1>7. next \in q BY <1>1, <1>6
  <1>8. ready[p] => active[p]
    BY <1>3 DEF IInv, FlagInv, StackIsActive
  <1>9. WakingIsUnready' BY <1>1, <1>2, <1>3 DEF QInv, WakingIsUnready, IInv
  <1>10. ActiveHasCpu'
    <2>1. \A d \in CPUs : Stack(d)' = Stack(d)
      BY <1>1, <1>2, <1>3, <1>4, ThreadsAssumption DEF IInv
    <2>2. \A d \in CPUs : At(d) # "deact" BY <1>2, <1>4
    <2> QED BY <1>2, <2>1, <2>2 DEF QInv, ActiveHasCpu
  <1>11. ReadyIsQueued'
    <2> SUFFICES ASSUME NEW s \in Schedees, ready'[s], ~active[s], s \notin rq'
                 PROVE  At(c)' \in {"switch", "ltproc"} /\ cur'[c] = s
      BY <1>2 DEF ReadyIsQueued
    <2>1. ready[s] BY <1>1, <1>3 DEF IInv
    <2>2. s \in rq BY <1>2, <1>4, <2>1 DEF QInv, ReadyIsQueued
    <2>3. s = next /\ s # p BY <1>1, <1>8, <2>1, <2>2
    <2> QED BY <1>1, <2>3 DEF IInv
  <1>12. PrevIsQueued'
    <2>1. ASSUME At(c)' \in Leaving \cup {"deact"}, ready'[p] PROVE p \in rq'
      <3>1. next # p BY <1>1, <1>3, <2>1, ThreadsAssumption DEF IInv
      <3>2. p \in q
        BY <1>1, <1>2, <1>3, <2>1 DEF QInv, PrevIsQueued, IInv
      <3> QED BY <1>1, <3>1, <3>2
    <2> QED BY <1>1, <1>2, <1>4, <2>1 DEF PrevIsQueued, IInv
  <1>13. PrevStays'
    <2>1. ASSUME At(c)' \in Between, ~GoesToSleep(c) PROVE p \in rq'
      BY <1>1, <1>3, <1>6, <2>1, ThreadsAssumption DEF IInv
    <2> QED BY <1>1, <1>2, <1>4, <2>1 DEF PrevStays, GoesToSleep, IInv
  <1>14. Counted'
    <2>1. /\ IsFiniteSet(q)
          /\ Cardinality(q) = IF first /\ ~GoesToSleep(c) THEN nr + 1 ELSE nr
      BY <1>5, FS_AddElement DEF QInv, Counted
    <2>2. IsFiniteSet(q \ {next}) /\ Cardinality(q \ {next}) = Cardinality(q) - 1
      BY <1>7, <2>1, FS_RemoveElement
    <2>3. nr \in Int BY DEF IInv
    <2> QED BY <1>1, <1>2, <2>1, <2>2, <2>3 DEF Counted
  <1> QED BY <1>9, <1>10, <1>11, <1>12, <1>13, <1>14 DEF QInv

\* Every step of the scheduler keeps the invariant of the queue.
LEMMA QueueNext ==
  ASSUME "bare" \notin Setters, IInv, QInv, [Next]_vars
  PROVE  QInv'
  <1>1. ASSUME NEW c \in CPUs, ThreadStep(c) PROVE QInv'
    <2>1. CASE \E s \in Terminable : Terminate(c, s)
      <3>1. Terminable \subseteq Schedees BY OptionAssumption DEF Workers
      <3>2. SameFrames BY <1>1, OutsideSchedule DEF IInv
      <3> QED BY <2>1, <3>1, <3>2, QueueTerminate
    <2>2. CASE \A s \in Terminable : ~Terminate(c, s)
      BY <1>1, <2>2, QueueThreadStep
    <2> QED BY <2>1, <2>2
  <1>2. ASSUME NEW c \in CPUs, ScheduleStep(c) PROVE QInv'
    BY <1>2, QueuePick, QueueLThreadStart, QueueActivate, QueueDeactivate,
       QueueDeferredWakeup, QueueQuiet DEF ScheduleStep
  <1>3. CASE UNCHANGED vars
    <2>1. FramesKept BY <1>3 DEF vars, FramesKept
    <2> QED BY <1>3, <2>1, QuietStep DEF vars, WaitingKept
  <1> QED BY <1>1, <1>2, <1>3, QueueWakeStep, QueueQuiet DEF Next

\* At the start every active thread is the idle thread of its CPU.
LEMMA QueueInit == Init => QInv
  <1> SUFFICES ASSUME Init PROVE QInv OBVIOUS
  <1>1. \A c \in CPUs : Stack(c) = Idle[c] /\ At(c) = "run" BY DEF Init
  <1>2. WakingIsUnready BY DEF Init, WakingIsUnready
  <1>3. ActiveHasCpu
    BY <1>1 DEF Init, ActiveHasCpu, Idles
  <1>4. ReadyIsQueued BY DEF Init, ReadyIsQueued
  <1>5. PrevIsQueued /\ PrevStays BY <1>1 DEF PrevIsQueued, PrevStays
  <1>6. Counted BY FS_EmptySet DEF Init, Counted
  <1> QED BY <1>2, <1>3, <1>4, <1>5, <1>6 DEF QInv

\* The invariant of the queue holds as long as no thread changes a priority
\* without sched_lock().
THEOREM QueueCorrect ==
  ASSUME "bare" \notin Setters
  PROVE  Spec => [](IInv /\ QInv)
  <1>1. Init => IInv /\ QInv BY SafeInit, QueueInit
  <1>2. IInv /\ QInv /\ [Next]_vars => (IInv /\ QInv)' BY SafeNext, QueueNext
  <1> QED BY <1>1, <1>2, PTL DEF Spec

\* rq_nr_ready always equals the number of queued schedees: no schedee is
\* filed twice by racing wakeups, nor taken out by a terminate that raced.
THEOREM NrReadyExactHolds ==
  ASSUME "bare" \notin Setters
  PROVE  Spec => []NrReadyExact
  <1>1. QInv => NrReadyExact BY DEF QInv, Counted, NrReadyExact
  <1> QED BY QueueCorrect, <1>1, PTL

\* `ready && !active' tells whether a live schedee is queued, at any moment at
\* which no CPU is inside __schedule().
THEOREM InRqTestHolds ==
  ASSUME "bare" \notin Setters
  PROVE  Spec => []InRqTest
  <1>1. ASSUME IInv, QInv PROVE InRqTest
    <2> SUFFICES ASSUME \A c \in CPUs : ~InSchedule(c),
                        NEW s \in Schedees, ~finished[s]
                 PROVE  (ready[s] /\ ~active[s]) <=> s \in rq
      BY DEF InRqTest
    <2>1. ready[s] /\ ~active[s] => s \in rq
      BY <1>1 DEF QInv, ReadyIsQueued
    <2>2. s \in rq => ready[s]
      BY <1>1 DEF IInv, FlagInv, QueuedIsReady, Sound
    <2>3. s \in rq => ~active[s]
      BY <1>1 DEF IInv, StackInv, StackNotQueued, QInv, ActiveHasCpu
    <2> QED BY <2>1, <2>2, <2>3
  <1>2. IInv /\ QInv => InRqTest BY <1>1
  <1> QED BY QueueCorrect, <1>2, PTL

-----------------------------------------------------------------------------
(* Deferred wakeups.                                                         *)

\* Where s stops being TW_SMP_WAKING, s becomes ready or is terminated.
ServedBy(s) ==
    waiting[s] = "waking" /\ waiting'[s] # "waking" /\ ~finished'[s] =>
        waiting'[s] = "no" /\ ready'[s]

\* A thread that prepares, gives up or cleans up a wait is ready, and so is
\* not TW_SMP_WAKING.
LEMMA ServedThreadStep ==
  ASSUME IInv, QInv, NEW c \in CPUs, ThreadStep(c), NEW s \in Schedees
  PROVE  ServedBy(s)
  <1>1. ASSUME \/ SchedLock(c) \/ SchedUnlock(c) \/ WaitCheck(c)
               \/ ThreadYield(c) \/ ExitFinish(c)
               \/ \E t \in Workers : ExitWakeJoining(c, t)
               \/ \E t \in Tunable, new \in Levels : ChangePriority(c, t, new)
        PROVE  UNCHANGED waiting
    BY <1>1 DEF SchedLock, SchedUnlock, WaitCheck, ThreadYield, ExitFinish,
       ExitWakeJoining, ChangePriority
  <1>2. ASSUME WaitPrepare(c) \/ WaitCleanup(c) \/ ExitWait(c)
        PROVE  ServedBy(s)
    <2>1. cur[c] \in Threads /\ At(c) = "run"
      BY <1>2 DEF WaitPrepare, WaitCleanup, ExitWait, RunsWorker, Workers
    <2>2. PICK w \in {"yes", "no"} : waiting' = [waiting EXCEPT ![cur[c]] = w]
      BY <1>2 DEF WaitPrepare, WaitCleanup, ExitWait
    <2>3. finished' = finished
      BY <1>2 DEF WaitPrepare, WaitCleanup, ExitWait
    <2>4. ~finished[cur[c]] => waiting[cur[c]] # "waking"
      BY <2>1 DEF IInv, FlagInv, CurrentIsReady, Settled, Sound, QInv,
         WakingIsUnready
    <2> QED BY <2>1, <2>2, <2>3, <2>4 DEF ServedBy, IInv
  <1>3. ASSUME NEW t \in Terminable, Terminate(c, t) PROVE ServedBy(s)
    <2>1. t \in Schedees BY OptionAssumption DEF Workers
    <2>2. /\ \A u \in Schedees : u # t => waiting'[u] = waiting[u]
          /\ finished'[t]
      BY <1>3, <2>1 DEF Terminate, IInv
    <2> QED BY <2>2 DEF ServedBy
  <1> QED BY <1>1, <1>2, <1>3 DEF ThreadStep, ServedBy

\* __sched_wakeup_waiting() clears TW_SMP_WAKING of what it makes ready.
LEMMA ServedFile ==
  ASSUME IInv, NEW c, NEW t \in Schedees, WakeupWaiting(c, t), NEW s \in Schedees
  PROVE  ServedBy(s)
  BY DEF WakeupWaiting, ServedBy, IInv

\* The other steps of sched_wakeup() clear waiting only of a ready target.
LEMMA ServedWakeStep ==
  ASSUME IInv, QInv, NEW c \in CPUs, WakeStep(c), NEW s \in Schedees
  PROVE  ServedBy(s)
  <1>1. tgt[c] \in Schedees
    BY DEF WakeStep, WakeFinished, WakeWaiting, WakeReady, WakeInactive,
       WakeActive, WakeUnlock, IInv
  <1>2. ASSUME WakeFinished(c) \/ WakeWaiting(c) \/ WakeUnlock(c)
        PROVE  UNCHANGED waiting
    BY <1>2 DEF WakeFinished, WakeWaiting, WakeUnlock
  <1>3. CASE WakeReady(c)
    <2>1. \/ waiting' = waiting
          \/ ready[tgt[c]] /\ waiting' = [waiting EXCEPT ![tgt[c]] = "no"]
      BY <1>3, Zenon DEF WakeReady
    <2>2. ready[tgt[c]] => waiting[tgt[c]] # "waking"
      BY <1>1 DEF QInv, WakingIsUnready
    <2> QED BY <1>1, <2>1, <2>2 DEF ServedBy, IInv
  <1>4. CASE WakeInactive(c)
    BY <1>1, <1>4 DEF WakeInactive, ServedBy, IInv
  <1>5. CASE WakeActive(c)
    <2>1. CASE WakeupWaiting(c, tgt[c]) BY <1>1, <2>1, ServedFile
    <2>2. CASE UNCHANGED waiting BY <2>2 DEF ServedBy
    <2> QED BY <1>5, <2>1, <2>2 DEF WakeActive
  <1> QED BY <1>2, <1>3, <1>4, <1>5 DEF WakeStep, ServedBy

\* Nor does __schedule() drop a deferred wakeup: the lightweight thread it
\* starts is ready.
LEMMA ServedScheduleStep ==
  ASSUME IInv, QInv, NEW c \in CPUs, ScheduleStep(c), NEW s \in Schedees
  PROVE  ServedBy(s)
  <1>1. ASSUME \/ Pick(c) \/ LThreadLook(c) \/ LThreadReturn(c) \/ Activate(c) \/ Deactivate(c)
               \/ Release(c) \/ Leave(c)
        PROVE  UNCHANGED waiting
    BY <1>1 DEF Pick, LThreadLook, LThreadReturn, Activate, Deactivate, Release, Leave
  <1>2. CASE DeferredWakeup(c)
    <2>1. prev[c] \in Schedees BY <1>2 DEF DeferredWakeup, IInv
    <2>2. CASE WakeupWaiting(c, prev[c]) BY <2>1, <2>2, ServedFile
    <2>3. CASE UNCHANGED waiting BY <2>3 DEF ServedBy
    <2> QED BY <1>2, <2>2, <2>3 DEF DeferredWakeup
  <1>3. CASE LThreadStart(c)
    <2>1. /\ pc[c] = "ltproc" /\ finished' = finished
          /\ waiting' = [waiting EXCEPT ![cur[c]] = "yes"]
      BY <1>3 DEF LThreadStart
    <2>2. cur[c] \in Schedees BY DEF IInv
    <2>3. ~finished[cur[c]] => waiting[cur[c]] # "waking"
      BY <2>1, <2>2 DEF IInv, FlagInv, ChosenIsReady, Sound, QInv,
         WakingIsUnready
    <2> QED BY <2>1, <2>2, <2>3 DEF ServedBy, IInv
  <1> QED BY <1>1, <1>2, <1>3 DEF ScheduleStep, ServedBy

\* A wakeup deferred to the end of a context switch is neither dropped nor
\* overwritten by the schedee, another waker or __schedule().
THEOREM WakingIsServedHolds ==
  ASSUME "bare" \notin Setters
  PROVE  Spec => WakingIsServed
  <1>1. ASSUME IInv, QInv, Next, NEW s \in Schedees PROVE ServedBy(s)
    <2>1. ASSUME NEW c \in CPUs,
                 \/ WakeStart(c) \/ IrqResched(c) \/ IrqTick(c) \/ Preempt(c)
                 \/ Schedule(c)
          PROVE  UNCHANGED waiting
      BY <2>1 DEF WakeStart, ThreadWakeup, LThreadWakeup, IrqWakeup, Signal,
         IrqResched, IrqTick, Preempt, Schedule
    <2> QED BY <1>1, <2>1, ServedThreadStep, ServedWakeStep,
          ServedScheduleStep DEF Next, ServedBy
  <1>2. IInv /\ QInv /\ [Next]_vars =>
          [\A s \in Schedees :
             waiting[s] = "waking" /\ waiting'[s] # "waking" /\ ~finished'[s] =>
                 waiting'[s] = "no" /\ ready'[s]]_vars
    BY <1>1 DEF ServedBy
  <1> QED BY QueueCorrect, <1>2, PTL DEF Spec, WakingIsServed

-----------------------------------------------------------------------------
(* Priorities.                                                               *)

\* sched_change_priority() under sched_lock() files again whatever live
\* schedee is queued, at its new priority.
LEMMA FiledChangePriority ==
  ASSUME IInv, QInv, InRqTest, FiledAtPriority, Setters \subseteq {"locked"},
         NEW c \in CPUs, NEW s \in Tunable, NEW new \in Levels,
         ChangePriority(c, s, new)
  PROVE  FiledAtPriority'
  <1>1. s \in Schedees BY OptionAssumption
  <1>2. \A d \in CPUs : ~InSchedule(d)
    BY OwnerAlone DEF ChangePriority, Works, RunsWorker
  <1>3. s \in rq /\ ~finished[s] => InRq(s) BY <1>1, <1>2 DEF InRqTest, InRq
  <1>4. InRq(s) => s \in rq BY <1>1, <1>2 DEF QInv, ReadyIsQueued, InRq
  <1>5. PICK bp \in NewPriorities(s, new) :
          /\ prio' = [prio EXCEPT ![s] = bp[2]]
          /\ rq' = IF InRq(s) THEN rq \cup {s} ELSE rq
          /\ runqPrio' = IF InRq(s)
                         THEN [runqPrio EXCEPT ![s] = [prio EXCEPT ![s] = bp[2]][s]]
                         ELSE runqPrio
          /\ finished' = finished
    BY DEF ChangePriority
  <1>6. [prio EXCEPT ![s] = bp[2]][s] = bp[2] BY <1>1 DEF IInv
  <1> QED BY <1>1, <1>3, <1>4, <1>5, <1>6 DEF FiledAtPriority, IInv

\* __sched_wakeup_waiting() files at the current priority.
LEMMA FiledFile ==
  ASSUME IInv, FiledAtPriority, NEW c, NEW s \in Schedees, WakeupWaiting(c, s),
         UNCHANGED <<prio, finished>>
  PROVE  FiledAtPriority'
  BY DEF WakeupWaiting, FiledAtPriority, IInv

\* So does __schedule() when it puts prev back.
LEMMA FiledPick ==
  ASSUME IInv, FiledAtPriority, NEW c \in CPUs, Pick(c)
  PROVE  FiledAtPriority'
  <1> DEFINE p == prev[c]
             files == pc[c] = "pick" /\ ~GoesToSleep(c)
             q == IF files THEN rq \cup {p} ELSE rq
  <1>1. rq' \subseteq q BY PickEffect DEF IInv
  <1>2. /\ runqPrio' = IF files THEN [runqPrio EXCEPT ![p] = prio[p]]
                                ELSE runqPrio
        /\ UNCHANGED <<prio, finished>>
    BY DEF Pick
  <1> QED BY <1>1, <1>2 DEF FiledAtPriority, IInv

\* Every queued live schedee is in the list of its current priority, as long
\* as priorities are changed under sched_lock() only.
THEOREM FiledAtPriorityHolds ==
  ASSUME Setters \subseteq {"locked"}
  PROVE  Spec => []FiledAtPriority
  <1>1. "bare" \notin Setters OBVIOUS
  <1>2. Init => FiledAtPriority BY DEF Init, FiledAtPriority
  <1>3. ASSUME IInv, QInv, InRqTest, FiledAtPriority, [Next]_vars
        PROVE  FiledAtPriority'
    <2>1. ASSUME NEW c \in CPUs,
                 \/ SchedLock(c) \/ SchedUnlock(c) \/ WaitPrepare(c)
                 \/ WaitCheck(c) \/ WaitCleanup(c) \/ ThreadYield(c)
                 \/ ExitWait(c) \/ \E s \in Workers : ExitWakeJoining(c, s)
                 \/ WakeStart(c) \/ IrqResched(c) \/ IrqTick(c) \/ Preempt(c)
                 \/ Schedule(c) \/ LThreadStart(c) \/ LThreadLook(c) \/ LThreadReturn(c)
                 \/ Activate(c) \/ Deactivate(c) \/ Release(c) \/ Leave(c)
          PROVE  UNCHANGED <<rq, runqPrio, prio, finished>>
      BY <2>1 DEF SchedLock, SchedUnlock, WaitPrepare, WaitCheck, WaitCleanup,
         ThreadYield, ExitWait, ExitWakeJoining, WakeStart, ThreadWakeup,
         LThreadWakeup, IrqWakeup, Signal, IrqResched, IrqTick, Preempt,
         Schedule, LThreadStart, LThreadLook, LThreadReturn, Activate, Deactivate, Release,
         Leave
    <2>2. ASSUME UNCHANGED <<rq, runqPrio, prio, finished>>
          PROVE  FiledAtPriority'
      BY <1>3, <2>2 DEF FiledAtPriority
    <2>3. ASSUME NEW c \in CPUs, NEW s \in Schedees,
                 Terminate(c, s) \/ ExitFinish(c)
          PROVE  FiledAtPriority'
      BY <1>3, <2>3 DEF Terminate, ExitFinish, FiledAtPriority, IInv
    <2>4. ASSUME NEW c \in CPUs, WakeStep(c) PROVE FiledAtPriority'
      <3>1. CASE WakeActive(c) /\ WakeupWaiting(c, tgt[c])
        <4>1. tgt[c] \in Schedees BY <1>3, <3>1 DEF WakeActive, IInv
        <4> QED BY <1>3, <3>1, <4>1, FiledFile DEF WakeActive
      <3>2. CASE UNCHANGED <<rq, runqPrio, prio, finished>> BY <2>2, <3>2
      <3> QED BY <2>4, <3>1, <3>2 DEF WakeStep, WakeFinished, WakeWaiting,
            WakeReady, WakeInactive, WakeActive, WakeUnlock
    <2>5. ASSUME NEW c \in CPUs, DeferredWakeup(c) PROVE FiledAtPriority'
      <3>1. CASE WakeupWaiting(c, prev[c])
        <4>1. prev[c] \in Schedees BY <1>3, <2>5 DEF DeferredWakeup, IInv
        <4> QED BY <1>3, <2>5, <3>1, <4>1, FiledFile DEF DeferredWakeup
      <3>2. CASE UNCHANGED <<rq, runqPrio, prio, finished>> BY <2>2, <3>2
      <3> QED BY <2>5, <3>1, <3>2 DEF DeferredWakeup
    <2>6. ASSUME NEW c \in CPUs, ThreadStep(c) PROVE FiledAtPriority'
      <3>1. Terminable \subseteq Schedees BY OptionAssumption DEF Workers
      <3>2. CASE \E s \in Terminable : Terminate(c, s) BY <2>3, <3>1, <3>2
      <3>3. CASE ExitFinish(c)
        BY <1>3, <3>3 DEF ExitFinish, FiledAtPriority, IInv
      <3> QED BY <1>3, <2>1, <2>2, <2>6, <3>2, <3>3, FiledChangePriority
          DEF ThreadStep
    <2>7. CASE UNCHANGED vars BY <2>2, <2>7 DEF vars
    <2> QED BY <1>3, <2>1, <2>2, <2>4, <2>5, <2>6, <2>7, FiledPick
        DEF Next, ScheduleStep
  <1>4. IInv /\ QInv /\ InRqTest /\ FiledAtPriority /\ [Next]_vars
          => FiledAtPriority'
    BY <1>3
  <1>5. Spec => [](IInv /\ QInv) BY <1>1, QueueCorrect
  <1>6. Spec => []InRqTest BY <1>1, InRqTestHolds
  <1> QED BY <1>2, <1>4, <1>5, <1>6, PTL DEF Spec

-----------------------------------------------------------------------------
(* There is always somebody to run.                                          *)

\* Nobody waits on, wakes or terminates an idle thread.
IdleAwake ==
    /\ \A c \in CPUs : waiting[Idle[c]] = "no"
    /\ \A c \in CPUs : pc[c] \in WakePcs => tgt[c] \notin Idles

\* A CPU runs and leaves only what may run there.
RunsHere ==
    \A c \in CPUs :
        /\ c \in Affinity[cur[c]]
        /\ InSchedule(c) => c \in Affinity[prev[c]]

\* The loop of __schedule() only turns again after a lightweight thread.
RepickLt == \A c \in CPUs : At(c) = "repick" => cur[c] \in LThreads

\* The idle thread of a CPU is queued unless the CPU runs it.
IdleAtHand == \A c \in CPUs : Idle[c] \in rq \/ cur[c] = Idle[c]

\* The inductive invariant behind NextExists.
HInv == IdleAwake /\ RunsHere /\ RepickLt /\ IdleAtHand

\* An idle thread is a thread that may run on its own CPU only.
LEMMA IdleIsThere ==
  /\ Idles \subseteq Threads
  /\ \A c \in CPUs : Idle[c] \in Idles /\ Affinity[Idle[c]] = {c}
  BY IdleAssumption, AffinityAssumption DEF Idles

\* A step outside __schedule() that takes no idle thread out of the queue and
\* leaves the wait flags of the idle threads alone.
LEMMA HereOutside ==
  ASSUME HInv, SameFrames, Idles \cap rq \subseteq rq',
         \A c \in CPUs : waiting'[Idle[c]] = waiting[Idle[c]],
         \A c \in CPUs : pc'[c] \in WakePcs => tgt'[c] \notin Idles
  PROVE  HInv'
  <1>1. IdleAwake' BY DEF HInv, IdleAwake
  <1>2. RunsHere' BY DEF HInv, RunsHere, SameFrames
  <1>3. RepickLt' BY DEF HInv, RepickLt, SameFrames
  <1>4. IdleAtHand' BY IdleIsThere DEF HInv, IdleAtHand, SameFrames
  <1> QED BY <1>1, <1>2, <1>3, <1>4 DEF HInv

\* What runs, waits, exits or is terminated is a worker, never an idle thread.
LEMMA HereThreadStep ==
  ASSUME Typed, HInv, NEW c \in CPUs, ThreadStep(c)
  PROVE  HInv'
  <1>1. SameFrames BY OutsideSchedule
  <1>2. Idles \cap rq \subseteq rq'
    <2>1. ASSUME NEW s \in Terminable, Terminate(c, s)
          PROVE  Idles \cap rq \subseteq rq'
      BY <2>1, OptionAssumption DEF Terminate, Workers
    <2>2. ASSUME \/ SchedLock(c) \/ SchedUnlock(c) \/ WaitPrepare(c)
                 \/ WaitCheck(c) \/ WaitCleanup(c) \/ ThreadYield(c)
                 \/ ExitFinish(c) \/ ExitWait(c)
                 \/ \E s \in Workers : ExitWakeJoining(c, s)
          PROVE  rq' = rq
      BY <2>2 DEF SchedLock, SchedUnlock, WaitPrepare, WaitCheck, WaitCleanup,
         ThreadYield, ExitFinish, ExitWait, ExitWakeJoining
    <2>3. ASSUME NEW s \in Tunable, NEW new \in Levels, ChangePriority(c, s, new)
          PROVE  rq \subseteq rq'
      BY <2>3 DEF ChangePriority
    <2> QED BY <2>1, <2>2, <2>3 DEF ThreadStep
  <1>3. \A d \in CPUs : waiting'[Idle[d]] = waiting[Idle[d]]
    <2>1. ASSUME NEW s \in Terminable, Terminate(c, s)
          PROVE  \A d \in CPUs : waiting'[Idle[d]] = waiting[Idle[d]]
      BY <2>1, OptionAssumption, IdleIsThere DEF Terminate, Workers
    <2>2. ASSUME WaitPrepare(c) \/ WaitCleanup(c) \/ ExitWait(c)
          PROVE  \A d \in CPUs : waiting'[Idle[d]] = waiting[Idle[d]]
      BY <2>2, IdleIsThere DEF WaitPrepare, WaitCleanup, ExitWait, RunsWorker,
         Workers
    <2>3. ASSUME \/ SchedLock(c) \/ SchedUnlock(c) \/ WaitCheck(c)
                 \/ ThreadYield(c) \/ ExitFinish(c)
                 \/ \E s \in Workers : ExitWakeJoining(c, s)
                 \/ \E s \in Tunable, new \in Levels : ChangePriority(c, s, new)
          PROVE  waiting' = waiting
      BY <2>3 DEF SchedLock, SchedUnlock, WaitCheck, ThreadYield, ExitFinish,
         ExitWakeJoining, ChangePriority
    <2> QED BY <2>1, <2>2, <2>3 DEF ThreadStep
  <1>4. \A d \in CPUs : pc'[d] \in WakePcs => tgt'[d] \notin Idles
    <2>1. ASSUME NEW s \in Workers, ExitWakeJoining(c, s)
          PROVE  \A d \in CPUs : pc'[d] \in WakePcs => tgt'[d] \notin Idles
      BY <2>1 DEF ExitWakeJoining, LockSchedee, Workers, HInv, IdleAwake
    <2>2. ASSUME \/ SchedLock(c) \/ SchedUnlock(c) \/ WaitPrepare(c)
                 \/ WaitCheck(c) \/ WaitCleanup(c) \/ ThreadYield(c)
                 \/ ExitFinish(c) \/ ExitWait(c)
                 \/ \E s \in Terminable : Terminate(c, s)
                 \/ \E s \in Tunable, new \in Levels : ChangePriority(c, s, new)
          PROVE  UNCHANGED <<pc, tgt>>
      BY <2>2 DEF SchedLock, SchedUnlock, WaitPrepare, WaitCheck, WaitCleanup,
         ThreadYield, ExitFinish, ExitWait, Terminate, ChangePriority
    <2> QED BY <2>1, <2>2 DEF ThreadStep, HInv, IdleAwake
  <1> QED BY <1>1, <1>2, <1>3, <1>4, HereOutside

\* sched_wakeup() is applied to workers and lightweight threads only.
LEMMA HereWake ==
  ASSUME Typed, HInv, NEW c \in CPUs,
         WakeStart(c) \/ WakeStep(c) \/ IrqResched(c) \/ IrqTick(c)
  PROVE  HInv'
  <1>1. SameFrames BY OutsideSchedule
  <1>2. CASE WakeStart(c) \/ IrqResched(c) \/ IrqTick(c)
    <2>1. UNCHANGED <<waiting, rq>>
      BY <1>2 DEF WakeStart, ThreadWakeup, LThreadWakeup, IrqWakeup, Signal,
         IrqResched, IrqTick
    <2>2. ASSUME NEW s \in Schedees \ Idles, LockSchedee(c, s)
          PROVE  \A d \in CPUs : pc'[d] \in WakePcs => tgt'[d] \notin Idles
      BY <2>2 DEF LockSchedee, HInv, IdleAwake
    <2>3. \/ \E s \in Schedees \ Idles : LockSchedee(c, s)
          \/ UNCHANGED <<pc, tgt>>
      BY <1>2 DEF WakeStart, ThreadWakeup, LThreadWakeup, IrqWakeup, Signal,
         IrqResched, IrqTick
    <2>4. \A d \in CPUs : pc'[d] \in WakePcs => tgt'[d] \notin Idles
      BY <2>2, <2>3 DEF HInv, IdleAwake
    <2> QED BY <1>1, <2>1, <2>4, HereOutside
  <1>3. CASE WakeStep(c)
    <2>1. tgt[c] \notin Idles
      BY <1>3 DEF WakeStep, WakeFinished, WakeWaiting, WakeReady, WakeInactive,
         WakeActive, WakeUnlock, HInv, IdleAwake
    <2>2. rq \subseteq rq'
      BY <1>3, Zenon DEF WakeStep, WakeFinished, WakeWaiting, WakeReady, WakeInactive,
         WakeActive, WakeUnlock, WakeupWaiting
    <2>3. \/ waiting' = waiting
          \/ \E w : waiting' = [waiting EXCEPT ![tgt[c]] = w]
      BY <1>3 DEF WakeStep, WakeFinished, WakeWaiting, WakeReady, WakeInactive,
         WakeActive, WakeUnlock, WakeupWaiting
    <2>4. \A d \in CPUs : waiting'[Idle[d]] = waiting[Idle[d]]
      BY <2>1, <2>3, IdleIsThere
    <2>5. \A d \in CPUs : pc'[d] \in WakePcs => tgt'[d] \notin Idles
      BY <1>3, <2>1 DEF WakeStep, WakeFinished, WakeWaiting, WakeReady,
         WakeInactive, WakeActive, WakeUnlock, Goto, HInv, IdleAwake
    <2> QED BY <1>1, <2>2, <2>4, <2>5, HereOutside
  <1> QED BY <1>2, <1>3

\* runq_get_next() respects affinity, so __schedule() chooses what may run on
\* this CPU, be it the head of the queue or prev.
LEMMA PickAffine ==
  ASSUME Typed, NEW c \in CPUs, c \in Affinity[prev[c]], Pick(c)
  PROVE  c \in Affinity[cur'[c]]
  <1> DEFINE p == prev[c]
             files == pc[c] = "pick" /\ ~GoesToSleep(c)
             q == IF files THEN rq \cup {p} ELSE rq
             level == IF files THEN [runqPrio EXCEPT ![p] = prio[p]] ELSE runqPrio
  <1>1. PICK head \in GetNext(c, q, level) :
          \/ cur' = [cur EXCEPT ![c] = p]
          \/ cur' = [cur EXCEPT ![c] = head]
    BY DEF Pick
  <1>2. c \in Affinity[head] BY <1>1 DEF GetNext
  <1> HIDE DEF p
  <1>3. cur'[c] \in {p, head} BY <1>1
  <1> QED BY <1>2, <1>3 DEF p

\* A turn of __schedule() files the idle thread before it takes another one,
\* and takes no other CPU's idle thread.
LEMMA HerePick ==
  ASSUME Typed, HInv, NEW c \in CPUs, Pick(c)
  PROVE  HInv'
  <1> DEFINE p == prev[c]
             first == pc[c] = "pick"
             q == IF first /\ ~GoesToSleep(c) THEN rq \cup {p} ELSE rq
  <1>1. PICK next \in Schedees :
            /\ rq' = q \ {next}
            /\ next \in q \/ (next = p /\ ~GoesToSleep(c))
            /\ cur' = [cur EXCEPT ![c] = next]
            /\ pc' = [pc EXCEPT ![c] =
                         IF next \in LThreads THEN "ltproc"
                         ELSE IF next = p THEN "leave" ELSE "switch"]
    BY PickEffect
  <1>2. /\ pc[c] \in {"pick", "repick"}
        /\ UNCHANGED <<waiting, prev, tgt, ret>>
    BY DEF Pick
  <1>3. c \in Affinity[p] BY <1>2 DEF HInv, RunsHere
  <1>4. c \in Affinity[next] BY <1>1, <1>3, PickAffine
  <1> HIDE DEF Pick
  <1>5. IdleAwake' BY <1>1, <1>2 DEF HInv, IdleAwake
  <1>6. RunsHere'
    BY <1>1, <1>2, <1>3, <1>4 DEF HInv, RunsHere
  <1>7. RepickLt' BY <1>1, <1>2 DEF HInv, RepickLt
  <1>8. IdleAtHand'
    <2>1. Idle[c] \in q
      <3>1. CASE first
        <4>1. cur[c] = p BY <3>1
        <4>2. p = Idle[c] => ~GoesToSleep(c)
          BY DEF HInv, IdleAwake, GoesToSleep
        <4> QED BY <3>1, <4>1, <4>2 DEF HInv, IdleAtHand
      <3>2. CASE ~first
        BY <1>2, <3>2, IdleIsThere, ThreadsAssumption
        DEF HInv, IdleAtHand, RepickLt
      <3> QED BY <3>1, <3>2
    <2>2. \A d \in CPUs \ {c} : next # Idle[d]
      <3>1. ASSUME NEW d \in CPUs \ {c}, next = Idle[d] PROVE FALSE
        <4>1. Affinity[next] = {d} BY <3>1, IdleIsThere
        <4> QED BY <1>4, <4>1
      <3> QED BY <3>1
    <2>3. \A d \in CPUs \ {c} : cur'[d] = cur[d] BY <1>1
    <2>4. cur'[c] = next BY <1>1
    <2> QED BY <1>1, <2>1, <2>2, <2>3, <2>4 DEF HInv, IdleAtHand
  <1> QED BY <1>5, <1>6, <1>7, <1>8 DEF HInv

\* The way into __schedule(), the context switch and the way out keep it too.
LEMMA HereSchedule ==
  ASSUME Typed, HInv, NEW c \in CPUs,
         \/ Preempt(c) \/ Schedule(c) \/ LThreadStart(c) \/ LThreadLook(c) \/ LThreadReturn(c)
         \/ Activate(c) \/ Deactivate(c) \/ DeferredWakeup(c) \/ Release(c)
         \/ Leave(c)
  PROVE  HInv'
  <1>1. cur' = cur /\ rq \subseteq rq'
    BY Zenon DEF Preempt, Schedule, LThreadStart, LThreadLook, LThreadReturn, Activate,
       Deactivate, DeferredWakeup, WakeupWaiting, Release, Leave
  <1>2. IdleAwake'
    <2>1. CASE LThreadStart(c)
      BY <2>1, IdleIsThere, ThreadsAssumption, SMTT(40)
      DEF LThreadStart, Goto, HInv, IdleAwake
    <2>2. CASE DeferredWakeup(c)
      <3>1. \/ waiting' = waiting
            \/ /\ waiting[prev[c]] = "waking"
               /\ waiting' = [waiting EXCEPT ![prev[c]] = "no"]
        BY <2>2, Zenon DEF DeferredWakeup, WakeupWaiting
      <3>2. \A d \in CPUs : waiting'[Idle[d]] = "no"
        BY <3>1, IdleIsThere DEF HInv, IdleAwake
      <3> QED BY <2>2, <3>2 DEF DeferredWakeup, Goto, HInv, IdleAwake
    <2>3. CASE \/ Preempt(c) \/ Schedule(c) \/ LThreadLook(c) \/ LThreadReturn(c) \/ Activate(c)
               \/ Deactivate(c) \/ Release(c) \/ Leave(c)
      BY <2>3 DEF Preempt, Schedule, EnterSchedule, LThreadLook, LThreadReturn, Activate,
         Deactivate, Release, Leave, Goto, HInv, IdleAwake
    <2> QED BY <2>1, <2>2, <2>3
  <1>3. RunsHere'
    <2>1. CASE Preempt(c) \/ Schedule(c)
      BY <1>1, <2>1 DEF Preempt, Schedule, EnterSchedule, Goto, HInv, RunsHere
    <2>2. CASE \/ LThreadStart(c) \/ LThreadLook(c) \/ LThreadReturn(c) \/ Activate(c)
               \/ Deactivate(c) \/ DeferredWakeup(c) \/ Release(c)
      BY <1>1, <2>2 DEF LThreadStart, LThreadLook, LThreadReturn, Activate, Deactivate,
         DeferredWakeup, Release, Goto, HInv, RunsHere
    <2>3. CASE Leave(c)
      BY <1>1, <2>3 DEF Leave, Goto, HInv, RunsHere
    <2> QED BY <2>1, <2>2, <2>3
  <1>4. RepickLt'
    BY <1>1 DEF Preempt, Schedule, EnterSchedule, LThreadStart, LThreadLook, LThreadReturn,
       Activate, Deactivate, DeferredWakeup, Release, Leave, Goto, HInv, RepickLt
  <1>5. IdleAtHand' BY <1>1 DEF HInv, IdleAtHand
  <1> QED BY <1>2, <1>3, <1>4, <1>5 DEF HInv

\* Every step keeps the invariant, whoever wakes and sets priorities.
LEMMA HereNext ==
  ASSUME Typed, HInv, [Next]_vars
  PROVE  HInv'
  <1>1. CASE UNCHANGED vars
    BY <1>1 DEF vars, HInv, IdleAwake, RunsHere, RepickLt, IdleAtHand
  <1> QED BY <1>1, HereThreadStep, HereWake, HerePick, HereSchedule
      DEF Next, ScheduleStep

\* The idle threads are where they belong in every reachable state.
LEMMA HereHolds == Spec => [](Typed /\ HInv)
  <1>1. Init => Typed /\ HInv
    <2> SUFFICES ASSUME Init PROVE HInv BY TInit
    <2>1. \A c \in CPUs : cur[c] = Idle[c] /\ pc[c] = "run" BY DEF Init
    <2>2. \A c \in CPUs : waiting[Idle[c]] = "no"
      BY IdleIsThere DEF Init
    <2> QED BY <2>1, <2>2, IdleIsThere
        DEF HInv, IdleAwake, RunsHere, RepickLt, IdleAtHand
  <1>2. Typed /\ HInv /\ [Next]_vars => (Typed /\ HInv)'
    BY TypedNext, HereNext
  <1> QED BY <1>1, <1>2, PTL DEF Spec

\* The assertion in __schedule() never fails: the idle thread of the CPU is
\* queued whenever somebody else has given the CPU up.
THEOREM NextExistsHolds == Spec => []NextExists
  <1>1. ASSUME Typed, HInv PROVE NextExists
    <2> SUFFICES ASSUME NEW c \in CPUs, pc[c] \in {"pick", "repick"},
                        pc[c] = "pick" => ~preempt[c] /\ waiting[prev[c]] # "no"
                 PROVE  \E s \in rq : c \in Affinity[s]
      BY DEF NextExists
    <2>1. cur[c] # Idle[c]
      BY <1>1, IdleIsThere, ThreadsAssumption DEF HInv, IdleAwake, RepickLt
    <2> QED BY <1>1, <2>1, IdleIsThere DEF HInv, IdleAtHand
  <1>2. Typed /\ HInv => NextExists BY <1>1
  <1> QED BY <1>2, HereHolds, PTL

-----------------------------------------------------------------------------
(* No wakeup is lost.                                                        *)

\* A live schedee that does not wait is ready.
AwakeIsReady ==
    \A s \in Schedees : waiting[s] = "no" /\ ~finished[s] => ready[s]

\* A waker that has yet to look at active, or the CPU that still switches away
\* from s, will see that s is TW_SMP_WAKING.
Owed(s) ==
    \/ \E c \in CPUs : pc[c] = "wactive" /\ tgt[c] = s
    \/ \E c \in CPUs :
          prev[c] = s /\ At(c) \in Leaving \cup {"deact", "deact2"}
WakingIsOwed ==
    \A s \in Schedees : waiting[s] = "waking" /\ ~finished[s] => Owed(s)

\* Only schedule() puts a thread to sleep, and that from SCHED_WAIT or from
\* thread_exit().
SleepsInSchedule ==
    /\ \A c \in CPUs :
          At(c) = "pick" /\ ~preempt[c] => tpc[prev[c]] \in {"resumed", "dead"}
    /\ \A t \in Threads :
          ~ready[t] /\ ~finished[t] => tpc[t] \in {"fresh", "resumed"}
    /\ \A t \in Threads :
          tpc[t] \in {"exit", "exiting", "parting", "dead"} => finished[t]

\* The condition of s came true after s last looked at it.
Unserved(s) ==
    /\ event[s] /\ waiting[s] = "yes" /\ ~finished[s]
    /\ s \in Threads => tpc[s] \in {"fresh", "sleep", "resumed"}
    /\ s \in LThreads =>
          ~ready[s] /\ \A c \in CPUs : ~(At(c) = "lt" /\ cur[c] = s)

\* A waker of s has yet to set TW_SMP_WAKING or to clear waiting.
Called(s) ==
    \E c \in CPUs : pc[c] \in {"wfin", "wwait", "wready", "winact"} /\ tgt[c] = s

EventIsServed == \A s \in Schedees : Unserved(s) => Called(s)

\* The inductive invariant behind NoLostWakeup.
LInv == AwakeIsReady /\ WakingIsOwed /\ SleepsInSchedule /\ EventIsServed

\* What a CPU calls current is ready if it is alive.
LEMMA LiveIsReady ==
  ASSUME IInv, NEW c \in CPUs, At(c) \in Settled, ~finished[cur[c]]
  PROVE  ready[cur[c]]
  BY DEF IInv, FlagInv, CurrentIsReady, Sound

\* A step that touches neither a flag nor a frame nor a waker.
LEMMA LiveQuiet ==
  ASSUME LInv, SameFrames, UNCHANGED <<ready, waiting, finished, event, tpc, pc, tgt>>
  PROVE  LInv'
  BY DEF LInv, AwakeIsReady, WakingIsOwed, Owed, SleepsInSchedule,
     EventIsServed, Unserved, Called, SameFrames

\* sched_wait_prepare(): the thread has yet to look at its condition.
LEMMA LiveWaitPrepare ==
  ASSUME IInv, LInv, NEW c \in CPUs, WaitPrepare(c), SameFrames
  PROVE  LInv'
  <1>1. cur[c] \in Threads /\ At(c) = "run"
    BY DEF WaitPrepare, RunsWorker, Workers
  <1>2. /\ waiting' = [waiting EXCEPT ![cur[c]] = "yes"]
        /\ tpc' = [tpc EXCEPT ![cur[c]] = "check"]
        /\ UNCHANGED <<ready, finished, event, pc, tgt, prev, cur, preempt, ret>>
    BY DEF WaitPrepare
  <1>3. ~finished[cur[c]] => ready[cur[c]]
    BY <1>1, LiveIsReady DEF Settled
  <1>4. \A d \in CPUs : At(d) = "pick" => prev[d] # cur[c]
    BY <1>1 DEF IInv, StackInv, OneCpuPerThread
  <1> HIDE DEF WaitPrepare
  <1>5. AwakeIsReady' BY <1>1, <1>2 DEF LInv, AwakeIsReady, IInv
  <1>6. WakingIsOwed' BY <1>1, <1>2 DEF LInv, WakingIsOwed, Owed, IInv
  <1>7. SleepsInSchedule'
    <2>1. tpc[cur[c]] \in {"work", "resumed"} BY DEF WaitPrepare
    <2> QED BY <1>1, <1>2, <1>3, <1>4, <2>1 DEF LInv, SleepsInSchedule, IInv
  <1>8. EventIsServed'
    BY <1>1, <1>2, ThreadsAssumption
    DEF LInv, EventIsServed, Unserved, Called, IInv
  <1> QED BY <1>5, <1>6, <1>7, <1>8 DEF LInv

\* The thread only goes on to sleep if its condition is false.
LEMMA LiveWaitCheck ==
  ASSUME IInv, LInv, NEW c \in CPUs, WaitCheck(c), SameFrames
  PROVE  LInv'
  <1>1. cur[c] \in Threads /\ At(c) = "run"
    BY DEF WaitCheck, RunsWorker, Workers
  <1>2. PICK w \in {"cleanup", "sleep"} :
        /\ tpc' = [tpc EXCEPT ![cur[c]] = w]
        /\ w = "sleep" => ~event[cur[c]]
        /\ UNCHANGED <<ready, waiting, finished, event, pc, tgt, prev, cur,
                       preempt, ret>>
    BY DEF WaitCheck
  <1>3. ~finished[cur[c]] => ready[cur[c]]
    BY <1>1, LiveIsReady DEF Settled
  <1>4. \A d \in CPUs : At(d) = "pick" => prev[d] # cur[c]
    BY <1>1, SMTT(40) DEF IInv, StackInv, OneCpuPerThread
  <1> HIDE DEF WaitCheck
  <1>5. AwakeIsReady' /\ WakingIsOwed'
    BY <1>2 DEF LInv, AwakeIsReady, WakingIsOwed, Owed
  <1>6. SleepsInSchedule'
    BY <1>1, <1>2, <1>3, <1>4 DEF LInv, SleepsInSchedule, IInv
  <1>7. EventIsServed'
    BY <1>1, <1>2 DEF LInv, EventIsServed, Unserved, Called, IInv
  <1> QED BY <1>5, <1>6, <1>7 DEF LInv

\* sched_wait_cleanup(): the thread runs, so it is ready.
LEMMA LiveWaitCleanup ==
  ASSUME IInv, LInv, NEW c \in CPUs, WaitCleanup(c), SameFrames
  PROVE  LInv'
  <1>1. cur[c] \in Threads /\ At(c) = "run"
    BY DEF WaitCleanup, RunsWorker, Workers
  <1>2. /\ waiting' = [waiting EXCEPT ![cur[c]] = "no"]
        /\ tpc' = [tpc EXCEPT ![cur[c]] = "work"]
        /\ event' = [event EXCEPT ![cur[c]] = FALSE]
        /\ UNCHANGED <<ready, finished, pc, tgt, prev, cur, preempt, ret>>
    BY DEF WaitCleanup
  <1>3. ~finished[cur[c]] => ready[cur[c]]
    BY <1>1, LiveIsReady DEF Settled
  <1>4. \A d \in CPUs : At(d) = "pick" => prev[d] # cur[c]
    BY <1>1 DEF IInv, StackInv, OneCpuPerThread
  <1> HIDE DEF WaitCleanup
  <1>5. AwakeIsReady' BY <1>1, <1>2, <1>3 DEF LInv, AwakeIsReady, IInv
  <1>6. WakingIsOwed' BY <1>1, <1>2 DEF LInv, WakingIsOwed, Owed, IInv
  <1>7. SleepsInSchedule'
    BY <1>1, <1>2, <1>3, <1>4 DEF LInv, SleepsInSchedule, IInv
  <1>8. EventIsServed'
    BY <1>1, <1>2 DEF LInv, EventIsServed, Unserved, Called, IInv
  <1> QED BY <1>5, <1>6, <1>7, <1>8 DEF LInv

\* thread_exit(): a finished thread is owed nothing.
LEMMA LiveExit ==
  ASSUME IInv, LInv, NEW c \in CPUs, ExitFinish(c) \/ ExitWait(c), SameFrames
  PROVE  LInv'
  <1>1. cur[c] \in Threads /\ At(c) = "run"
    BY DEF ExitFinish, ExitWait, Works, RunsWorker, Workers
  <1>2. /\ \A s \in Schedees : s # cur[c] =>
              /\ waiting'[s] = waiting[s] /\ finished'[s] = finished[s]
        /\ \A t \in Threads : t # cur[c] => tpc'[t] = tpc[t]
        /\ tpc'[cur[c]] \in {"exit", "exiting"}
        /\ finished'[cur[c]]
        /\ UNCHANGED <<ready, event, pc, tgt, prev, cur, preempt, ret>>
    BY <1>1 DEF ExitFinish, ExitWait, IInv, LInv, SleepsInSchedule
  <1>3. \A d \in CPUs : At(d) = "pick" => prev[d] # cur[c]
    BY <1>1 DEF IInv, StackInv, OneCpuPerThread
  <1> HIDE DEF ExitFinish, ExitWait
  <1>4. AwakeIsReady' BY <1>1, <1>2 DEF LInv, AwakeIsReady
  <1>5. WakingIsOwed' BY <1>1, <1>2 DEF LInv, WakingIsOwed, Owed
  <1>6. SleepsInSchedule'
    BY <1>1, <1>2, <1>3, SMTT(40) DEF LInv, SleepsInSchedule, IInv
  <1>7. EventIsServed'
    BY <1>1, <1>2 DEF LInv, EventIsServed, Unserved, Called
  <1> QED BY <1>4, <1>5, <1>6, <1>7 DEF LInv

\* Nor is a terminated one.
LEMMA LiveTerminate ==
  ASSUME IInv, LInv, NEW c \in CPUs, NEW s \in Schedees, Terminate(c, s),
         SameFrames
  PROVE  LInv'
  <1>1. /\ \A t \in Schedees : t # s =>
              /\ waiting'[t] = waiting[t] /\ finished'[t] = finished[t]
              /\ ready'[t] = ready[t]
        /\ finished'[s]
        /\ UNCHANGED <<tpc, event, pc, tgt, prev, cur, preempt, ret>>
    BY DEF Terminate, IInv
  <1> HIDE DEF Terminate
  <1>2. AwakeIsReady' BY <1>1 DEF LInv, AwakeIsReady
  <1>3. WakingIsOwed' BY <1>1 DEF LInv, WakingIsOwed, Owed
  <1>4. SleepsInSchedule' BY <1>1 DEF LInv, SleepsInSchedule
  <1>5. EventIsServed' BY <1>1 DEF LInv, EventIsServed, Unserved, Called
  <1> QED BY <1>2, <1>3, <1>4, <1>5 DEF LInv

\* Whoever makes a condition true calls sched_wakeup() before anything else.
LEMMA LiveLock ==
  ASSUME IInv, LInv, SameFrames, NEW c \in CPUs, NEW s \in Schedees,
         LockSchedee(c, s), pc[c] \in IrqOn,
         \A t \in Schedees : t # s => event'[t] = event[t],
         \A t \in Threads : tpc'[t] # tpc[t] =>
             tpc[t] = "exiting" /\ tpc'[t] = "parting",
         UNCHANGED <<ready, waiting, finished>>
  PROVE  LInv'
  <1>1. /\ pc' = [pc EXCEPT ![c] = "wfin"]
        /\ tgt' = [tgt EXCEPT ![c] = s]
    BY DEF LockSchedee
  <1> HIDE DEF LockSchedee
  <1>2. AwakeIsReady' BY DEF LInv, AwakeIsReady
  <1>3. WakingIsOwed'
    <2>1. ASSUME NEW t, Owed(t) PROVE Owed(t)'
      BY <1>1, <2>1 DEF Owed, SameFrames, IInv
    <2> QED BY <2>1 DEF LInv, WakingIsOwed
  <1>4. SleepsInSchedule' BY DEF LInv, SleepsInSchedule, SameFrames, IInv
  <1>5. EventIsServed'
    <2>1. Called(s)' BY <1>1 DEF Called, IInv
    <2>2. ASSUME NEW t, Called(t) PROVE Called(t)'
      BY <1>1, <2>2 DEF Called, IInv
    <2>3. ASSUME NEW t \in Schedees, t # s, Unserved(t)' PROVE Unserved(t)
      BY <2>3, SMTT(40) DEF Unserved, SameFrames, IInv
    <2> QED BY <2>1, <2>2, <2>3 DEF LInv, EventIsServed
  <1> QED BY <1>2, <1>3, <1>4, <1>5 DEF LInv

\* So every start of a wakeup keeps the invariant.
LEMMA LiveWakeStart ==
  ASSUME IInv, LInv, NEW c \in CPUs,
         WakeStart(c) \/ \E s \in Workers : ExitWakeJoining(c, s)
  PROVE  LInv'
  <1>1. SameFrames BY OutsideSchedule DEF ThreadStep, IInv
  <1>2. ASSUME NEW s \in Schedees, \/ ThreadWakeup(c, s) \/ LThreadWakeup(c, s)
                                   \/ \E e \in BOOLEAN : IrqWakeup(c, s, e)
        PROVE  LInv'
    <2>1. /\ LockSchedee(c, s) /\ pc[c] \in IrqOn
          /\ UNCHANGED <<ready, waiting, finished, tpc>>
      BY <1>2 DEF ThreadWakeup, LThreadWakeup, IrqWakeup, Works, RunsWorker,
         IrqEnter
    <2>2. \A t \in Schedees : t # s => event'[t] = event[t]
      BY <1>2 DEF ThreadWakeup, LThreadWakeup, IrqWakeup, IInv
    <2> QED BY <1>1, <2>1, <2>2, LiveLock
  <1>3. ASSUME NEW s \in Schedees, Signal(c, s) PROVE LInv'
    <2>1. CASE ready[s] BY <1>1, <1>3, <2>1, LiveQuiet DEF Signal
    <2>2. CASE ~ready[s]
      BY <1>1, <1>3, <2>2, LiveLock DEF Signal, Works, RunsWorker
    <2> QED BY <2>1, <2>2
  <1>4. ASSUME NEW s \in Workers, ExitWakeJoining(c, s) PROVE LInv'
    <2>1. s \in Schedees BY DEF Workers
    <2>2. /\ LockSchedee(c, s) /\ pc[c] \in IrqOn
          /\ UNCHANGED <<ready, waiting, finished>>
          /\ \A t \in Schedees : t # s => event'[t] = event[t]
          /\ \A t \in Threads : tpc'[t] # tpc[t] =>
                tpc[t] = "exiting" /\ tpc'[t] = "parting"
      BY <1>4 DEF ExitWakeJoining, RunsWorker, IInv
    <2> QED BY <1>1, <2>1, <2>2, LiveLock
  <1> QED BY <1>2, <1>3, <1>4 DEF WakeStart

\* The waker passes the obligation on: it clears waiting of a ready target, or
\* sets TW_SMP_WAKING, and then files the target or leaves it to the CPU that
\* is still on its stack.
LEMMA LiveWakeStep ==
  ASSUME IInv, QInv, LInv, NEW c \in CPUs, WakeStep(c)
  PROVE  LInv'
  <1>1. SameFrames BY OutsideSchedule DEF IInv
  <1>2. PICK s \in Schedees : s = tgt[c]
    BY DEF WakeStep, WakeFinished, WakeWaiting, WakeReady, WakeInactive,
       WakeActive, WakeUnlock, IInv
  <1>3. UNCHANGED <<finished, event, tpc>>
    BY DEF WakeStep, WakeFinished, WakeWaiting, WakeReady, WakeInactive,
       WakeActive, WakeUnlock
  <1>4. /\ \A d \in CPUs \ {c} : pc'[d] = pc[d] /\ tgt'[d] = tgt[d]
        /\ pc[c] # "wunlock" => tgt'[c] = s
    BY <1>2 DEF WakeStep, WakeFinished, WakeWaiting, WakeReady, WakeInactive,
       WakeActive, WakeUnlock, Goto, IInv
  <1>5. ASSUME pc[c] # "wactive", NEW t, Owed(t) PROVE Owed(t)'
    BY <1>1, <1>4, <1>5 DEF Owed, SameFrames
  <1>6. ASSUME NEW t, t # s, Called(t) PROVE Called(t)'
    BY <1>2, <1>4, <1>6 DEF Called
  <1>7. ASSUME UNCHANGED <<ready, waiting>>,
               pc[c] = "wactive" => active[s] /\ ~ready[s],
               Unserved(s) /\ Called(s) => Called(s)'
        PROVE  LInv'
    <2> UNCHANGED <<ready, waiting>> BY <1>7
    <2>1. AwakeIsReady' BY <1>3 DEF LInv, AwakeIsReady
    <2>2. WakingIsOwed'
      <3>1. CASE pc[c] # "wactive"
        BY <1>3, <1>5, <1>7, <3>1 DEF LInv, WakingIsOwed
      <3>2. CASE pc[c] = "wactive"
        <4>1. Sound(s) BY <1>2, <3>2 DEF Sound, Waker
        <4>2. PICK d \in CPUs : Stack(d) = s \/ (At(d) = "deact" /\ prev[d] = s)
          BY <1>2, <1>7, <3>2 DEF QInv, ActiveHasCpu
        <4>3. prev[d] = s /\ At(d) \in Leaving \cup {"deact"}
          BY <1>7, <3>2, <4>1, <4>2 DEF IInv, FlagInv, CurrentIsReady, Settled
        <4>4. Owed(s)' BY <1>1, <4>3 DEF Owed, SameFrames
        <4>5. ASSUME NEW t, t # s, Owed(t) PROVE Owed(t)'
          BY <1>1, <1>2, <1>4, <4>5 DEF Owed, SameFrames
        <4> QED BY <1>3, <1>7, <4>4, <4>5 DEF LInv, WakingIsOwed
      <3> QED BY <3>1, <3>2
    <2>3. SleepsInSchedule' BY <1>1, <1>3 DEF LInv, SleepsInSchedule, SameFrames
    <2>4. EventIsServed'
      <3>1. ASSUME NEW t \in Schedees, Unserved(t)' PROVE Unserved(t)
        BY <1>1, <1>3, <3>1 DEF Unserved, SameFrames
      <3> QED BY <1>6, <1>7, <3>1 DEF LInv, EventIsServed
    <2> QED BY <2>1, <2>2, <2>3, <2>4 DEF LInv
  <1>8. CASE WakeFinished(c) \/ WakeWaiting(c) \/ WakeUnlock(c)
    <2>1. UNCHANGED <<ready, waiting>> /\ pc[c] # "wactive"
      BY <1>8 DEF WakeFinished, WakeWaiting, WakeUnlock
    <2>2. Unserved(s) /\ Called(s) => Called(s)'
      <3>1. CASE WakeUnlock(c)
        BY <1>4, <3>1 DEF WakeUnlock, Called
      <3>2. CASE WakeFinished(c)
        BY <1>2, <3>2 DEF WakeFinished, Goto, Unserved, Called, IInv
      <3>3. CASE WakeWaiting(c)
        BY <1>2, <3>3 DEF WakeWaiting, Goto, Unserved, Called, IInv
      <3> QED BY <1>8, <3>1, <3>2, <3>3
    <2> QED BY <1>7, <2>1, <2>2
  <1>9. CASE WakeReady(c)
    <2>1. CASE ready[s]
      <3>1. /\ waiting' = [waiting EXCEPT ![s] = "no"]
            /\ UNCHANGED ready /\ pc[c] # "wactive"
        BY <1>2, <1>9, <2>1 DEF WakeReady
      <3>2. AwakeIsReady' BY <1>2, <1>3, <2>1, <3>1 DEF LInv, AwakeIsReady, IInv
      <3>3. WakingIsOwed'
        BY <1>2, <1>3, <1>5, <3>1 DEF LInv, WakingIsOwed, IInv
      <3>4. SleepsInSchedule'
        BY <1>1, <1>3, <3>1 DEF LInv, SleepsInSchedule, SameFrames
      <3>5. ASSUME NEW t \in Schedees, Unserved(t)' PROVE Unserved(t) /\ t # s
        BY <1>1, <1>2, <1>3, <3>1, <3>5 DEF Unserved, SameFrames, IInv
      <3>6. EventIsServed' BY <1>6, <3>5 DEF LInv, EventIsServed
      <3> QED BY <3>2, <3>3, <3>4, <3>6 DEF LInv
    <2>2. CASE ~ready[s]
      <3>1. pc[c] = "wready" /\ pc'[c] = "winact" /\ UNCHANGED <<ready, waiting>>
        BY <1>2, <1>9, <2>2 DEF WakeReady, Goto, IInv
      <3>2. Called(s)' BY <1>4, <3>1 DEF Called
      <3> QED BY <1>7, <3>1, <3>2
    <2> QED BY <2>1, <2>2
  <1>10. CASE WakeInactive(c)
    <2>1. /\ waiting' = [waiting EXCEPT ![s] = "waking"]
          /\ UNCHANGED ready /\ pc[c] = "winact" /\ pc'[c] = "wactive"
      BY <1>2, <1>10 DEF WakeInactive, Goto, IInv
    <2>2. AwakeIsReady' BY <1>2, <1>3, <2>1 DEF LInv, AwakeIsReady, IInv
    <2>3. Owed(s)' BY <1>4, <2>1 DEF Owed
    <2>4. WakingIsOwed'
      BY <1>2, <1>3, <1>5, <2>1, <2>3 DEF LInv, WakingIsOwed, IInv
    <2>5. SleepsInSchedule'
      BY <1>1, <1>3, <2>1 DEF LInv, SleepsInSchedule, SameFrames
    <2>6. ASSUME NEW t \in Schedees, Unserved(t)' PROVE Unserved(t) /\ t # s
      BY <1>1, <1>2, <1>3, <2>1, <2>6 DEF Unserved, SameFrames, IInv
    <2>7. EventIsServed' BY <1>6, <2>6 DEF LInv, EventIsServed
    <2> QED BY <2>2, <2>4, <2>5, <2>7 DEF LInv
  <1>11. CASE WakeActive(c)
    <2>1. CASE WakeupWaiting(c, s)
      <3>1. /\ waiting' = [waiting EXCEPT ![s] = "no"]
            /\ ready' = [ready EXCEPT ![s] = TRUE]
        BY <2>1 DEF WakeupWaiting
      <3>2. AwakeIsReady' BY <1>2, <1>3, <3>1 DEF LInv, AwakeIsReady, IInv
      <3>3. ASSUME NEW t, t # s, Owed(t) PROVE Owed(t)'
        BY <1>1, <1>2, <1>4, <3>3 DEF Owed, SameFrames
      <3>4. WakingIsOwed'
        BY <1>2, <1>3, <3>1, <3>3 DEF LInv, WakingIsOwed, IInv
      <3>5. SleepsInSchedule'
        BY <1>1, <1>2, <1>3, <3>1 DEF LInv, SleepsInSchedule, SameFrames, IInv
      <3>6. ASSUME NEW t \in Schedees, Unserved(t)' PROVE Unserved(t) /\ t # s
        BY <1>1, <1>2, <1>3, <3>1, <3>6 DEF Unserved, SameFrames, IInv
      <3>7. EventIsServed' BY <1>6, <3>6 DEF LInv, EventIsServed
      <3> QED BY <3>2, <3>4, <3>5, <3>7 DEF LInv
    <2>2. CASE active[s] /\ UNCHANGED <<ready, waiting>>
      <3>1. pc[c] = "wactive" BY <1>11 DEF WakeActive
      <3>2. ~ready[s] BY <1>2, <3>1 DEF IInv, LockInv, WakerSawUnready
      <3>3. Called(s) => Called(s)' BY <1>4, <3>1 DEF Called
      <3> QED BY <1>7, <2>2, <3>2, <3>3
    <2> QED BY <1>2, <1>11, <2>1, <2>2 DEF WakeActive
  <1> QED BY <1>8, <1>9, <1>10, <1>11 DEF WakeStep

\* A turn of __schedule() puts to sleep only a thread that is parked in
\* SCHED_WAIT or has exited, and never resumes a prev that is TW_SMP_WAKING.
LEMMA LivePick ==
  ASSUME IInv, QInv, LInv, NEW c \in CPUs, Pick(c)
  PROVE  LInv'
  <1> DEFINE first == pc[c] = "pick"
  <1>0. PICK p \in Threads : p = prev[c]
    BY DEF Pick, IInv
  <1>1. PICK next \in Schedees :
            /\ next \in rq \/ (next = p /\ ~GoesToSleep(c))
            /\ cur' = [cur EXCEPT ![c] = next]
            /\ pc' = [pc EXCEPT ![c] =
                         IF next \in LThreads THEN "ltproc"
                         ELSE IF next = p THEN "leave" ELSE "switch"]
            /\ ready' = IF first /\ GoesToSleep(c)
                        THEN [ready EXCEPT ![p] = FALSE] ELSE ready
    BY <1>0, PickEffect DEF IInv
  <1>2. /\ pc[c] \in {"pick", "repick"}
        /\ UNCHANGED <<waiting, finished, prev, preempt, tpc, event, tgt, ret>>
    BY DEF Pick
  <1> HIDE DEF Pick
  <1>3. first /\ GoesToSleep(c) =>
          /\ waiting[p] # "no"
          /\ ~finished[p] => tpc[p] \in {"fresh", "resumed"}
    BY <1>0 DEF GoesToSleep, LInv, SleepsInSchedule
  <1>4. \A s \in Schedees : s # p => ready'[s] = ready[s] BY <1>0, <1>1 DEF IInv
  <1>5. AwakeIsReady' BY <1>0, <1>1, <1>2, <1>3 DEF LInv, AwakeIsReady, IInv
  <1>6. WakingIsOwed'
    <2>1. ASSUME pc[c] = "repick", waiting[p] = "waking", ~finished[p]
          PROVE  next # p
      <3>1. ~ready[p] BY <1>0, <2>1 DEF QInv, WakingIsUnready
      <3>2. p \notin rq BY <2>1, <3>1 DEF IInv, FlagInv, QueuedIsReady, Sound
      <3>3. GoesToSleep(c)
        BY <1>0, <2>1, <3>1 DEF IInv, FlagInv, PrevIsReady, Sound, GoesToSleep
      <3> QED BY <1>1, <3>2, <3>3
    <2>2. ASSUME NEW s \in Schedees, waiting[s] = "waking", ~finished[s]
          PROVE  Owed(s)'
      <3>1. CASE \E d \in CPUs : pc[d] = "wactive" /\ tgt[d] = s
        <4>1. PICK d \in CPUs : pc[d] = "wactive" /\ tgt[d] = s BY <3>1
        <4>2. d # c BY <1>2, <4>1
        <4>3. pc'[d] = "wactive" /\ tgt'[d] = s BY <1>1, <1>2, <4>1, <4>2 DEF IInv
        <4> QED BY <4>3 DEF Owed
      <3>2. CASE \E d \in CPUs :
                    prev[d] = s /\ At(d) \in Leaving \cup {"deact", "deact2"}
        <4>1. PICK d \in CPUs :
                 prev[d] = s /\ At(d) \in Leaving \cup {"deact", "deact2"}
          BY <3>2
        <4>2. CASE d # c
          <5>1. prev'[d] = s /\ At(d)' = At(d) BY <1>1, <1>2, <4>1, <4>2 DEF IInv
          <5> QED BY <4>1, <5>1 DEF Owed
        <4>3. CASE d = c
          <5>1. pc[c] = "repick" /\ s = p BY <1>0, <1>2, <4>1, <4>3
          <5>2. next # p BY <2>1, <2>2, <5>1
          <5>3. At(c)' \in {"ltproc", "switch"} BY <1>1, <5>2 DEF IInv
          <5>4. prev'[c] = s BY <1>2, <4>1, <4>3
          <5> QED BY <5>3, <5>4 DEF Owed
        <4> QED BY <4>2, <4>3
      <3> QED BY <2>2, <3>1, <3>2 DEF LInv, WakingIsOwed, Owed
    <2> QED BY <1>2, <2>2 DEF WakingIsOwed
  <1>7. SleepsInSchedule'
    <2>1. \A d \in CPUs : At(d)' = "pick" => At(d) = "pick"
      BY <1>1, <1>2 DEF IInv
    <2>2. \A t \in Threads :
            ~ready'[t] /\ ~finished[t] => tpc[t] \in {"fresh", "resumed"}
      BY <1>1, <1>3, <1>4 DEF LInv, SleepsInSchedule
    <2> QED BY <1>2, <2>1, <2>2 DEF LInv, SleepsInSchedule
  <1>8. EventIsServed'
    <2>1. ASSUME NEW s \in Schedees, Unserved(s)' PROVE Unserved(s)
      <3>1. \A d \in CPUs : At(d) = "lt" => At(d)' = "lt" /\ cur'[d] = cur[d]
        BY <1>1, <1>2 DEF IInv
      <3>2. s \in LThreads => ready'[s] = ready[s] BY <1>4, ThreadsAssumption
      <3> QED BY <1>2, <2>1, <3>1, <3>2 DEF Unserved
    <2>2. ASSUME NEW s, Called(s) PROVE Called(s)'
      <3>1. PICK d \in CPUs :
              pc[d] \in {"wfin", "wwait", "wready", "winact"} /\ tgt[d] = s
        BY <2>2 DEF Called
      <3>2. pc'[d] = pc[d] /\ tgt'[d] = s BY <1>1, <1>2, <3>1 DEF IInv
      <3> QED BY <3>1, <3>2 DEF Called
    <2> QED BY <2>1, <2>2 DEF LInv, EventIsServed
  <1> QED BY <1>5, <1>6, <1>7, <1>8 DEF LInv

\* What CPU c does inside __schedule() concerns neither another CPU's frame
\* nor a waker.
LEMMA LiveOthers ==
  ASSUME Typed, NEW c \in CPUs, pc[c] \notin WakePcs, NEW l, l \notin WakePcs,
         pc' = [pc EXCEPT ![c] = l], UNCHANGED <<cur, tgt, ret>>,
         \A d \in CPUs \ {c} : prev'[d] = prev[d] /\ preempt'[d] = preempt[d]
  PROVE  /\ At(c)' = l
         /\ \A d \in CPUs \ {c} : At(d)' = At(d)
         /\ \A s : Called(s) => Called(s)'
         /\ \A s : Owed(s) =>
               Owed(s)' \/ (prev[c] = s /\ At(c) \in Leaving \cup {"deact", "deact2"})
  <1>1. At(c)' = l OBVIOUS
  <1>2. \A d \in CPUs \ {c} : At(d)' = At(d) OBVIOUS
  <1>3. ASSUME NEW s, Called(s) PROVE Called(s)'
    <2>1. PICK d \in CPUs :
            pc[d] \in {"wfin", "wwait", "wready", "winact"} /\ tgt[d] = s
      BY <1>3 DEF Called
    <2>2. pc'[d] = pc[d] /\ tgt'[d] = s BY <2>1
    <2> QED BY <2>1, <2>2 DEF Called
  <1>4. ASSUME NEW s, Owed(s),
               ~(prev[c] = s /\ At(c) \in Leaving \cup {"deact", "deact2"})
        PROVE  Owed(s)'
    <2>1. CASE \E d \in CPUs : pc[d] = "wactive" /\ tgt[d] = s
      <3>1. PICK d \in CPUs : pc[d] = "wactive" /\ tgt[d] = s BY <2>1
      <3>2. pc'[d] = "wactive" /\ tgt'[d] = s BY <3>1
      <3> QED BY <3>2 DEF Owed
    <2>2. CASE \E d \in CPUs :
                  prev[d] = s /\ At(d) \in Leaving \cup {"deact", "deact2"}
      <3>1. PICK d \in CPUs :
               prev[d] = s /\ At(d) \in Leaving \cup {"deact", "deact2"}
        BY <2>2
      <3>2. d # c BY <1>4, <3>1
      <3>3. prev'[d] = s /\ At(d)' = At(d) BY <1>2, <3>1, <3>2
      <3> QED BY <3>1, <3>3 DEF Owed
    <2> QED BY <1>4, <2>1, <2>2 DEF Owed
  <1> QED BY <1>1, <1>2, <1>3, <1>4

\* schedule() is called from SCHED_WAIT or thread_exit(); sched_preempt() says
\* so.
LEMMA LiveEnter ==
  ASSUME IInv, LInv, NEW c \in CPUs, Preempt(c) \/ Schedule(c)
  PROVE  LInv'
  <1>1. /\ pc[c] = "run"
        /\ pc' = [pc EXCEPT ![c] = "pick"]
        /\ prev' = [prev EXCEPT ![c] = cur[c]]
        /\ UNCHANGED <<ready, waiting, finished, event, cur, tgt, ret>>
    BY DEF Preempt, Schedule, EnterSchedule, Goto, RunsWorker
  <1>2. \E pre \in BOOLEAN : preempt' = [preempt EXCEPT ![c] = pre]
    BY DEF Preempt, Schedule, EnterSchedule
  <1>3. cur[c] \in Threads BY <1>1 DEF IInv
  <1>4. \/ tpc' = tpc /\ preempt'[c]
        \/ tpc[cur[c]] = "sleep" /\ tpc' = [tpc EXCEPT ![cur[c]] = "resumed"]
        \/ /\ tpc[cur[c]] \in {"exiting", "parting"}
           /\ tpc' = [tpc EXCEPT ![cur[c]] = "dead"]
    BY DEF Preempt, Schedule, EnterSchedule, IInv
  <1> HIDE DEF Preempt, Schedule
  <1>5. /\ At(c)' = "pick"
        /\ \A d \in CPUs \ {c} : At(d)' = At(d)
        /\ \A s : Called(s) => Called(s)'
        /\ \A s : Owed(s) => Owed(s)'
    BY <1>1, <1>2, LiveOthers, ZenonT(40) DEF IInv
  <1>6. \A d \in CPUs \ {c} : At(d) = "pick" => prev[d] # cur[c]
    BY <1>1 DEF IInv, StackInv, OneCpuPerThread
  <1>7. AwakeIsReady' BY <1>1 DEF LInv, AwakeIsReady
  <1>8. WakingIsOwed' BY <1>1, <1>5 DEF LInv, WakingIsOwed
  <1>9. SleepsInSchedule'
    <2>1. ASSUME NEW d \in CPUs, At(d)' = "pick", ~preempt'[d]
          PROVE  tpc'[prev'[d]] \in {"resumed", "dead"}
      <3>1. CASE d = c BY <1>1, <1>3, <1>4, <2>1, <3>1 DEF IInv
      <3>2. CASE d # c
        <4>1. At(d) = "pick" /\ ~preempt[d] /\ prev'[d] = prev[d]
          BY <1>1, <1>2, <1>5, <2>1, <3>2 DEF IInv
        <4>2. prev[d] \in Threads /\ prev[d] # cur[c] BY <1>6, <3>2, <4>1 DEF IInv
        <4>3. tpc'[prev[d]] = tpc[prev[d]] BY <1>4, <4>2 DEF IInv
        <4> QED BY <4>1, <4>3 DEF LInv, SleepsInSchedule
      <3> QED BY <3>1, <3>2
    <2>2. ~finished[cur[c]] => ready[cur[c]]
      BY <1>1, LiveIsReady DEF Settled
    <2>3. \A t \in Threads :
            ~ready[t] /\ ~finished[t] => tpc'[t] \in {"fresh", "resumed"}
      BY <1>3, <1>4, <2>2 DEF LInv, SleepsInSchedule, IInv
    <2>4. \A t \in Threads :
            tpc'[t] \in {"exit", "exiting", "parting", "dead"} => finished[t]
      BY <1>3, <1>4 DEF LInv, SleepsInSchedule, IInv
    <2> QED BY <1>1, <2>1, <2>3, <2>4 DEF SleepsInSchedule
  <1>10. EventIsServed'
    <2>1. ASSUME NEW s \in Schedees, Unserved(s)' PROVE Unserved(s)
      <3>1. \A d \in CPUs : At(d) = "lt" => At(d)' = "lt" BY <1>1, <1>5
      <3>2. s \in Threads => tpc[s] \in {"fresh", "sleep", "resumed"}
        BY <1>3, <1>4, <2>1 DEF Unserved, IInv
      <3> QED BY <1>1, <2>1, <3>1, <3>2 DEF Unserved
    <2> QED BY <1>5, <2>1 DEF LInv, EventIsServed
  <1> QED BY <1>7, <1>8, <1>9, <1>10 DEF LInv

\* A lightweight thread is marked waiting before it looks at its condition.
LEMMA LiveLThreadStart ==
  ASSUME IInv, LInv, NEW c \in CPUs, LThreadStart(c)
  PROVE  LInv'
  <1>1. /\ pc[c] = "ltproc"
        /\ ready' = [ready EXCEPT ![cur[c]] = FALSE]
        /\ waiting' = [waiting EXCEPT ![cur[c]] = "yes"]
        /\ pc' = [pc EXCEPT ![c] = "lt"]
        /\ UNCHANGED <<finished, event, tpc, cur, prev, preempt, tgt, ret>>
    BY DEF LThreadStart, Goto
  <1> HIDE DEF LThreadStart
  <1>2. cur[c] \in LThreads BY <1>1 DEF IInv
  <1>3. /\ At(c)' = "lt"
        /\ \A d \in CPUs \ {c} : At(d)' = At(d)
        /\ \A s : Called(s) => Called(s)'
    BY <1>1, LiveOthers DEF IInv
  <1>4. \A s : Owed(s) => Owed(s)'
    <2>1. ASSUME NEW s, prev[c] = s PROVE Owed(s)'
      BY <1>1, <1>3, <2>1 DEF Owed
    <2> QED BY <1>1, <2>1, LiveOthers DEF IInv
  <1>5. AwakeIsReady' BY <1>1, <1>2 DEF LInv, AwakeIsReady, IInv
  <1>6. WakingIsOwed' BY <1>1, <1>2, <1>4 DEF LInv, WakingIsOwed, IInv
  <1>7. SleepsInSchedule'
    <2>1. \A d \in CPUs : At(d)' = "pick" => At(d) = "pick" BY <1>3
    <2>2. \A t \in Schedees : t # cur[c] => ready'[t] = ready[t]
      BY <1>1 DEF IInv
    <2>3. \A t \in Threads : t # cur[c] BY <1>2, ThreadsAssumption
    <2> QED BY <1>1, <2>1, <2>2, <2>3 DEF LInv, SleepsInSchedule
  <1>8. EventIsServed'
    <2>1. ASSUME NEW s \in Schedees, Unserved(s)' PROVE Unserved(s)
      <3>1. s # cur[c] BY <1>1, <1>2, <1>3, <2>1 DEF Unserved
      <3>2. waiting'[s] = waiting[s] /\ ready'[s] = ready[s]
        BY <1>1, <3>1 DEF IInv
      <3>3. \A d \in CPUs : At(d) = "lt" => At(d)' = "lt" BY <1>3
      <3> QED BY <1>1, <2>1, <3>2, <3>3 DEF Unserved
    <2> QED BY <1>3, <2>1 DEF LInv, EventIsServed
  <1> QED BY <1>5, <1>6, <1>7, <1>8 DEF LInv

\* When run() returns the lightweight thread has seen its condition.
LEMMA LiveLThreadReturn ==
  ASSUME IInv, LInv, NEW c \in CPUs, LThreadLook(c) \/ LThreadReturn(c)
  PROVE  LInv'
  <1>1. PICK l \in {"ltdone", "repick"} :
          /\ \/ pc[c] = "lt" /\ event' = [event EXCEPT ![cur[c]] = FALSE]
             \/ pc[c] = "ltdone" /\ event' = event
          /\ pc' = [pc EXCEPT ![c] = l]
          /\ UNCHANGED <<ready, waiting, finished, tpc, cur, prev, preempt, tgt, ret>>
    BY DEF LThreadLook, LThreadReturn, Goto
  <1> HIDE DEF LThreadLook, LThreadReturn
  <1>2. /\ At(c)' = l /\ At(c) \in {"lt", "ltdone"}
        /\ \A d \in CPUs \ {c} : At(d)' = At(d)
        /\ \A s : Called(s) => Called(s)'
    BY <1>1, LiveOthers DEF IInv
  <1>3. \A s : Owed(s) => Owed(s)'
    <2>1. ASSUME NEW s, prev[c] = s PROVE Owed(s)'
      BY <1>1, <1>2, <2>1 DEF Owed
    <2> QED BY <1>1, <2>1, LiveOthers DEF IInv
  <1>4. AwakeIsReady' BY <1>1 DEF LInv, AwakeIsReady
  <1>5. WakingIsOwed' BY <1>1, <1>3 DEF LInv, WakingIsOwed
  <1>6. SleepsInSchedule'
    <2>1. \A d \in CPUs : At(d)' = "pick" => At(d) = "pick" BY <1>2
    <2> QED BY <1>1, <2>1 DEF LInv, SleepsInSchedule
  <1>7. EventIsServed'
    <2>1. ASSUME NEW s \in Schedees, Unserved(s)' PROVE Unserved(s)
      <3>1. event[s] /\ (s = cur[c] => pc[c] = "ltdone")
        BY <1>1, <2>1 DEF Unserved, IInv
      <3>2. \A d \in CPUs : At(d) = "lt" /\ cur[d] = s => At(d)' = "lt"
        BY <1>2, <3>1 DEF At
      <3> QED BY <1>1, <2>1, <3>1, <3>2 DEF Unserved
    <2> QED BY <1>2, <2>1 DEF LInv, EventIsServed
  <1> QED BY <1>4, <1>5, <1>6, <1>7 DEF LInv

\* Switching the context, releasing prev and leaving __schedule() keep the
\* invariant: prev is served at the latest before it is released.
LEMMA LiveSwitch ==
  ASSUME IInv, QInv, LInv, NEW c \in CPUs,
         \/ Activate(c) \/ Deactivate(c) \/ DeferredWakeup(c) \/ Release(c)
         \/ Leave(c)
  PROVE  LInv'
  <1>1. UNCHANGED <<finished, event, cur, tgt, ret>>
    BY DEF Activate, Deactivate, DeferredWakeup, Release, Leave
  <1>2. \A d \in CPUs \ {c} : prev'[d] = prev[d] /\ preempt'[d] = preempt[d]
    <2>1. \/ UNCHANGED <<prev, preempt>>
          \/ /\ prev' = [prev EXCEPT ![c] = None]
             /\ preempt' = [preempt EXCEPT ![c] = FALSE]
      BY DEF Activate, Deactivate, DeferredWakeup, Release, Leave
    <2> QED BY <2>1 DEF IInv
  <1>3. PICK l \in {"deact", "deact2", "release", "leave", "run"} :
          pc' = [pc EXCEPT ![c] = l]
    BY DEF Activate, Deactivate, DeferredWakeup, Release, Leave, Goto
  <1>4. pc[c] \in {"switch", "deact", "deact2", "release", "leave"}
    BY DEF Activate, Deactivate, DeferredWakeup, Release, Leave
  <1>5. /\ At(c)' = l
        /\ \A d \in CPUs \ {c} : At(d)' = At(d)
        /\ \A s : Called(s) => Called(s)'
    <2>1. Typed /\ pc[c] \notin WakePcs /\ l \notin WakePcs
      BY <1>3, <1>4 DEF IInv
    <2>2. /\ At(c)' = l
          /\ \A d \in CPUs \ {c} : At(d)' = At(d)
          /\ \A s : Called(s) => Called(s)'
          /\ \A s : Owed(s) =>
                Owed(s)' \/ (prev[c] = s /\ At(c) \in Leaving \cup {"deact", "deact2"})
      BY <2>1, <1>1, <1>2, <1>3, LiveOthers, ZenonT(40)
    <2> QED BY <2>2
  <1>6. \/ UNCHANGED <<ready, waiting>>
        \/ DeferredWakeup(c) /\ WakeupWaiting(c, prev[c])
    BY DEF Activate, Deactivate, DeferredWakeup, Release, Leave
  <1>7. \A s \in Schedees : (ready'[s] = ready[s] /\ waiting'[s] = waiting[s])
                              \/ (ready'[s] /\ waiting'[s] = "no")
    <2>1. CASE UNCHANGED <<ready, waiting>> BY <2>1
    <2>2. CASE WakeupWaiting(c, prev[c])
      <3>1. /\ ready' = [ready EXCEPT ![prev[c]] = TRUE]
            /\ waiting' = [waiting EXCEPT ![prev[c]] = "no"]
        BY <2>2 DEF WakeupWaiting
      <3>2. \A s \in Schedees : s # prev[c] =>
              ready'[s] = ready[s] /\ waiting'[s] = waiting[s]
        BY <3>1 DEF IInv
      <3>3. \A s \in Schedees : s = prev[c] => ready'[s] /\ waiting'[s] = "no"
        BY <3>1 DEF IInv
      <3> QED BY <3>2, <3>3
    <2> QED BY <1>6, <2>1, <2>2
  <1>8. \/ tpc' = tpc
        \/ /\ At(c) = "leave" /\ tpc[cur[c]] = "fresh"
           /\ tpc' = [tpc EXCEPT ![cur[c]] = "work"]
    BY DEF Activate, Deactivate, DeferredWakeup, Release, Leave, AckSwitched
  <1>9. AwakeIsReady' BY <1>1, <1>7 DEF LInv, AwakeIsReady
  <1>10. WakingIsOwed'
    <2>1. ASSUME NEW s \in Schedees, waiting'[s] = "waking", ~finished[s],
                 prev[c] = s, At(c) \in Leaving \cup {"deact", "deact2"}
          PROVE  Owed(s)'
      <3>1. waiting[s] = "waking" /\ waiting'[s] = waiting[s] BY <1>7, <2>1
      <3>2. ~DeferredWakeup(c)
        BY <2>1, <3>1 DEF DeferredWakeup, WakeupWaiting, IInv
      <3>3. Activate(c) \/ Deactivate(c) BY <2>1, <3>2 DEF Release, Leave
      <3>4. prev'[c] = s /\ At(c)' \in {"deact", "deact2"}
        BY <2>1, <3>3 DEF Activate, Deactivate, Goto, IInv
      <3> QED BY <3>4 DEF Owed
    <2>2. ASSUME NEW s \in Schedees, waiting'[s] = "waking", ~finished[s]
          PROVE  Owed(s)'
      <3>1. waiting[s] = "waking" BY <1>7, <2>2
      <3>2. Owed(s) BY <2>2, <3>1 DEF LInv, WakingIsOwed
      <3>3. Owed(s)' \/ (prev[c] = s /\ At(c) \in Leaving \cup {"deact", "deact2"})
        BY <1>1, <1>2, <1>3, <1>4, <3>2, LiveOthers DEF IInv
      <3> QED BY <2>1, <2>2, <3>3
    <2> QED BY <1>1, <2>2 DEF WakingIsOwed
  <1>11. SleepsInSchedule'
    <2>1. ASSUME NEW d \in CPUs, At(d)' = "pick", ~preempt'[d]
          PROVE  tpc'[prev'[d]] \in {"resumed", "dead"}
      <3>1. d # c BY <1>5, <2>1
      <3>2. At(d) = "pick" /\ ~preempt[d] /\ prev'[d] = prev[d]
        BY <1>2, <1>5, <2>1, <3>1
      <3>3. At(c) # "leave"
        BY <3>1, <3>2 DEF IInv, LockInv, BklPromise
      <3> QED BY <1>8, <3>2, <3>3 DEF LInv, SleepsInSchedule
    <2>2. ASSUME NEW t \in Threads, ~ready'[t], ~finished[t]
          PROVE  tpc'[t] \in {"fresh", "resumed"}
      <3>1. ~ready[t] BY <1>7, <2>2
      <3>2. At(c) = "leave" => cur[c] # t
        BY <2>2, <3>1, LiveIsReady DEF Settled
      <3> QED BY <1>8, <2>2, <3>1, <3>2 DEF LInv, SleepsInSchedule, IInv
    <2>3. ASSUME NEW t \in Threads,
                 tpc'[t] \in {"exit", "exiting", "parting", "dead"}
          PROVE  finished[t]
      <3>1. tpc'[t] = tpc[t] BY <1>8, <2>3 DEF IInv
      <3> QED BY <2>3, <3>1 DEF LInv, SleepsInSchedule
    <2> QED BY <1>1, <2>1, <2>2, <2>3 DEF SleepsInSchedule
  <1>12. EventIsServed'
    <2>1. ASSUME NEW s \in Schedees, Unserved(s)' PROVE Unserved(s)
      <3>1. waiting[s] = "yes" /\ ready'[s] = ready[s]
        BY <1>7, <2>1 DEF Unserved
      <3>2. \A d \in CPUs : At(d) = "lt" => At(d)' = "lt" BY <1>4, <1>5
      <3>3. s \in Threads => tpc[s] \in {"fresh", "sleep", "resumed"}
        BY <1>8, <2>1 DEF Unserved, IInv
      <3> QED BY <1>1, <2>1, <3>1, <3>2, <3>3 DEF Unserved
    <2> QED BY <1>5, <2>1 DEF LInv, EventIsServed
  <1> QED BY <1>9, <1>10, <1>11, <1>12 DEF LInv

\* Every step keeps the obligations to sleepers.
LEMMA LiveNext ==
  ASSUME IInv, QInv, LInv, [Next]_vars
  PROVE  LInv'
  <1>1. ASSUME NEW c \in CPUs, ThreadStep(c) PROVE LInv'
    <2>1. SameFrames BY <1>1, OutsideSchedule DEF IInv
    <2>2. CASE SchedLock(c) \/ SchedUnlock(c) \/ ThreadYield(c)
      BY <2>1, <2>2, LiveQuiet DEF SchedLock, SchedUnlock, ThreadYield
    <2>3. ASSUME NEW s, NEW new, ChangePriority(c, s, new) PROVE LInv'
      BY <2>1, <2>3, LiveQuiet DEF ChangePriority
    <2>4. ASSUME NEW s \in Terminable, Terminate(c, s) PROVE LInv'
      <3>1. s \in Schedees BY OptionAssumption DEF Workers
      <3> QED BY <2>1, <2>4, <3>1, LiveTerminate
    <2> QED BY <1>1, <2>1, <2>2, <2>3, <2>4, LiveWaitPrepare, LiveWaitCheck,
          LiveWaitCleanup, LiveExit, LiveWakeStart DEF ThreadStep
  <1>2. ASSUME NEW c \in CPUs, IrqResched(c) \/ IrqTick(c) PROVE LInv'
    <2>1. SameFrames BY <1>2, OutsideSchedule DEF IInv
    <2> QED BY <1>2, <2>1, LiveQuiet DEF IrqResched, IrqTick
  <1>3. ASSUME NEW c \in CPUs, ScheduleStep(c) PROVE LInv'
    BY <1>3, LivePick, LiveLThreadStart, LiveLThreadReturn, LiveSwitch
    DEF ScheduleStep
  <1>4. CASE UNCHANGED vars
    <2>1. SameFrames BY <1>4 DEF vars, SameFrames
    <2> QED BY <1>4, <2>1, LiveQuiet DEF vars
  <1> QED BY <1>1, <1>2, <1>3, <1>4, LiveWakeStart, LiveWakeStep, LiveEnter
      DEF Next

\* No wakeup is lost, from wherever sched_wakeup() is called: a schedee that
\* sleeps although its condition came true has a waker at work, or a CPU that
\* will find it TW_SMP_WAKING once it has left its stack.
THEOREM NoLostWakeupHolds ==
  ASSUME "bare" \notin Setters
  PROVE  Spec => []NoLostWakeup
  <1>1. Init => LInv
    <2> SUFFICES ASSUME Init PROVE LInv OBVIOUS
    <2>1. AwakeIsReady BY DEF Init, AwakeIsReady
    <2>2. WakingIsOwed BY DEF Init, WakingIsOwed
    <2>3. SleepsInSchedule BY DEF Init, SleepsInSchedule
    <2>4. EventIsServed BY DEF Init, EventIsServed, Unserved
    <2> QED BY <2>1, <2>2, <2>3, <2>4 DEF LInv
  <1>2. IInv /\ QInv /\ LInv /\ [Next]_vars => LInv' BY LiveNext
  <1>3. ASSUME IInv, LInv PROVE NoLostWakeup
    <2> SUFFICES ASSUME NEW s \in Schedees, event[s], ~ready[s], ~finished[s],
                        ~ \E c \in CPUs : At(c) = "lt" /\ cur[c] = s
                 PROVE  \/ \E c \in CPUs : /\ tgt[c] = s
                                           /\ pc[c] \in WakePcs \ {"wunlock"}
                        \/ /\ waiting[s] = "waking"
                           /\ \E c \in CPUs : /\ prev[c] = s
                                              /\ At(c) \notin {"release", "leave"}
      BY DEF NoLostWakeup
    <2>1. waiting[s] \in {"yes", "waking"}
      BY <1>3 DEF LInv, AwakeIsReady, IInv
    <2>2. CASE waiting[s] = "waking"
      <3>1. Owed(s) BY <1>3, <2>2 DEF LInv, WakingIsOwed
      <3> QED BY <2>2, <3>1 DEF Owed
    <2>3. CASE waiting[s] = "yes"
      <3>1. s \in Threads => tpc[s] \in {"fresh", "resumed"}
        BY <1>3 DEF LInv, SleepsInSchedule
      <3>2. Unserved(s) BY <2>3, <3>1 DEF Unserved
      <3>3. Called(s) BY <1>3, <3>2 DEF LInv, EventIsServed
      <3> QED BY <3>3 DEF Called
    <2> QED BY <2>1, <2>2, <2>3
  <1>4. IInv /\ LInv => NoLostWakeup BY <1>3
  <1> QED BY <1>1, <1>2, <1>4, QueueCorrect, PTL DEF Spec

-----------------------------------------------------------------------------
(* An exited thread stays away.                                              *)

\* Whoever wakes owns the BKL: without bare wakers every wakeup comes from a
\* critical section or an interrupt.
WakersOwn == \A c \in CPUs : pc[c] \in WakePcs => bkl = c

\* What a waker found unfinished stays so until the waker is done.
WakersLive ==
    \A c \in CPUs :
        pc[c] \in WakePcs \ {"wfin", "wunlock"} => ~finished[tgt[c]]

\* A thread on its way through thread_exit() holds sched_lock() on its CPU.
ExitHeld ==
    \A t \in Threads :
        tpc[t] \in {"exit", "exiting", "parting"} =>
            held[t] /\ \E c \in CPUs : At(c) = "run" /\ cur[c] = t

ExitWaits ==
    \A t \in Threads : tpc[t] \in {"exiting", "parting"} => waiting[t] = "yes"

\* A thread whose thread_exit() called schedule() is off the queue, and current
\* only until __schedule() has put it to sleep.
DeadIsOff ==
    \A t \in Threads : tpc[t] = "dead" =>
        /\ t \notin rq
        /\ \A c \in CPUs : cur[c] = t =>
              At(c) = "pick" /\ ~preempt[c] /\ waiting[t] # "no"

\* The inductive invariant behind ExitedNeverRuns.
XInv == WakersOwn /\ WakersLive /\ ExitHeld /\ ExitWaits /\ DeadIsOff

\* All that exiting relies on.
AllInv == IInv /\ QInv /\ LInv /\ XInv

\* Without bare wakers a wakeup is started under the BKL.
LEMMA OwnStart ==
  ASSUME AllInv, BareWakers = FALSE, NEW c \in CPUs,
         \/ \E s \in Schedees : ThreadWakeup(c, s) \/ LThreadWakeup(c, s)
         \/ \E s \in Schedees, e \in BOOLEAN : IrqWakeup(c, s, e)
         \/ \E s \in Schedees : Signal(c, s) \/ ExitWakeJoining(c, s)
  PROVE  /\ bkl' = c
         /\ \A d \in CPUs \ {c} : pc'[d] = pc[d] /\ pc'[d] \notin WakePcs
  <1>1. bkl \in {None, c} /\ bkl' = c
    BY DEF AllInv, IInv, LockInv, BklPromise, XInv, ExitHeld, ThreadWakeup,
       LThreadWakeup, IrqWakeup, IrqEnter, Signal, ExitWakeJoining, Works,
       RunsWorker, Workers
  <1>2. \A d \in CPUs \ {c} : pc'[d] = pc[d]
    BY DEF ThreadWakeup, LThreadWakeup, IrqWakeup, Signal, ExitWakeJoining,
       LockSchedee, AllInv, IInv
  <1>3. \A d \in CPUs \ {c} : pc[d] \notin WakePcs
    BY <1>1, ThreadsAssumption DEF AllInv, XInv, WakersOwn
  <1> QED BY <1>1, <1>2, <1>3

\* A step by which a CPU takes or drops the BKL finds no other CPU waking.
LEMMA WakersOwnNext ==
  ASSUME AllInv, BareWakers = FALSE, [Next]_vars
  PROVE  WakersOwn'
  <1>1. ASSUME NEW c \in CPUs, SchedLock(c) \/ SchedUnlock(c) PROVE WakersOwn'
    BY <1>1, ThreadsAssumption DEF SchedLock, SchedUnlock, Works, RunsWorker,
       AllInv, IInv, LockInv, BklPromise, XInv, WakersOwn
  <1>2. ASSUME UNCHANGED <<pc, bkl>> PROVE WakersOwn'
    BY <1>2 DEF AllInv, XInv, WakersOwn
  <1>3. ASSUME NEW c \in CPUs,
               \/ WaitPrepare(c) \/ WaitCheck(c) \/ WaitCleanup(c)
               \/ ThreadYield(c) \/ ExitFinish(c) \/ ExitWait(c)
               \/ \E s \in Terminable : Terminate(c, s)
               \/ \E s \in Tunable, new \in Levels : ChangePriority(c, s, new)
               \/ IrqResched(c) \/ IrqTick(c)
        PROVE  UNCHANGED <<pc, bkl>>
    BY <1>3 DEF WaitPrepare, WaitCheck, WaitCleanup, ThreadYield, ExitFinish,
       ExitWait, Terminate, ChangePriority, IrqResched, IrqTick
  <1>4. ASSUME NEW c \in CPUs,
               WakeStart(c) \/ \E s \in Workers : ExitWakeJoining(c, s)
        PROVE  WakersOwn'
    <2>1. /\ bkl' = c
          /\ \A d \in CPUs \ {c} : pc'[d] = pc[d] /\ pc'[d] \notin WakePcs
      BY <1>4, OwnStart DEF WakeStart, Workers
    <2> QED BY <2>1 DEF WakersOwn
  <1>5. ASSUME NEW c \in CPUs, WakeStep(c) PROVE WakersOwn'
    BY <1>5 DEF WakeStep, WakeFinished, WakeWaiting, WakeReady, WakeInactive,
       WakeActive, WakeUnlock, IrqExit, Goto, AllInv, IInv, XInv, WakersOwn
  <1>6. ASSUME NEW c \in CPUs, NEW l, l \notin WakePcs, bkl \in {None, c},
               pc' = [pc EXCEPT ![c] = l]
        PROVE  WakersOwn'
    BY <1>6, ThreadsAssumption DEF AllInv, IInv, XInv, WakersOwn
  <1>7. ASSUME NEW c \in CPUs, Preempt(c) \/ Schedule(c) PROVE WakersOwn'
    BY <1>6, <1>7 DEF Preempt, Schedule, EnterSchedule, Goto
  <1>8. ASSUME NEW c \in CPUs, ScheduleStep(c) PROVE WakersOwn'
    <2>1. InSchedule(c)
      BY <1>8 DEF ScheduleStep, Pick, LThreadStart, LThreadLook, LThreadReturn, Activate,
         Deactivate, DeferredWakeup, Release, Leave
    <2>2. bkl = c BY <2>1 DEF AllInv, IInv, LockInv, BklPromise
    <2>3. \E l : l \notin WakePcs /\ pc' = [pc EXCEPT ![c] = l]
      <3>1. CASE Pick(c)
        BY <3>1, PickEffect DEF AllInv, IInv
      <3> QED BY <1>8, <3>1 DEF ScheduleStep, LThreadStart, LThreadLook, LThreadReturn,
            Activate, Deactivate, DeferredWakeup, Release, Leave, Goto
    <2> QED BY <1>6, <2>2, <2>3
  <1>9. CASE UNCHANGED vars BY <1>2, <1>9 DEF vars
  <1> QED BY <1>1, <1>2, <1>3, <1>4, <1>5, <1>7, <1>8, <1>9
      DEF Next, ThreadStep

\* __schedule() finishes nobody and wakes through no sched_wakeup().
LEMMA ScheduleFrame ==
  ASSUME Typed, NEW c \in CPUs, Preempt(c) \/ Schedule(c) \/ ScheduleStep(c)
  PROVE  /\ \E l : l \notin WakePcs /\ pc' = [pc EXCEPT ![c] = l]
         /\ pc[c] \notin WakePcs
         /\ UNCHANGED <<finished, held, tgt, ret>>
  <1>1. pc[c] \notin WakePcs /\ UNCHANGED <<finished, held, tgt, ret>>
    BY DEF Preempt, Schedule, RunsWorker, ScheduleStep, Pick, LThreadStart,
       LThreadLook, LThreadReturn, Activate, Deactivate, DeferredWakeup, Release, Leave
  <1>2. CASE Pick(c) BY <1>1, <1>2, PickEffect
  <1>3. CASE ~Pick(c)
    BY <1>1, <1>3 DEF Preempt, Schedule, EnterSchedule, ScheduleStep,
       LThreadStart, LThreadLook, LThreadReturn, Activate, Deactivate, DeferredWakeup,
       Release, Leave, Goto
  <1> QED BY <1>2, <1>3

\* thread_exit() and thread_terminate() finish a thread while nobody wakes.
LEMMA WakersLiveNext ==
  ASSUME AllInv, BareWakers = FALSE, [Next]_vars
  PROVE  WakersLive'
  <1>1. ASSUME UNCHANGED <<pc, tgt, finished>> PROVE WakersLive'
    BY <1>1 DEF AllInv, XInv, WakersLive
  <1>2. ASSUME NEW c \in CPUs,
               \/ SchedLock(c) \/ SchedUnlock(c) \/ WaitPrepare(c)
               \/ WaitCheck(c) \/ WaitCleanup(c) \/ ThreadYield(c) \/ ExitWait(c)
               \/ \E s \in Tunable, new \in Levels : ChangePriority(c, s, new)
               \/ IrqResched(c) \/ IrqTick(c)
        PROVE  UNCHANGED <<pc, tgt, finished>>
    BY <1>2 DEF SchedLock, SchedUnlock, WaitPrepare, WaitCheck, WaitCleanup,
       ThreadYield, ExitWait, ChangePriority, IrqResched, IrqTick
  <1>3. ASSUME NEW c \in CPUs,
               ExitFinish(c) \/ \E s \in Terminable : Terminate(c, s)
        PROVE  WakersLive'
    <2>1. bkl = c /\ pc[c] = "run" /\ UNCHANGED pc
      BY <1>3 DEF ExitFinish, Terminate, Works, RunsWorker, AllInv, IInv,
         LockInv, BklPromise
    <2>2. \A d \in CPUs : pc[d] \notin WakePcs
      BY <2>1 DEF AllInv, XInv, WakersOwn
    <2> QED BY <2>1, <2>2 DEF WakersLive
  <1>4. ASSUME NEW c \in CPUs, NEW s \in Schedees, LockSchedee(c, s),
               UNCHANGED finished
        PROVE  WakersLive'
    BY <1>4 DEF LockSchedee, AllInv, IInv, XInv, WakersLive
  <1>5. ASSUME NEW c \in CPUs,
               WakeStart(c) \/ \E s \in Workers : ExitWakeJoining(c, s)
        PROVE  WakersLive'
    <2>1. Workers \subseteq Schedees BY DEF Workers
    <2>2. UNCHANGED finished
      BY <1>5 DEF WakeStart, ThreadWakeup, LThreadWakeup, IrqWakeup, Signal,
         ExitWakeJoining
    <2>3. \/ \E s \in Schedees : LockSchedee(c, s)
          \/ UNCHANGED <<pc, tgt>>
      BY <1>5, <2>1 DEF WakeStart, ThreadWakeup, LThreadWakeup, IrqWakeup,
         Signal, ExitWakeJoining
    <2> QED BY <1>1, <1>4, <2>2, <2>3
  <1>6. ASSUME NEW c \in CPUs, WakeStep(c) PROVE WakersLive'
    <2>1. CASE WakeFinished(c)
      BY <2>1 DEF WakeFinished, Goto, AllInv, IInv, XInv, WakersLive
    <2>2. CASE ~WakeFinished(c)
      BY <1>6, <2>2 DEF WakeStep, WakeWaiting, WakeReady, WakeInactive,
         WakeActive, WakeUnlock, Goto, AllInv, IInv, XInv, WakersLive
    <2> QED BY <2>1, <2>2
  <1>7. ASSUME NEW c \in CPUs, Preempt(c) \/ Schedule(c) \/ ScheduleStep(c)
        PROVE  WakersLive'
    <2>1. PICK l : l \notin WakePcs /\ pc' = [pc EXCEPT ![c] = l]
      BY <1>7, ScheduleFrame DEF AllInv, IInv
    <2>2. UNCHANGED <<finished, tgt>> BY <1>7, ScheduleFrame DEF AllInv, IInv
    <2> QED BY <2>1, <2>2 DEF AllInv, IInv, XInv, WakersLive
  <1>8. CASE UNCHANGED vars BY <1>1, <1>8 DEF vars
  <1> QED BY <1>1, <1>2, <1>3, <1>5, <1>6, <1>7, <1>8 DEF Next, ThreadStep

\* A step of another CPU, or one that neither unlocks nor moves this one,
\* leaves an exiting thread where it is.
LEMMA ExitHeldNext ==
  ASSUME AllInv, [Next]_vars
  PROVE  ExitHeld'
  <1>1. ASSUME SameFrames, UNCHANGED <<tpc, held>> PROVE ExitHeld'
    BY <1>1 DEF AllInv, XInv, ExitHeld, SameFrames
  <1>2. ASSUME NEW c \in CPUs, SchedLock(c) \/ SchedUnlock(c) PROVE ExitHeld'
    <2>1. SameFrames BY <1>2, OutsideSchedule DEF ThreadStep, AllInv, IInv
    <2>2. /\ tpc[cur[c]] = "work" /\ cur[c] \in Threads /\ tpc' = tpc
          /\ \E h \in BOOLEAN : held' = [held EXCEPT ![cur[c]] = h]
      BY <1>2 DEF SchedLock, SchedUnlock, Works, RunsWorker, Workers
    <2> QED BY <2>1, <2>2 DEF AllInv, IInv, XInv, ExitHeld, SameFrames
  <1>3. ASSUME NEW c \in CPUs, WaitPrepare(c) \/ WaitCheck(c) \/ WaitCleanup(c)
        PROVE  ExitHeld'
    <2>1. SameFrames BY <1>3, OutsideSchedule DEF ThreadStep, AllInv, IInv
    <2>2. /\ cur[c] \in Threads /\ held' = held
          /\ \E l \in {"check", "cleanup", "sleep", "work"} :
                tpc' = [tpc EXCEPT ![cur[c]] = l]
      BY <1>3 DEF WaitPrepare, WaitCheck, WaitCleanup, RunsWorker, Workers
    <2> QED BY <2>1, <2>2 DEF AllInv, IInv, XInv, ExitHeld, SameFrames
  <1>4. ASSUME NEW c \in CPUs,
               \/ ExitFinish(c) \/ ExitWait(c)
               \/ \E s \in Workers : ExitWakeJoining(c, s)
        PROVE  ExitHeld'
    <2>1. SameFrames BY <1>4, OutsideSchedule DEF ThreadStep, AllInv, IInv
    <2>2. /\ cur[c] \in Threads /\ held' = held /\ held[cur[c]] /\ At(c) = "run"
          /\ \E l : tpc' = [tpc EXCEPT ![cur[c]] = l]
      BY <1>4 DEF ExitFinish, ExitWait, ExitWakeJoining, Works, RunsWorker,
         Workers, AllInv, XInv, ExitHeld
    <2> QED BY <2>1, <2>2 DEF AllInv, IInv, XInv, ExitHeld, SameFrames
  <1>5. ASSUME NEW c \in CPUs,
               \/ ThreadYield(c) \/ WakeStart(c) \/ WakeStep(c)
               \/ IrqResched(c) \/ IrqTick(c)
               \/ \E s \in Terminable : Terminate(c, s)
               \/ \E s \in Tunable, new \in Levels : ChangePriority(c, s, new)
        PROVE  ExitHeld'
    <2>1. SameFrames BY <1>5, OutsideSchedule DEF ThreadStep, AllInv, IInv
    <2>2. UNCHANGED <<tpc, held>>
      BY <1>5 DEF ThreadYield, WakeStart, ThreadWakeup, LThreadWakeup,
         IrqWakeup, Signal, WakeStep, WakeFinished, WakeWaiting, WakeReady,
         WakeInactive, WakeActive, WakeUnlock, IrqResched, IrqTick, Terminate,
         ChangePriority
    <2> QED BY <1>1, <2>1, <2>2
  <1>6. ASSUME NEW c \in CPUs, Preempt(c) \/ Schedule(c) \/ ScheduleStep(c),
               NEW t \in Threads, tpc'[t] \in {"exit", "exiting", "parting"}
        PROVE  held'[t] /\ \E d \in CPUs : At(d)' = "run" /\ cur'[d] = t
    <2>1. tpc'[t] = tpc[t]
      <3>1. \/ tpc' = tpc
            \/ \E l \in {"resumed", "dead", "work"} :
                  tpc' = [tpc EXCEPT ![cur[c]] = l]
        BY <1>6, Zenon DEF Preempt, Schedule, ScheduleStep, Pick, LThreadStart,
           LThreadLook, LThreadReturn, Activate, Deactivate, DeferredWakeup, Release, Leave,
           AckSwitched
      <3> QED BY <1>6, <3>1 DEF AllInv, IInv
    <2>2. PICK d \in CPUs : At(d) = "run" /\ cur[d] = t /\ held[t]
      BY <1>6, <2>1 DEF AllInv, XInv, ExitHeld
    <2>3. d # c
      <3>1. CASE Preempt(c) BY <2>2, <3>1 DEF Preempt
      <3>2. CASE Schedule(c)
        BY <1>6, <2>1, <2>2, <3>2 DEF Schedule, AllInv, IInv
      <3>3. CASE ScheduleStep(c)
        BY <2>2, <3>3 DEF ScheduleStep, Pick, LThreadStart, LThreadLook, LThreadReturn,
           Activate, Deactivate, DeferredWakeup, Release, Leave
      <3> QED BY <1>6, <3>1, <3>2, <3>3
    <2>4. PICK l : l \notin WakePcs /\ pc' = [pc EXCEPT ![c] = l]
      BY <1>6, ScheduleFrame DEF AllInv, IInv
    <2>5. UNCHANGED <<held, ret>> BY <1>6, ScheduleFrame DEF AllInv, IInv
    <2>6. cur'[d] = cur[d]
      <3>1. CASE Pick(c)
        BY <2>3, <3>1, PickEffect DEF AllInv, IInv
      <3> QED BY <1>6, <3>1 DEF Preempt, Schedule, ScheduleStep, LThreadStart,
            LThreadLook, LThreadReturn, Activate, Deactivate, DeferredWakeup, Release, Leave
    <2> QED BY <2>2, <2>3, <2>4, <2>5, <2>6 DEF AllInv, IInv
  <1>7. CASE UNCHANGED vars
    <2>1. SameFrames BY <1>7 DEF vars, SameFrames
    <2> QED BY <1>1, <1>7, <2>1 DEF vars
  <1>8. ASSUME NEW c \in CPUs, Preempt(c) \/ Schedule(c) \/ ScheduleStep(c)
        PROVE  ExitHeld'
    BY <1>6, <1>8 DEF ExitHeld
  <1> QED BY <1>2, <1>3, <1>4, <1>5, <1>7, <1>8 DEF Next, ThreadStep

\* Nobody touches the wait flag of a thread that is leaving: its CPU owns the
\* BKL, wakers refuse it, and it does not wait itself.
LEMMA DepartedWaiting ==
  ASSUME AllInv, BareWakers = FALSE, [Next]_vars, NEW t \in Threads,
         \/ tpc[t] \in {"exiting", "parting"}
         \/ tpc[t] = "dead" /\ \E d \in CPUs : cur[d] = t
  PROVE  waiting'[t] = waiting[t]
  <1>1. finished[t] BY DEF AllInv, LInv, SleepsInSchedule
  <1>2. PICK d \in CPUs : cur[d] = t /\ bkl = d
    BY DEF AllInv, IInv, LockInv, BklPromise, XInv, ExitHeld, DeadIsOff
  <1>3. ASSUME NEW c \in CPUs, NEW w, waiting' = [waiting EXCEPT ![cur[c]] = w],
               At(c) = "run", tpc[cur[c]] \in {"work", "resumed", "cleanup", "exit"}
        PROVE  waiting'[t] = waiting[t]
    BY <1>3 DEF AllInv, IInv
  <1>4. ASSUME NEW c \in CPUs, WaitPrepare(c) \/ WaitCleanup(c) \/ ExitWait(c)
        PROVE  waiting'[t] = waiting[t]
    BY <1>3, <1>4 DEF WaitPrepare, WaitCleanup, ExitWait, RunsWorker
  <1>5. ASSUME NEW c \in CPUs, NEW s \in Terminable, Terminate(c, s)
        PROVE  waiting'[t] = waiting[t]
    <2>1. At(c) = "run" /\ tpc[cur[c]] = "work" /\ held[cur[c]]
      BY <1>5 DEF Terminate, Works, RunsWorker
    <2>2. bkl = c BY <2>1 DEF AllInv, IInv, LockInv, BklPromise
    <2> QED BY <1>2, <2>1, <2>2
  <1>6. ASSUME NEW c \in CPUs, WakeStep(c) PROVE waiting'[t] = waiting[t]
    <2>1. \/ waiting' = waiting
          \/ /\ pc[c] \in {"wready", "winact", "wactive"}
             /\ \E w : waiting' = [waiting EXCEPT ![tgt[c]] = w]
      BY <1>6, Zenon DEF WakeStep, WakeFinished, WakeWaiting, WakeReady,
         WakeInactive, WakeActive, WakeUnlock, WakeupWaiting
    <2>2. pc[c] \in {"wready", "winact", "wactive"} => tgt[c] # t
      BY <1>1 DEF AllInv, XInv, WakersLive
    <2> QED BY <2>1, <2>2 DEF AllInv, IInv
  <1>7. ASSUME NEW c \in CPUs, DeferredWakeup(c) PROVE waiting'[t] = waiting[t]
    <2>1. \/ waiting' = waiting
          \/ /\ ~finished[prev[c]]
             /\ waiting' = [waiting EXCEPT ![prev[c]] = "no"]
      BY <1>7, Zenon DEF DeferredWakeup, WakeupWaiting
    <2> QED BY <1>1, <2>1 DEF AllInv, IInv
  <1>8. ASSUME NEW c \in CPUs, LThreadStart(c) PROVE waiting'[t] = waiting[t]
    BY <1>8, ThreadsAssumption DEF LThreadStart, AllInv, IInv
  <1>9. ASSUME NEW c \in CPUs,
               \/ SchedLock(c) \/ SchedUnlock(c) \/ WaitCheck(c)
               \/ ThreadYield(c) \/ ExitFinish(c)
               \/ \E s \in Workers : ExitWakeJoining(c, s)
               \/ \E s \in Tunable, new \in Levels : ChangePriority(c, s, new)
               \/ WakeStart(c) \/ IrqResched(c) \/ IrqTick(c) \/ Preempt(c)
               \/ Schedule(c) \/ Pick(c) \/ LThreadLook(c) \/ LThreadReturn(c) \/ Activate(c)
               \/ Deactivate(c) \/ Release(c) \/ Leave(c)
        PROVE  waiting' = waiting
    BY <1>9 DEF SchedLock, SchedUnlock, WaitCheck, ThreadYield, ExitFinish,
       ExitWakeJoining, ChangePriority, WakeStart, ThreadWakeup, LThreadWakeup,
       IrqWakeup, Signal, IrqResched, IrqTick, Preempt, Schedule, Pick,
       LThreadLook, LThreadReturn, Activate, Deactivate, Release, Leave
  <1>10. CASE UNCHANGED vars BY <1>10 DEF vars
  <1> QED BY <1>4, <1>5, <1>6, <1>7, <1>8, <1>9, <1>10
      DEF Next, ThreadStep, ScheduleStep

\* How a thread comes to be exiting, or dead.
LEMMA DepartedBefore ==
  ASSUME Typed, [Next]_vars, NEW t \in Threads
  PROVE  /\ tpc'[t] \in {"exiting", "parting"} =>
              \/ tpc[t] \in {"exiting", "parting"}
              \/ waiting'[t] = "yes"
         /\ tpc'[t] = "dead" =>
              \/ tpc[t] = "dead"
              \/ \E c \in CPUs : Schedule(c) /\ cur[c] = t
                                 /\ tpc[t] \in {"exiting", "parting"}
  <1>1. CASE \E c \in CPUs : ExitWait(c)
    BY <1>1 DEF ExitWait
  <1>2. CASE \E c \in CPUs, s \in Workers : ExitWakeJoining(c, s)
    BY <1>2 DEF ExitWakeJoining
  <1>3. CASE \E c \in CPUs : Schedule(c)
    <2>1. PICK c \in CPUs : Schedule(c) BY <1>3
    <2>2. \/ tpc[cur[c]] = "sleep" /\ tpc' = [tpc EXCEPT ![cur[c]] = "resumed"]
          \/ /\ tpc[cur[c]] \in {"exiting", "parting"}
             /\ tpc' = [tpc EXCEPT ![cur[c]] = "dead"]
      BY <2>1 DEF Schedule
    <2> QED BY <2>1, <2>2
  <1>4. ASSUME NEW c \in CPUs,
               \/ WaitPrepare(c) \/ WaitCheck(c) \/ WaitCleanup(c)
               \/ ExitFinish(c) \/ Leave(c)
        PROVE  \/ tpc' = tpc
               \/ \E l \in {"check", "cleanup", "sleep", "work", "exit"} :
                     tpc' = [tpc EXCEPT ![cur[c]] = l]
    BY <1>4, Zenon DEF WaitPrepare, WaitCheck, WaitCleanup, ExitFinish, Leave,
       AckSwitched
  <1>5. ASSUME NEW c \in CPUs,
               \/ SchedLock(c) \/ SchedUnlock(c) \/ ThreadYield(c)
               \/ \E s \in Terminable : Terminate(c, s)
               \/ \E s \in Tunable, new \in Levels : ChangePriority(c, s, new)
               \/ WakeStart(c) \/ WakeStep(c) \/ IrqResched(c) \/ IrqTick(c)
               \/ Preempt(c) \/ Pick(c) \/ LThreadStart(c) \/ LThreadLook(c) \/ LThreadReturn(c)
               \/ Activate(c) \/ Deactivate(c) \/ DeferredWakeup(c) \/ Release(c)
        PROVE  tpc' = tpc
    BY <1>5 DEF SchedLock, SchedUnlock, ThreadYield, Terminate, ChangePriority,
       WakeStart, ThreadWakeup, LThreadWakeup, IrqWakeup, Signal, WakeStep,
       WakeFinished, WakeWaiting, WakeReady, WakeInactive, WakeActive,
       WakeUnlock, IrqResched, IrqTick, Preempt, Pick, LThreadStart,
       LThreadLook, LThreadReturn, Activate, Deactivate, DeferredWakeup, Release
  <1>6. CASE UNCHANGED vars BY <1>6 DEF vars
  <1> QED BY <1>1, <1>2, <1>3, <1>4, <1>5, <1>6 DEF Next, ThreadStep, ScheduleStep

\* schedule() puts an exiting thread to sleep for good: it is not filed, and
\* no CPU but its own has it as current.
LEMMA DeadEnters ==
  ASSUME AllInv, NEW c \in CPUs, Schedule(c), cur[c] \in Threads,
         tpc[cur[c]] \in {"exiting", "parting"}
  PROVE  /\ cur[c] \notin rq'
         /\ \A d \in CPUs : cur'[d] = cur[c] =>
               At(d)' = "pick" /\ ~preempt'[d] /\ waiting'[cur[c]] # "no"
  <1>1. /\ pc[c] = "run" /\ bkl \in {None, c}
        /\ pc' = [pc EXCEPT ![c] = "pick"]
        /\ preempt' = [preempt EXCEPT ![c] = FALSE]
        /\ UNCHANGED <<rq, waiting, cur, ret>>
    BY DEF Schedule, EnterSchedule, Goto, RunsWorker
  <1>2. cur[c] \notin rq
    BY <1>1 DEF AllInv, IInv, StackInv, StackNotQueued
  <1>3. waiting[cur[c]] = "yes" BY DEF AllInv, XInv, ExitWaits
  <1>4. \A d \in CPUs \ {c} : cur[d] # cur[c]
    <2>1. ASSUME NEW d \in CPUs \ {c}, cur[d] = cur[c] PROVE FALSE
      <3>1. ~InSchedule(d)
        BY <1>1, ThreadsAssumption DEF AllInv, IInv, LockInv, BklPromise
      <3>2. Stack(d) = cur[d] /\ Stack(c) = cur[c] BY <1>1, <3>1
      <3> QED BY <2>1, <3>2 DEF AllInv, IInv, StackInv, OneCpuPerThread
    <2> QED BY <2>1
  <1>5. At(c)' = "pick" /\ ~preempt'[c] BY <1>1 DEF AllInv, IInv
  <1> QED BY <1>1, <1>2, <1>3, <1>4, <1>5

\* A turn of __schedule() neither files nor chooses a dead thread.
LEMMA DeadPick ==
  ASSUME AllInv, NEW c \in CPUs, Pick(c), NEW t \in Threads, tpc[t] = "dead"
  PROVE  t \notin rq' /\ cur'[c] # t
  <1> DEFINE p == prev[c]
             first == pc[c] = "pick"
             q == IF first /\ ~GoesToSleep(c) THEN rq \cup {p} ELSE rq
  <1>1. PICK next \in Schedees :
            /\ rq' = q \ {next}
            /\ next \in q \/ (next = p /\ ~GoesToSleep(c))
            /\ cur' = [cur EXCEPT ![c] = next]
    BY PickEffect DEF AllInv, IInv
  <1>2. pc[c] \in {"pick", "repick"} BY DEF Pick
  <1>3. t \notin rq BY DEF AllInv, XInv, DeadIsOff
  <1>4. first /\ p = t => GoesToSleep(c)
    BY DEF AllInv, IInv, XInv, DeadIsOff, GoesToSleep
  <1>5. ~first /\ ~GoesToSleep(c) => p \in rq
    BY <1>2 DEF AllInv, QInv, PrevStays, GoesToSleep
  <1>6. t \notin q BY <1>3, <1>4
  <1>7. next # t BY <1>1, <1>3, <1>4, <1>5
  <1> QED BY <1>1, <1>6, <1>7 DEF AllInv, IInv

\* No other step files a dead thread: every waker refuses it.
LEMMA DeadUnfiled ==
  ASSUME AllInv, "bare" \notin Setters, [Next]_vars, NEW t \in Threads,
         tpc[t] = "dead"
  PROVE  t \notin rq'
  <1>1. finished[t] /\ t \notin rq
    BY DEF AllInv, LInv, SleepsInSchedule, XInv, DeadIsOff
  <1>2. ASSUME NEW c \in CPUs, WakeStep(c) PROVE t \notin rq'
    <2>1. \/ rq' = rq
          \/ pc[c] = "wactive" /\ rq' = rq \cup {tgt[c]}
      BY <1>2, Zenon DEF WakeStep, WakeFinished, WakeWaiting, WakeReady,
         WakeInactive, WakeActive, WakeUnlock, WakeupWaiting
    <2>2. pc[c] = "wactive" => tgt[c] # t
      BY <1>1 DEF AllInv, XInv, WakersLive
    <2> QED BY <1>1, <2>1, <2>2
  <1>3. ASSUME NEW c \in CPUs, DeferredWakeup(c) PROVE t \notin rq'
    <2>1. \/ rq' = rq
          \/ ~finished[prev[c]] /\ rq' = rq \cup {prev[c]}
      BY <1>3, Zenon DEF DeferredWakeup, WakeupWaiting
    <2> QED BY <1>1, <2>1
  <1>4. ASSUME NEW c \in CPUs, NEW s, Terminate(c, s) PROVE t \notin rq'
    BY <1>1, <1>4 DEF Terminate
  <1>5. ASSUME NEW c \in CPUs,
               \/ SchedLock(c) \/ SchedUnlock(c) \/ WaitPrepare(c)
               \/ WaitCheck(c) \/ WaitCleanup(c) \/ ThreadYield(c)
               \/ ExitFinish(c) \/ ExitWait(c)
               \/ \E s \in Workers : ExitWakeJoining(c, s)
               \/ WakeStart(c) \/ IrqResched(c) \/ IrqTick(c) \/ Preempt(c)
               \/ Schedule(c) \/ LThreadStart(c) \/ LThreadLook(c) \/ LThreadReturn(c)
               \/ Activate(c) \/ Deactivate(c) \/ Release(c) \/ Leave(c)
        PROVE  rq' = rq
    BY <1>5 DEF SchedLock, SchedUnlock, WaitPrepare, WaitCheck, WaitCleanup,
       ThreadYield, ExitFinish, ExitWait, ExitWakeJoining, WakeStart,
       ThreadWakeup, LThreadWakeup, IrqWakeup, Signal, IrqResched, IrqTick,
       Preempt, Schedule, LThreadStart, LThreadLook, LThreadReturn, Activate, Deactivate,
       Release, Leave
  <1>6. ASSUME NEW c \in CPUs, NEW s \in Tunable, NEW new \in Levels,
               ChangePriority(c, s, new)
        PROVE  rq' = rq
    BY <1>6, QueueChangePriority DEF AllInv
  <1>7. CASE UNCHANGED vars BY <1>1, <1>7 DEF vars
  <1> QED BY <1>1, <1>2, <1>3, <1>4, <1>5, <1>6, <1>7, DeadPick
      DEF Next, ThreadStep, ScheduleStep

\* A CPU whose current thread is dead is about to put it to sleep.
LEMMA DeadLeaves ==
  ASSUME AllInv, [Next]_vars, NEW t \in Threads, tpc[t] = "dead",
         NEW d \in CPUs, cur'[d] = t
  PROVE  cur[d] = t /\ At(d)' = "pick" /\ ~preempt'[d]
  <1>1. ASSUME cur[d] = t PROVE pc[d] = "pick" /\ At(d) = "pick" /\ ~preempt[d]
    BY <1>1 DEF AllInv, IInv, XInv, DeadIsOff
  <1>2. ASSUME SameFrames PROVE cur[d] = t /\ At(d)' = "pick" /\ ~preempt'[d]
    BY <1>1, <1>2 DEF SameFrames
  <1>3. ASSUME NEW c \in CPUs, Preempt(c) \/ Schedule(c) \/ ScheduleStep(c)
        PROVE  cur[d] = t /\ At(d)' = "pick" /\ ~preempt'[d]
    <2>1. cur[d] = t
      <3>1. CASE Pick(c)
        <4>1. d # c BY <3>1, DeadPick
        <4> QED BY <3>1, <4>1, PickEffect DEF AllInv, IInv
      <3>2. CASE ~Pick(c)
        BY <1>3, <3>2 DEF Preempt, Schedule, ScheduleStep, LThreadStart,
           LThreadLook, LThreadReturn, Activate, Deactivate, DeferredWakeup, Release, Leave
      <3> QED BY <3>1, <3>2
    <2>2. c # d
      <3>1. CASE Pick(c) BY <3>1, DeadPick
      <3>2. CASE ~Pick(c)
        BY <1>1, <1>3, <2>1, <3>2 DEF Preempt, Schedule, RunsWorker,
           ScheduleStep, LThreadStart, LThreadLook, LThreadReturn, Activate, Deactivate,
           DeferredWakeup, Release, Leave
      <3> QED BY <3>1, <3>2
    <2>3. PICK l : l \notin WakePcs /\ pc' = [pc EXCEPT ![c] = l]
      BY <1>3, ScheduleFrame DEF AllInv, IInv
    <2>4. pc'[d] = "pick" BY <1>1, <2>1, <2>2, <2>3 DEF AllInv, IInv
    <2>5. \/ preempt' = preempt
          \/ \E b \in BOOLEAN : preempt' = [preempt EXCEPT ![c] = b]
      BY <1>3, Zenon DEF Preempt, Schedule, EnterSchedule, ScheduleStep, Pick,
         LThreadStart, LThreadLook, LThreadReturn, Activate, Deactivate, DeferredWakeup,
         Release, Leave
    <2>6. preempt'[d] = preempt[d] BY <2>2, <2>5 DEF AllInv, IInv
    <2> QED BY <1>1, <2>1, <2>4, <2>6
  <1>4. CASE UNCHANGED vars
    <2>1. SameFrames BY <1>4 DEF vars, SameFrames
    <2> QED BY <1>2, <2>1
  <1> QED BY <1>2, <1>3, <1>4, OutsideSchedule DEF Next, AllInv, IInv

\* Every step keeps the invariant of exiting threads.
LEMMA ExitNext ==
  ASSUME AllInv, BareWakers = FALSE, "bare" \notin Setters, [Next]_vars
  PROVE  XInv'
  <1>1. ExitWaits'
    <2> SUFFICES ASSUME NEW t \in Threads, tpc'[t] \in {"exiting", "parting"}
                 PROVE  waiting'[t] = "yes"
      BY DEF ExitWaits
    <2>1. tpc[t] \in {"exiting", "parting"} \/ waiting'[t] = "yes"
      BY DepartedBefore DEF AllInv, IInv
    <2>2. CASE tpc[t] \in {"exiting", "parting"}
      <3>1. waiting'[t] = waiting[t] BY <2>2, DepartedWaiting
      <3> QED BY <2>2, <3>1 DEF AllInv, XInv, ExitWaits
    <2> QED BY <2>1, <2>2
  <1>2. DeadIsOff'
    <2> SUFFICES ASSUME NEW t \in Threads, tpc'[t] = "dead"
                 PROVE  /\ t \notin rq'
                        /\ \A d \in CPUs : cur'[d] = t =>
                              At(d)' = "pick" /\ ~preempt'[d] /\ waiting'[t] # "no"
      BY DEF DeadIsOff
    <2>1. CASE tpc[t] = "dead"
      <3>1. t \notin rq' BY <2>1, DeadUnfiled
      <3>2. ASSUME NEW d \in CPUs, cur'[d] = t
            PROVE  At(d)' = "pick" /\ ~preempt'[d] /\ waiting'[t] # "no"
        <4>1. cur[d] = t /\ At(d)' = "pick" /\ ~preempt'[d]
          BY <2>1, <3>2, DeadLeaves
        <4>2. waiting'[t] = waiting[t] BY <2>1, <4>1, DepartedWaiting
        <4>3. waiting[t] # "no" BY <2>1, <4>1 DEF AllInv, XInv, DeadIsOff
        <4> QED BY <4>1, <4>2, <4>3
      <3> QED BY <3>1, <3>2
    <2>2. CASE tpc[t] # "dead"
      <3>1. PICK c \in CPUs : Schedule(c) /\ cur[c] = t
                              /\ tpc[t] \in {"exiting", "parting"}
        BY <2>2, DepartedBefore DEF AllInv, IInv
      <3> QED BY <3>1, DeadEnters
    <2> QED BY <2>1, <2>2
  <1> QED BY <1>1, <1>2, WakersOwnNext, WakersLiveNext, ExitHeldNext DEF XInv

\* Without bare wakers and bare setters all of the above holds together.
LEMMA AllInvHolds ==
  ASSUME BareWakers = FALSE, "bare" \notin Setters
  PROVE  Spec => []AllInv
  <1>1. Init => AllInv
    <2> SUFFICES ASSUME Init PROVE LInv /\ XInv
      BY SafeInit, QueueInit DEF AllInv
    <2>1. LInv
      BY DEF Init, LInv, AwakeIsReady, WakingIsOwed, SleepsInSchedule,
         EventIsServed, Unserved
    <2>2. XInv
      BY DEF Init, XInv, WakersOwn, WakersLive, ExitHeld, ExitWaits, DeadIsOff
    <2> QED BY <2>1, <2>2
  <1>2. ASSUME AllInv, [Next]_vars PROVE AllInv'
    <2>1. IInv' BY <1>2, SafeNext DEF AllInv
    <2>2. QInv' BY <1>2, QueueNext DEF AllInv
    <2>3. LInv' BY <1>2, LiveNext DEF AllInv
    <2>4. XInv' BY <1>2, ExitNext
    <2> QED BY <2>1, <2>2, <2>3, <2>4 DEF AllInv
  <1>3. AllInv /\ [Next]_vars => AllInv' BY <1>2
  <1> QED BY <1>1, <1>3, PTL DEF Spec

\* schedule() never returns to thread_exit(), as long as every wakeup comes
\* from a critical section or an interrupt.
THEOREM ExitedNeverRunsHolds ==
  ASSUME BareWakers = FALSE, "bare" \notin Setters
  PROVE  Spec => []ExitedNeverRuns
  <1>1. AllInv => ExitedNeverRuns
    BY DEF AllInv, IInv, XInv, DeadIsOff, ExitedNeverRuns
  <1> QED BY <1>1, AllInvHolds, PTL

-----------------------------------------------------------------------------
(* A thread pinned to an idle CPU does start.                                *)

\* Who is finished was terminated, or is on its way through thread_exit().
FinishedIsKnown ==
    \A s \in Schedees : finished[s] =>
        /\ s \in Workers
        /\ s \in Terminable \/ tpc[s] \in {"exit", "exiting", "parting", "dead"}

\* A thread that may be terminated is filed at its priority even if finished.
TerminableFiled == \A s \in rq \cap Terminable : runqPrio[s] = prio[s]

\* resched_sent is up only while the interrupt or what it asks for is due.
SentIsOnWay == \A c \in CPUs : sent[c] => ipi[c] \/ pending[c]

\* A CPU that chose its idle thread has been poked about whatever only it
\* could run instead.
PinnedServed ==
    \A c \in CPUs :
        cur[c] = Idle[c] /\ At(c) # "pick" =>
            \/ pending[c] \/ ipi[c]
            \/ \A s \in rq : Affinity[s] = {c} => prio[s] <= prio[Idle[c]]

\* The inductive invariant behind PinnedStarts, and what it rests on.
PInv == FinishedIsKnown /\ TerminableFiled /\ SentIsOnWay /\ PinnedServed
Grounds == AllInv /\ HInv /\ FiledAtPriority

\* finished is set by thread_terminate() and thread_exit() only, and a thread
\* past the latter does not come back to anything else.
LEMMA FinishedNext ==
  ASSUME Typed, FinishedIsKnown, [Next]_vars
  PROVE  FinishedIsKnown'
  <1> DEFINE Gone == {"exit", "exiting", "parting", "dead"}
  <1>1. ASSUME finished' = finished,
               \A t \in Threads : tpc[t] \in Gone => tpc'[t] \in Gone
        PROVE  FinishedIsKnown'
    BY <1>1 DEF FinishedIsKnown, Workers
  <1>2. ASSUME NEW c \in CPUs,
               \/ SchedLock(c) \/ SchedUnlock(c) \/ WaitPrepare(c)
               \/ WaitCheck(c) \/ WaitCleanup(c) \/ ThreadYield(c)
               \/ ExitWait(c)
               \/ \E s \in Workers : ExitWakeJoining(c, s)
               \/ \E s \in Tunable, new \in Levels : ChangePriority(c, s, new)
        PROVE  /\ finished' = finished
               /\ \A t \in Threads : tpc[t] \in Gone => tpc'[t] \in Gone
    BY <1>2 DEF SchedLock, SchedUnlock, WaitPrepare, WaitCheck, WaitCleanup,
       ThreadYield, ExitWait, ExitWakeJoining, ChangePriority, Works
  <1>3. ASSUME NEW c \in CPUs,
               \/ WakeStart(c) \/ WakeStep(c) \/ IrqResched(c) \/ IrqTick(c)
        PROVE  finished' = finished /\ tpc' = tpc
    BY <1>3 DEF WakeStart, ThreadWakeup, LThreadWakeup, IrqWakeup, Signal,
       WakeStep, WakeFinished, WakeWaiting, WakeReady, WakeInactive, WakeActive,
       WakeUnlock, IrqResched, IrqTick
  <1>4. ASSUME NEW c \in CPUs, Preempt(c) \/ Schedule(c) \/ ScheduleStep(c)
        PROVE  /\ finished' = finished
               /\ \A t \in Threads : tpc[t] \in Gone => tpc'[t] \in Gone
    <2>1. CASE Schedule(c)
      <3>1. PICK l : /\ tpc' = [tpc EXCEPT ![cur[c]] = l]
                     /\ tpc[cur[c]] \in Gone => l \in Gone
        BY <2>1 DEF Schedule
      <3>2. finished' = finished BY <2>1 DEF Schedule
      <3>3. tpc \in [Threads -> {"fresh", "work", "check", "cleanup", "sleep",
                    "resumed", "exit", "exiting", "parting", "dead"}]
        OBVIOUS
      <3> HIDE DEF Gone, Typed
      <3> QED BY <3>1, <3>2, <3>3
    <2>2. CASE Leave(c)
      BY <2>2 DEF Leave, AckSwitched
    <2>3. CASE \/ Pick(c) \/ LThreadStart(c) \/ LThreadLook(c) \/ LThreadReturn(c) \/ Activate(c)
               \/ Deactivate(c) \/ DeferredWakeup(c) \/ Release(c)
      BY <2>3 DEF Pick, LThreadStart, LThreadLook, LThreadReturn, Activate, Deactivate,
         DeferredWakeup, Release
    <2>4. CASE Preempt(c) BY <2>4 DEF Preempt
    <2> QED BY <1>4, <2>1, <2>2, <2>3, <2>4 DEF ScheduleStep
  <1>5. ASSUME NEW c \in CPUs, ExitFinish(c) PROVE FinishedIsKnown'
    BY <1>5 DEF ExitFinish, Works, RunsWorker, Workers, FinishedIsKnown
  <1>6. ASSUME NEW c \in CPUs, NEW s \in Terminable, Terminate(c, s)
        PROVE  FinishedIsKnown'
    BY <1>6, OptionAssumption DEF Terminate, FinishedIsKnown
  <1>7. CASE UNCHANGED vars BY <1>7 DEF vars, FinishedIsKnown
  <1> HIDE DEF Gone
  <1> QED BY <1>1, <1>2, <1>3, <1>4, <1>5, <1>6, <1>7 DEF Next, ThreadStep

\* Whoever is queued is filed at its current priority: a finished thread on
\* the queue can only be a terminated one.
LEMMA LevelIsPriority ==
  ASSUME Grounds, FinishedIsKnown, TerminableFiled
  PROVE  \A s \in rq : runqPrio[s] = prio[s]
  <1> SUFFICES ASSUME NEW s \in rq PROVE runqPrio[s] = prio[s] OBVIOUS
  <1>1. s \in Schedees BY DEF Grounds, AllInv, IInv
  <1>2. CASE ~finished[s] BY <1>2 DEF Grounds, FiledAtPriority
  <1>3. CASE s \in Terminable BY <1>3 DEF TerminableFiled
  <1>4. CASE finished[s] /\ s \notin Terminable
    <2>1. s \in Threads /\ tpc[s] \in {"exit", "exiting", "parting", "dead"}
      BY <1>1, <1>4 DEF FinishedIsKnown, Workers
    <2>2. tpc[s] # "dead" BY <2>1 DEF Grounds, AllInv, XInv, DeadIsOff
    <2>3. PICK c \in CPUs : At(c) = "run" /\ cur[c] = s
      BY <2>1, <2>2 DEF Grounds, AllInv, XInv, ExitHeld
    <2>4. Stack(c) = s BY <2>3
    <2> QED BY <2>3, <2>4 DEF Grounds, AllInv, IInv, StackInv, StackNotQueued
  <1> QED BY <1>2, <1>3, <1>4

\* A thread that may be terminated never has its priority changed, so the
\* level it was filed at stays right.
LEMMA TerminableFiledNext ==
  ASSUME Grounds, TerminableFiled, Terminable \cap Tunable = {},
         "bare" \notin Setters, [Next]_vars
  PROVE  TerminableFiled'
  <1> USE DEF Grounds, AllInv, IInv
  <1>0. Terminable \subseteq Schedees /\ Tunable \subseteq Schedees
    BY OptionAssumption DEF Workers
  <1>1. ASSUME rq' \subseteq rq, UNCHANGED <<runqPrio, prio>>
        PROVE  TerminableFiled'
    BY <1>1 DEF TerminableFiled
  <1>2. ASSUME NEW c \in CPUs, NEW s \in Schedees, WakeupWaiting(c, s),
               prio' = prio
        PROVE  TerminableFiled'
    BY <1>2 DEF WakeupWaiting, TerminableFiled
  <1>3. ASSUME NEW c \in CPUs, NEW s \in Tunable, NEW new \in Levels,
               ChangePriority(c, s, new)
        PROVE  TerminableFiled'
    <2>1. rq' = rq BY <1>3, QueueChangePriority
    <2>2. \A x \in Schedees \ {s} : prio'[x] = prio[x] /\ runqPrio'[x] = runqPrio[x]
      BY <1>0, <1>3 DEF ChangePriority
    <2> QED BY <1>0, <2>1, <2>2 DEF TerminableFiled
  <1>4. ASSUME NEW c \in CPUs, ThreadStep(c) PROVE TerminableFiled'
    <2>1. CASE \E s \in Terminable : Terminate(c, s)
      BY <1>1, <2>1 DEF Terminate
    <2>2. CASE \/ SchedLock(c) \/ SchedUnlock(c) \/ WaitPrepare(c)
               \/ WaitCheck(c) \/ WaitCleanup(c) \/ ThreadYield(c)
               \/ ExitFinish(c) \/ ExitWait(c)
               \/ \E s \in Workers : ExitWakeJoining(c, s)
      BY <1>1, <2>2 DEF SchedLock, SchedUnlock, WaitPrepare, WaitCheck,
         WaitCleanup, ThreadYield, ExitFinish, ExitWait, ExitWakeJoining
    <2> QED BY <1>3, <1>4, <2>1, <2>2 DEF ThreadStep
  <1>5. ASSUME NEW c \in CPUs, WakeStep(c) PROVE TerminableFiled'
    <2>1. CASE WakeActive(c)
      <3>1. tgt[c] \in Schedees BY <2>1 DEF WakeActive
      <3> QED BY <1>1, <1>2, <2>1, <3>1 DEF WakeActive
    <2> QED BY <1>1, <1>5, <2>1 DEF WakeStep, WakeFinished, WakeWaiting,
        WakeReady, WakeInactive, WakeUnlock
  <1>6. ASSUME NEW c \in CPUs, ScheduleStep(c) PROVE TerminableFiled'
    <2>1. CASE Pick(c)
      <3> DEFINE p == prev[c]
                 files == pc[c] = "pick" /\ ~GoesToSleep(c)
      <3>1. /\ rq' \subseteq IF files THEN rq \cup {p} ELSE rq
            /\ p \in Schedees
        <4>1. p \in Threads BY <2>1 DEF Pick
        <4> QED BY <2>1, <4>1, PickEffect
      <3>2. /\ runqPrio' = IF files THEN [runqPrio EXCEPT ![p] = prio[p]]
                                    ELSE runqPrio
            /\ prio' = prio
        BY <2>1 DEF Pick
      <3> QED BY <3>1, <3>2 DEF TerminableFiled
    <2>2. CASE DeferredWakeup(c)
      <3>1. prev[c] \in Schedees BY <2>2 DEF DeferredWakeup
      <3> QED BY <1>1, <1>2, <2>2, <3>1 DEF DeferredWakeup
    <2> QED BY <1>1, <1>6, <2>1, <2>2 DEF ScheduleStep, LThreadStart,
        LThreadLook, LThreadReturn, Activate, Deactivate, Release, Leave
  <1>7. ASSUME NEW c \in CPUs,
               \/ WakeStart(c) \/ IrqResched(c) \/ IrqTick(c) \/ Preempt(c)
               \/ Schedule(c)
        PROVE  TerminableFiled'
    BY <1>1, <1>7 DEF WakeStart, ThreadWakeup, LThreadWakeup, IrqWakeup, Signal,
       IrqResched, IrqTick, Preempt, Schedule
  <1>8. CASE UNCHANGED vars BY <1>1, <1>8 DEF vars
  <1> QED BY <1>4, <1>5, <1>6, <1>7, <1>8 DEF Next

\* No step takes resched_sent up without the interrupt, or takes the interrupt
\* away without asking for a dispatch.
LEMMA SentNext ==
  ASSUME Typed, SentIsOnWay, [Next]_vars
  PROVE  SentIsOnWay'
  <1>1. ASSUME NEW c \in CPUs, NEW s, NEW n, NEW p, CheckPreempt(c, s, n, p)
        PROVE  SentIsOnWay'
    <2>1. \A d \in CPUs : pending[d] => pending'[d] BY <1>1 DEF CheckPreempt
    <2>2. \/ UNCHANGED <<ipi, sent>>
          \/ \E d \in CPUs : /\ ipi' = [ipi EXCEPT ![d] = TRUE]
                             /\ sent' = [sent EXCEPT ![d] = TRUE]
      BY <1>1 DEF CheckPreempt
    <2> QED BY <2>1, <2>2 DEF SentIsOnWay
  <1>2. ASSUME UNCHANGED <<ipi, sent>>, \A c \in CPUs : pending[c] => pending'[c]
        PROVE  SentIsOnWay'
    BY <1>2 DEF SentIsOnWay
  <1>3. ASSUME NEW c \in CPUs, ThreadStep(c) \/ WakeStart(c)
        PROVE  SentIsOnWay'
    <2>1. CASE \E s \in Tunable, new \in Levels : ChangePriority(c, s, new)
      BY <1>1, <2>1, Zenon DEF ChangePriority
    <2>2. CASE \/ SchedLock(c) \/ SchedUnlock(c) \/ WaitPrepare(c)
               \/ WaitCheck(c) \/ WaitCleanup(c) \/ ThreadYield(c)
               \/ ExitFinish(c) \/ ExitWait(c) \/ WakeStart(c)
               \/ \E s \in Workers : ExitWakeJoining(c, s)
               \/ \E s \in Terminable : Terminate(c, s)
      BY <1>2, <2>2 DEF SchedLock, SchedUnlock, WaitPrepare, WaitCheck,
         WaitCleanup, ThreadYield, PostSwitch, ExitFinish, ExitWait,
         ExitWakeJoining, Terminate, WakeStart, ThreadWakeup, LThreadWakeup,
         IrqWakeup, Signal
    <2> QED BY <1>3, <2>1, <2>2 DEF ThreadStep
  <1>4. ASSUME NEW c \in CPUs, WakeStep(c) PROVE SentIsOnWay'
    <2>1. CASE WakeActive(c)
      BY <1>1, <1>2, <2>1, Zenon DEF WakeActive, WakeupWaiting
    <2> QED BY <1>2, <1>4, <2>1 DEF WakeStep, WakeFinished, WakeWaiting,
        WakeReady, WakeInactive, WakeUnlock
  <1>5. ASSUME NEW c \in CPUs, IrqResched(c) \/ IrqTick(c) PROVE SentIsOnWay'
    BY <1>5 DEF IrqResched, IrqTick, PostSwitch, SentIsOnWay
  <1>6. ASSUME NEW c \in CPUs, Preempt(c) \/ Schedule(c) PROVE SentIsOnWay'
    BY <1>6 DEF Preempt, Schedule, EnterSchedule, SentIsOnWay
  <1>7. ASSUME NEW c \in CPUs, ScheduleStep(c) PROVE SentIsOnWay'
    <2>1. CASE DeferredWakeup(c)
      BY <1>1, <1>2, <2>1, Zenon DEF DeferredWakeup, WakeupWaiting
    <2>2. CASE Leave(c)
      <3>1. /\ UNCHANGED <<sent, pending>>
            /\ \A d \in CPUs : ipi[d] => ipi'[d]
        BY <2>2 DEF Leave, AckSwitched, TickerUpdate
      <3> QED BY <3>1 DEF SentIsOnWay
    <2> QED BY <1>2, <1>7, <2>1, <2>2 DEF ScheduleStep, Pick, LThreadStart,
        LThreadLook, LThreadReturn, Activate, Deactivate, Release
  <1>8. CASE UNCHANGED vars BY <1>2, <1>8 DEF vars
  <1> QED BY <1>3, <1>4, <1>5, <1>6, <1>7, <1>8 DEF Next

\* To whoever owns the BKL, every other CPU that is idle runs its idle thread.
LEMMA IdleIsActive ==
  ASSUME Grounds, FinishedIsKnown, NEW c \in CPUs, bkl = c,
         NEW d \in CPUs \ {c}, cur[d] = Idle[d]
  PROVE  active[Idle[d]]
  <1> USE DEF Grounds, AllInv, IInv
  <1>1. ~InSchedule(d) BY DEF LockInv, BklPromise
  <1>2. At(d) = "run" BY <1>1
  <1>3. Stack(d) = Idle[d] BY <1>1
  <1>4. Idle[d] \in Schedees \ Workers BY IdleIsThere DEF Workers
  <1>5. ~finished[Idle[d]] BY <1>4 DEF FinishedIsKnown
  <1> QED BY <1>3, <1>5 DEF FlagInv, StackIsActive, Sound

\* A step that files nobody and takes no poke away.
LEMMA PinnedQuiet ==
  ASSUME PinnedServed, rq' \subseteq rq, UNCHANGED <<cur, prio>>,
         \A c \in CPUs : At(c)' # "pick" =>
            /\ At(c) # "pick"
            /\ pending[c] \/ ipi[c] => pending'[c] \/ ipi'[c]
  PROVE  PinnedServed'
  BY DEF PinnedServed

\* A step that files s, or changes its priority, and then checks for preemption.
\* sched_check_preempt() and sched_wakeup_remote() reach the CPU that alone may
\* run s, if it runs its idle thread and s outranks that: s is taken here, or
\* this CPU is not enough, and resched_sent only spares a second interrupt.
LEMMA PinnedChecked ==
  ASSUME Grounds, FinishedIsKnown, SentIsOnWay, PinnedServed, NEW c \in CPUs,
         bkl = c, NEW s \in Schedees \ Idles, NEW n,
         CheckPreempt(c, s, n, prio'), prio' \in [Schedees -> Levels],
         \A x \in Schedees \ {s} : prio'[x] = prio[x],
         rq' \subseteq rq \cup {s}, cur' = cur,
         \A d \in CPUs : At(d)' # "pick" => At(d) # "pick"
  PROVE  PinnedServed'
  <1> USE DEF Grounds, AllInv, IInv
  <1> SUFFICES ASSUME NEW d \in CPUs, cur'[d] = Idle[d], At(d)' # "pick",
                      ~pending'[d], ~ipi'[d],
                      NEW x \in rq', Affinity[x] = {d}
               PROVE  prio'[x] <= prio'[Idle[d]]
    BY DEF PinnedServed
  <1>1. cur[d] = Idle[d] /\ At(d) # "pick" OBVIOUS
  <1>2. Idle[d] \in Schedees \ {s} BY IdleIsThere
  <1>3. d # c => active[Idle[d]] BY <1>1, IdleIsActive
  <1>4. ~pending[d] /\ ~ipi[d]
    <2>1. /\ \A y \in CPUs : pending[y] => pending'[y]
          /\ \/ UNCHANGED ipi
             \/ \E y \in CPUs : ipi' = [ipi EXCEPT ![y] = TRUE]
      BY DEF CheckPreempt
    <2> QED BY <2>1
  <1>5. CASE x = s
    <2>1. ASSUME prio'[Idle[d]] <= prio'[s] PROVE FALSE
      <3> DEFINE idle == {y \in Affinity[s] \ {c} : active[Idle[y]] /\ ~sent[y]}
      <3>1. CASE d = c
        <4>1. pending'[c] BY <1>1, <2>1, <3>1 DEF CheckPreempt
        <4> QED BY <3>1, <4>1
      <3>2. CASE d # c /\ sent[d] BY <1>4, <3>2 DEF SentIsOnWay
      <3>3. CASE d # c /\ ~sent[d]
        <4>1. idle = {d} BY <1>3, <1>5, <3>3
        <4>2. c \notin Affinity[s] BY <1>5, <3>3
        <4>3. \E y \in idle : ipi' = [ipi EXCEPT ![y] = TRUE]
          BY <4>1, <4>2 DEF CheckPreempt
        <4> QED BY <4>1, <4>3
      <3> QED BY <3>1, <3>2, <3>3
    <2>2. prio'[Idle[d]] \in Int /\ prio'[s] \in Int
      BY <1>2, PrioAssumption
    <2> QED BY <1>5, <2>1, <2>2
  <1>6. CASE x # s
    <2>1. x \in rq BY <1>6
    <2>2. prio[x] <= prio[Idle[d]] BY <1>1, <1>4, <2>1 DEF PinnedServed
    <2> QED BY <1>2, <1>6, <2>1, <2>2
  <1> QED BY <1>5, <1>6

\* A turn of __schedule() that chooses the idle thread leaves nothing above it
\* that may run here, and files nothing that another CPU alone could run.
LEMMA PinnedPick ==
  ASSUME Grounds, PInv, NEW c \in CPUs, Pick(c)
  PROVE  PinnedServed'
  <1> USE DEF Grounds, AllInv, IInv
  <1> DEFINE p == prev[c]
             files == pc[c] = "pick" /\ ~GoesToSleep(c)
             q == IF files THEN rq \cup {p} ELSE rq
             level == IF files THEN [runqPrio EXCEPT ![p] = prio[p]] ELSE runqPrio
  <1>1. /\ UNCHANGED <<prio, pending, ipi, ret>>
        /\ pc[c] \in {"pick", "repick"}
    BY DEF Pick
  <1>2. p \in Threads /\ c \in Affinity[p] BY <1>1 DEF HInv, RunsHere
  <1>3. PICK next \in Schedees : /\ rq' = q \ {next}
                                 /\ cur' = [cur EXCEPT ![c] = next]
                                 /\ \A d \in CPUs \ {c} : pc'[d] = pc[d]
    BY PickEffect
  <1>4. PICK head \in GetNext(c, q, level) :
          \/ cur' = [cur EXCEPT ![c] = head]
          \/ cur' = [cur EXCEPT ![c] = p] /\ prio[head] = prio[p]
    BY DEF Pick
  <1>5. \A s \in q : level[s] = prio[s]
    BY <1>2, LevelIsPriority DEF PInv
  <1>6. q \subseteq Schedees BY <1>2
  <1> SUFFICES ASSUME NEW d \in CPUs, cur'[d] = Idle[d], At(d)' # "pick",
                      ~pending'[d], ~ipi'[d],
                      NEW s \in rq', Affinity[s] = {d}
               PROVE  prio'[s] <= prio'[Idle[d]]
    BY DEF PinnedServed
  <1>7. s \in q BY <1>3
  <1>8. CASE d = c
    <2>1. head \in q /\ level[s] <= level[head] BY <1>7, <1>8 DEF GetNext
    <2>2. prio[s] <= prio[head] BY <1>5, <1>7, <2>1
    <2>3. prio[head] = prio[Idle[c]]
      <3> HIDE DEF p
      <3>1. \/ cur'[c] = head
            \/ cur'[c] = p /\ prio[head] = prio[p]
        BY <1>4
      <3> QED BY <1>8, <3>1
    <2> QED BY <1>1, <1>8, <2>2, <2>3
  <1>9. CASE d # c
    <2>1. s \in rq BY <1>2, <1>7, <1>9
    <2>2. cur[d] = Idle[d] /\ At(d) # "pick" /\ ~pending[d] /\ ~ipi[d]
      BY <1>1, <1>3, <1>9
    <2> QED BY <1>1, <2>1, <2>2 DEF PInv, PinnedServed
  <1> QED BY <1>8, <1>9

\* Every step keeps what PinnedStarts needs, as long as every wakeup and every
\* change of a priority comes from a critical section or an interrupt.
LEMMA PinnedNext ==
  ASSUME Grounds, PInv, BareWakers = FALSE, Setters \subseteq {"locked"},
         [Next]_vars
  PROVE  PinnedServed'
  <1> USE DEF Grounds, AllInv, IInv
  <1>1. FinishedIsKnown /\ SentIsOnWay /\ PinnedServed BY DEF PInv
  <1>2. ASSUME NEW c \in CPUs, NEW s \in Tunable, NEW new \in Levels,
               ChangePriority(c, s, new)
        PROVE  PinnedServed'
    <2>1. s \in Schedees \ Idles BY OptionAssumption
    <2>2. SameFrames BY <1>2, OutsideSchedule DEF ThreadStep
    <2>3. rq' = rq BY <1>2, QueueChangePriority
    <2>4. bkl = c BY <1>2 DEF ChangePriority, Works, RunsWorker, LockInv,
          BklPromise
    <2>5. PICK v \in Levels : prio' = [prio EXCEPT ![s] = v]
      BY <1>2, <2>1, PrioTyped DEF ChangePriority
    <2>6. CheckPreempt(c, s, nr, prio') BY <1>2 DEF ChangePriority
    <2>7. prio' \in [Schedees -> Levels] BY <2>5
    <2>8. \A x \in Schedees \ {s} : prio'[x] = prio[x] BY <2>5
    <2> QED BY <1>1, <2>1, <2>2, <2>3, <2>4, <2>6, <2>7, <2>8, PinnedChecked
        DEF SameFrames
  <1>3. ASSUME NEW c \in CPUs, bkl = c, NEW s \in Schedees \ Idles,
               WakeupWaiting(c, s), UNCHANGED <<prio, cur>>,
               \A d \in CPUs : At(d)' # "pick" => At(d) # "pick"
        PROVE  PinnedServed'
    <2>1. CheckPreempt(c, s, nr + 1, prio') BY <1>3 DEF WakeupWaiting
    <2>2. rq' \subseteq rq \cup {s} BY <1>3 DEF WakeupWaiting
    <2> QED BY <1>1, <1>3, <2>1, <2>2, PinnedChecked
  <1>4. ASSUME NEW c \in CPUs, ThreadStep(c) \/ WakeStart(c)
        PROVE  PinnedServed'
    <2>1. SameFrames BY <1>4, OutsideSchedule
    <2>2. CASE \E s \in Tunable, new \in Levels : ChangePriority(c, s, new)
      BY <1>2, <2>2
    <2>3. CASE \/ SchedLock(c) \/ SchedUnlock(c) \/ WaitPrepare(c)
               \/ WaitCheck(c) \/ WaitCleanup(c) \/ ThreadYield(c)
               \/ ExitFinish(c) \/ ExitWait(c) \/ WakeStart(c)
               \/ \E s \in Workers : ExitWakeJoining(c, s)
               \/ \E s \in Terminable : Terminate(c, s)
      <3>1. /\ rq' \subseteq rq
            /\ UNCHANGED <<prio, ipi>>
            /\ \A d \in CPUs : pending[d] => pending'[d]
        BY <2>3 DEF SchedLock, SchedUnlock, WaitPrepare, WaitCheck,
           WaitCleanup, ThreadYield, PostSwitch, ExitFinish, ExitWait,
           ExitWakeJoining, Terminate, WakeStart, ThreadWakeup, LThreadWakeup,
           IrqWakeup, Signal
      <3> QED BY <1>1, <2>1, <3>1, PinnedQuiet DEF SameFrames
    <2> QED BY <1>4, <2>2, <2>3 DEF ThreadStep
  <1>5. ASSUME NEW c \in CPUs, WakeStep(c) PROVE PinnedServed'
    <2>1. SameFrames BY <1>5, OutsideSchedule
    <2>2. CASE WakeActive(c) /\ ~active[tgt[c]]
      <3>1. bkl = c /\ tgt[c] \in Schedees \ Idles
        BY <2>2 DEF WakeActive, XInv, WakersOwn, HInv, IdleAwake
      <3>2. WakeupWaiting(c, tgt[c]) /\ prio' = prio
        BY <2>2, Zenon DEF WakeActive
      <3> QED BY <1>3, <2>1, <3>1, <3>2 DEF SameFrames
    <2>3. CASE ~(WakeActive(c) /\ ~active[tgt[c]])
      <3>1. UNCHANGED <<rq, prio, ipi, pending>>
        BY <1>5, <2>3 DEF WakeStep, WakeFinished, WakeWaiting, WakeReady,
           WakeInactive, WakeActive, WakeUnlock
      <3> QED BY <1>1, <2>1, <3>1, PinnedQuiet DEF SameFrames
    <2> QED BY <2>2, <2>3
  <1>6. ASSUME NEW c \in CPUs, IrqResched(c) \/ IrqTick(c) PROVE PinnedServed'
    <2>1. SameFrames BY <1>6, OutsideSchedule
    <2>2. /\ UNCHANGED <<rq, prio>>
          /\ \A d \in CPUs : pending[d] \/ ipi[d] => pending'[d] \/ ipi'[d]
      BY <1>6 DEF IrqResched, IrqTick, PostSwitch
    <2> QED BY <1>1, <2>1, <2>2, PinnedQuiet DEF SameFrames
  <1>7. ASSUME NEW c \in CPUs, Preempt(c) \/ Schedule(c) PROVE PinnedServed'
    <2>1. /\ UNCHANGED <<rq, prio, ipi, cur, ret>>
          /\ pc' = [pc EXCEPT ![c] = "pick"]
          /\ \A d \in CPUs \ {c} : pending'[d] = pending[d]
      BY <1>7 DEF Preempt, Schedule, EnterSchedule, Goto
    <2>2. \A d \in CPUs : At(d)' # "pick" =>
            /\ At(d) # "pick"
            /\ pending[d] \/ ipi[d] => pending'[d] \/ ipi'[d]
      BY <2>1
    <2> QED BY <1>1, <2>1, <2>2, PinnedQuiet
  <1>8. ASSUME NEW c \in CPUs, ScheduleStep(c) PROVE PinnedServed'
    <2>1. CASE Pick(c) BY <2>1, PinnedPick
    <2>2. CASE ~Pick(c)
      <3>1. /\ UNCHANGED <<prio, cur>>
            /\ \A d \in CPUs : At(d)' # "pick" => At(d) # "pick"
        BY <1>8, <2>2 DEF ScheduleStep, LThreadStart, LThreadLook, LThreadReturn, Activate,
           Deactivate, DeferredWakeup, Release, Leave, Goto
      <3>2. \/ rq' = rq /\ pending' = pending
               /\ \A d \in CPUs : ipi[d] => ipi'[d]
            \/ DeferredWakeup(c) /\ WakeupWaiting(c, prev[c])
        BY <1>8, <2>2 DEF ScheduleStep, LThreadStart, LThreadLook, LThreadReturn, Activate,
           Deactivate, DeferredWakeup, Release, Leave, AckSwitched, TickerUpdate
      <3>3. CASE DeferredWakeup(c) /\ WakeupWaiting(c, prev[c])
        <4>1. pc[c] = "deact2" BY <3>3 DEF DeferredWakeup
        <4>2. bkl = c BY <4>1 DEF LockInv, BklPromise
        <4>3. prev[c] \in Threads BY <4>1
        <4>4. CASE prev[c] \notin Idles
          BY <1>3, <3>1, <3>3, <4>2, <4>3, <4>4
        <4>5. CASE prev[c] \in Idles
          <5>1. waiting[prev[c]] = "no"
            BY <4>5 DEF Idles, HInv, IdleAwake
          <5>2. UNCHANGED <<rq, pending, ipi>>
            BY <3>3, <5>1 DEF DeferredWakeup
          <5> QED BY <1>1, <3>1, <5>2, PinnedQuiet
        <4> QED BY <4>4, <4>5
      <3> QED BY <1>1, <3>1, <3>2, <3>3, PinnedQuiet
    <2> QED BY <2>1, <2>2
  <1>9. CASE UNCHANGED vars
    <2>1. UNCHANGED <<rq, cur, prio, pending, ipi, pc, ret>> BY <1>9 DEF vars
    <2> QED BY <1>1, <2>1, PinnedQuiet
  <1> QED BY <1>4, <1>5, <1>6, <1>7, <1>8, <1>9 DEF Next

\* A thread pinned to an idle CPU does start: with nothing on its way to a CPU
\* that idles, nothing is queued that only this CPU could run and that outranks
\* its idle thread.  Wakeups and priority changes come from critical sections
\* or interrupts, and nobody changes the priority of a thread that is
\* terminated: a terminated thread that is queued again is not filed anew by
\* sched_change_priority().
THEOREM PinnedStartsHolds ==
  ASSUME BareWakers = FALSE, Setters \subseteq {"locked"},
         Terminable \cap Tunable = {}
  PROVE  Spec => []PinnedStarts
  <1>1. "bare" \notin Setters OBVIOUS
  <1>2. Init => PInv
    BY DEF Init, PInv, FinishedIsKnown, TerminableFiled, SentIsOnWay,
       PinnedServed
  <1>3. ASSUME Grounds, PInv, [Next]_vars PROVE PInv'
    <2>1. Typed BY <1>3 DEF Grounds, AllInv, IInv
    <2>2. FinishedIsKnown /\ TerminableFiled /\ SentIsOnWay
      BY <1>3 DEF PInv
    <2>3. FinishedIsKnown' BY <1>3, <2>1, <2>2, FinishedNext
    <2>4. TerminableFiled' BY <1>1, <1>3, <2>2, TerminableFiledNext
    <2>5. SentIsOnWay' BY <1>3, <2>1, <2>2, SentNext
    <2>6. PinnedServed' BY <1>3, PinnedNext
    <2> QED BY <2>3, <2>4, <2>5, <2>6 DEF PInv
  <1>4. Grounds /\ PInv /\ [Next]_vars => PInv' BY <1>3
  <1>5. Spec => []Grounds
    BY <1>1, AllInvHolds, HereHolds, FiledAtPriorityHolds, PTL DEF Grounds
  <1>6. PInv => PinnedStarts
    BY DEF PInv, PinnedServed, PinnedStarts
  <1> QED BY <1>2, <1>4, <1>5, <1>6, PTL DEF Spec
=============================================================================
