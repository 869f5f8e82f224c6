------------------------------ MODULE Critical ------------------------------
(***************************************************************************)
(* The critical count of each CPU, the big kernel lock it stands for, spin  *)
(* regions, interrupts and the deferred dispatch of sched_preempt():        *)
(* include/kernel/critical.h, kernel/critical.c, kernel/cpu/bkl.c,          *)
(* include/kernel/spinlock.h, irq_lock.h and the entry of an interrupt.     *)
(*                                                                         *)
(* A thread is the stack of what it is inside of: open sections, waits for *)
(* a lock, calls of critical_dispatch_pending(), interrupts.  It carries   *)
(* that stack from CPU to CPU; the count, the mask and the queue do not    *)
(* move with it.  What the code does with interrupts masked is one step    *)
(* for its CPU, except where it waits for another.                         *)
(***************************************************************************)
EXTENDS Integers, Sequences, SequencesExt, FiniteSets

CONSTANTS
    CPUs,
    Threads,
    Radix,      \* what a level of the count is counted modulo: 2^6, six bits
    MaxNest,    \* bound: sections a thread's own code opens inside each other
    Boot,       \* the thread each CPU starts with
    MaxCalls,   \* bound: the calls each thread makes
    MaxEvents,  \* bound: interrupts and lightweight threads
    None        \* no CPU

\* A level counts up to all its bits set; one section more would carry.
ASSUME CriticalAssumption ==
    /\ Radix \in Nat \ {0, 1}
    /\ {MaxNest, MaxEvents} \subseteq Nat
    /\ MaxCalls \in [Threads -> Nat]
    /\ MaxNest < Radix
    /\ None \notin CPUs
    /\ Boot \in [CPUs -> Threads]
    /\ \A c, d \in CPUs : c # d => Boot[c] # Boot[d]

VARIABLES
    cur,      \* the thread on each CPU
    stk,      \* what each thread is inside of, the innermost last
    count,    \* __critical_count of each CPU
    saved,    \* thread.critical_count of a thread that is switched out
    masked,   \* interrupts are masked on the CPU
    stash,    \* __irq_lock_ipl of each CPU
    bkl,      \* bkl_owner
    spin,     \* the owner of rq.lock and of a spinlock of thread code
    pending,  \* sched_critical of the CPU is in its dispatch_queue
    calls,    \* calls each thread has left
    events    \* interrupts and lightweight threads left

vars == <<cur, stk, count, saved, masked, stash, bkl, spin, pending, calls, events>>

-----------------------------------------------------------------------------
(* The count.                                                                *)

\* The level a section raises, from the hardest, CRITICAL_IRQ_LOCK, to the
\* softest, CRITICAL_SCHED_LOCK; each has six bits of the count.
Level(sec) ==
    CASE sec = "irqlock" -> 1
      [] sec = "irq" -> 2
      [] sec \in {"guard", "rq"} -> 3
      [] OTHER -> 4

\* The lowest bit of a level, __CRITICAL_COUNT(level).
Weight == <<1, Radix, Radix * Radix, Radix * Radix * Radix>>
Unit(sec) == Weight[Level(sec)]

\* count & level
Field(n, level) == (n \div Weight[level]) % Radix

\* count & __CRITICAL_BKL_MASK, the part that says "this CPU holds the BKL".
BklPart(n) == n - Field(n, 3) * Unit("rq")

-----------------------------------------------------------------------------
(* Stacks.                                                                   *)

\* fn is what the frame is: "enter" and "spin" wait for the BKL and a spinlock,
\* "try" is spin_trylock() past its first step, "in" is an open section, "rel" a spin region whose lock has been released,
\* "call" and "disp" are critical_dispatch_pending() before and in its loop,
\* "pick", "lt" and "out" are __schedule() with rq.lock, behind a lightweight
\* thread and past the switch.  sec is the section, ipl the saved interrupt
\* state.
Frame(fn, sec, ipl) == [fn |-> fn, sec |-> sec, ipl |-> ipl]

Bottom == Frame("base", "thread", FALSE)

Top(c) == IF stk[cur[c]] = <<>> THEN Bottom ELSE Last(stk[cur[c]])

Push(c, frame) == stk' = [stk EXCEPT ![cur[c]] = Append(@, frame)]
Replace(c, frames) == stk' = [stk EXCEPT ![cur[c]] = Front(@) \o frames]

Mask(c, m) == masked' = [masked EXCEPT ![c] = m]
Add(c, sec) == count' = [count EXCEPT ![c] = @ + Unit(sec)]
Sub(c, sec) == count' = [count EXCEPT ![c] = @ - Unit(sec)]

\* The thread is in code of its own, inside sections of S only; it may call.
Calling(c, S) ==
    /\ Top(c) = Bottom \/ (Top(c).fn = "in" /\ Top(c).sec \in S)
    /\ calls[cur[c]] > 0
    /\ Len(stk[cur[c]]) < MaxNest
    /\ calls' = [calls EXCEPT ![cur[c]] = @ - 1]

Init ==
    /\ cur = Boot
    /\ stk = [t \in Threads |->
                IF \E c \in CPUs : Boot[c] = t THEN <<>>
                ELSE <<Frame("out", "fresh", FALSE)>>]
    /\ count = [c \in CPUs |-> 0]
    /\ saved = [t \in Threads |-> Unit("sched")]
    /\ masked = [c \in CPUs |-> FALSE]
    /\ stash = [c \in CPUs |-> FALSE]
    /\ bkl = None
    /\ spin = [l \in {"rq", "guard"} |-> None]
    /\ pending = [c \in CPUs |-> FALSE]
    /\ calls = MaxCalls
    /\ events = MaxEvents

-----------------------------------------------------------------------------
(* critical_enter() and critical_leave().                                    *)

\* Mutant: any count is taken for a nested entry.
EnterAnyCount(c, sec, ipl) ==
    /\ Mask(c, ipl)
    /\ IF count[c] # 0
       THEN Add(c, sec) /\ Push(c, Frame("in", sec, ipl))
       ELSE UNCHANGED count /\ Push(c, Frame("enter", sec, ipl))

\* Mutant: a nested entry is not counted.
EnterUncounted(c, sec, ipl) ==
    /\ Mask(c, ipl)
    /\ UNCHANGED count
    /\ Push(c, Frame(IF BklPart(count[c]) # 0 THEN "in" ELSE "enter", sec, ipl))

\* critical_enter() called with the interrupt state ipl: a count that promises
\* the BKL is raised, any other has to wait for it, at the caller's state.
Enter(c, sec, ipl) ==
    /\ Mask(c, ipl)
    /\ IF BklPart(count[c]) # 0
       THEN Add(c, sec) /\ Push(c, Frame("in", sec, ipl))
       ELSE UNCHANGED count /\ Push(c, Frame("enter", sec, ipl))

\* bkl_trylock() succeeds; the count is raised before interrupts come back.
TryBkl(c) ==
    /\ Top(c).fn = "enter" /\ bkl = None
    /\ bkl' = c
    /\ Add(c, Top(c).sec)
    /\ Replace(c, <<[Top(c) EXCEPT !.fn = "in"]>>)
    /\ UNCHANGED <<cur, saved, masked, stash, spin, pending, calls, events>>

\* critical_leave(): the last BKL section releases the lock.
Leave(c, sec) ==
    /\ Sub(c, sec)
    /\ bkl' = IF BklPart(count[c]) = Unit(sec) THEN None ELSE bkl

\* critical_dispatch_pending() is called next.  It has something to look at
\* only if the count is zero, and nobody but this CPU changes that.
ThenDispatch(c, sec) ==
    Replace(c, IF count'[c] = 0 THEN <<Frame("call", sec, FALSE)>> ELSE <<>>)

\* sched_lock()
SchedLock(c) ==
    /\ Calling(c, {"sched", "guard"})
    /\ Enter(c, "sched", masked[c])
    /\ UNCHANGED <<cur, saved, stash, bkl, spin, pending, events>>

\* sched_unlock(), up to its critical_dispatch_pending().
SchedUnlock(c) ==
    /\ Top(c).fn = "in" /\ Top(c).sec = "sched"
    /\ Leave(c, "sched")
    /\ ThenDispatch(c, "sched")
    /\ UNCHANGED <<cur, saved, masked, stash, spin, pending, calls, events>>

\* Mutant: a nested irq_lock() stashes the state it finds too.
StashAlways(c) == stash' = [stash EXCEPT ![c] = masked[c]]

\* The caller's interrupt state is kept by the outermost irq_lock() only.
Stash(c) ==
    stash' = IF Field(count[c], 1) = 0 THEN [stash EXCEPT ![c] = masked[c]] ELSE stash

\* irq_lock(): masked first, so the wait for the BKL is masked too.
IrqLock(c) ==
    /\ Calling(c, {"sched", "irqlock"})
    /\ Stash(c)
    /\ Enter(c, "irqlock", TRUE)
    /\ UNCHANGED <<cur, saved, bkl, spin, pending, events>>

\* irq_unlock()
IrqUnlock(c) ==
    /\ Top(c).fn = "in" /\ Top(c).sec = "irqlock"
    /\ Leave(c, "irqlock")
    /\ \/ /\ Field(count[c], 1) = 1
          /\ Mask(c, stash[c])
          /\ ThenDispatch(c, "irqlock")
       \/ /\ Field(count[c], 1) > 1
          /\ Replace(c, <<>>)
          /\ UNCHANGED masked
    /\ UNCHANGED <<cur, saved, stash, spin, pending, calls, events>>

-----------------------------------------------------------------------------
(* Spin regions.                                                             *)

\* spin_lock() by thread code, with interrupts as they are; as in kflock(),
\* not inside another section.
GuardLock(c) ==
    /\ Calling(c, {})
    /\ Push(c, Frame("spin", "guard", masked[c]))
    /\ UNCHANGED <<cur, count, saved, masked, stash, bkl, spin, pending, events>>

\* spin_lock_ipl(&rq.lock) by sched_change_priority(), under sched_lock() or not.
ChangePriority(c) ==
    /\ Calling(c, {"sched"})
    /\ Push(c, Frame("spin", "rq", masked[c]))
    /\ UNCHANGED <<cur, count, saved, masked, stash, bkl, spin, pending, events>>

\* __spin_preempt_disable() of spin_trylock(), with interrupts on: a switch asked
\* for from here on waits for the region to end or the try to fail.
PreemptDisable(c) ==
    /\ Top(c).fn = "spin" /\ Top(c).sec = "guard"
    /\ Add(c, "guard")
    /\ Replace(c, <<[Top(c) EXCEPT !.fn = "try"]>>)
    /\ UNCHANGED <<cur, saved, masked, stash, bkl, spin, pending, calls, events>>

\* spin_trylock() succeeds.  In the _ipl variant it is masked as a whole, and a
\* try that fails leaves nothing behind: no dispatch can have been asked for.
TrySpin(c) ==
    /\ Top(c).fn = "try" \/ (Top(c).fn = "spin" /\ Top(c).sec = "rq")
    /\ spin[Top(c).sec] = None
    /\ spin' = [spin EXCEPT ![Top(c).sec] = c]
    /\ IF Top(c).sec = "rq" THEN Add(c, "rq") /\ Mask(c, TRUE)
       ELSE UNCHANGED <<count, masked>>
    /\ Replace(c, <<[Top(c) EXCEPT !.fn = "in"]>>)
    /\ UNCHANGED <<cur, saved, stash, bkl, pending, calls, events>>

\* spin_trylock() fails: preemption comes back, and with it a dispatch that was
\* asked for during the try; then spin_lock() tries again.
SpinFail(c) ==
    /\ Top(c).fn = "try" /\ spin[Top(c).sec] # None
    /\ Sub(c, Top(c).sec)
    /\ Replace(c, <<[Top(c) EXCEPT !.fn = "spin"]>> \o
                  (IF count'[c] = 0 THEN <<Frame("call", "spin", FALSE)>> ELSE <<>>))
    /\ UNCHANGED <<cur, saved, masked, stash, bkl, spin, pending, calls, events>>

\* Mutant: the callback of sched_change_priority() takes sched_lock().
SpinUnlockAfterSchedLock(c) ==
    /\ Top(c).fn = "in" /\ Top(c).sec \in {"guard", "rq"}
    /\ \/ /\ Top(c).sec = "rq" /\ calls[cur[c]] > 0
          /\ calls' = [calls EXCEPT ![cur[c]] = @ - 1]
          /\ Enter(c, "sched", TRUE)
          /\ UNCHANGED <<cur, saved, stash, bkl, spin, pending, events>>
       \/ /\ spin' = [spin EXCEPT ![Top(c).sec] = None]
          /\ Mask(c, IF Top(c).sec = "rq" THEN Top(c).ipl ELSE masked[c])
          /\ Replace(c, <<[Top(c) EXCEPT !.fn = "rel"]>>)
          /\ UNCHANGED <<cur, count, saved, stash, bkl, pending, calls, events>>

\* The region ends: __spin_unlock() and, for the _ipl variant, ipl_restore().
\* sched_change_priority() may have asked for a switch on this CPU before.
SpinUnlock(c) ==
    /\ Top(c).fn = "in" /\ Top(c).sec \in {"guard", "rq"}
    /\ spin' = [spin EXCEPT ![Top(c).sec] = None]
    /\ Mask(c, IF Top(c).sec = "rq" THEN Top(c).ipl ELSE masked[c])
    /\ pending' \in {pending} \cup
        (IF Top(c).sec = "rq" THEN {[pending EXCEPT ![c] = TRUE]} ELSE {})
    /\ Replace(c, <<[Top(c) EXCEPT !.fn = "rel"]>>)
    /\ UNCHANGED <<cur, count, saved, stash, bkl, calls, events>>

\* __spin_preempt_enable(), up to its critical_dispatch_pending().
PreemptEnable(c) ==
    /\ Top(c).fn = "rel"
    /\ Sub(c, Top(c).sec)
    /\ ThenDispatch(c, "spin")
    /\ UNCHANGED <<cur, saved, masked, stash, bkl, spin, pending, calls, events>>

-----------------------------------------------------------------------------
(* critical_dispatch_pending() and interrupts.                               *)

\* Mutant: the queue is looked at once, before the dispatch.
LookOnce(c) == Top(c).fn = "call" /\ pending[c] /\ count[c] = 0

\* The head of this CPU's queue may be dispatched: sched_critical waits for
\* every level, so for a count of zero.
Look(c) == pending[c] /\ count[c] = 0

\* One turn of the loop of critical_dispatch_pending(), under a fresh mask:
\* sched_preempt() is called, whose sched_lock() waits masked, or the call
\* returns with the interrupts it was called with, or from the interrupt.
Dispatch(c) ==
    /\ Top(c).fn \in {"call", "disp"}
    /\ LET ipl == IF Top(c).sec = "irq" THEN FALSE
                 ELSE IF Top(c).fn = "call" THEN masked[c] ELSE Top(c).ipl
       IN  \/ /\ Look(c)
              /\ pending' = [pending EXCEPT ![c] = FALSE]
              /\ Replace(c, <<Frame("disp", Top(c).sec, ipl), Frame("enter", "preempt", TRUE)>>)
              /\ Mask(c, TRUE)
           \/ /\ ~Look(c)
              /\ Replace(c, <<>>)
              /\ Mask(c, ipl)
              /\ UNCHANGED pending
    /\ UNCHANGED <<cur, count, saved, stash, bkl, spin, calls, events>>

\* An interrupt, up to its critical_enter().
Interrupt(c) ==
    /\ ~masked[c] /\ events > 0
    /\ events' = events - 1
    /\ Enter(c, "irq", TRUE)
    /\ UNCHANGED <<cur, saved, stash, bkl, spin, pending, calls>>

\* The handler runs, and may ask for a switch on this CPU; critical_leave().
\* A nested interrupt has nothing to dispatch and returns.
Handle(c) ==
    /\ Top(c).fn = "in" /\ Top(c).sec = "irq"
    /\ pending' \in {pending, [pending EXCEPT ![c] = TRUE]}
    /\ Leave(c, "irq")
    /\ ThenDispatch(c, "irq")
    /\ Mask(c, count'[c] = 0)
    /\ UNCHANGED <<cur, saved, stash, spin, calls, events>>

-----------------------------------------------------------------------------
(* __schedule(), as far as it moves threads, counts and interrupts.          *)

\* schedule(): sched_lock() first.  __schedule() asserts that no harder section
\* is open.
Schedule(c) ==
    /\ Calling(c, {"sched"})
    /\ count[c] % Unit("schedule") = 0
    /\ Enter(c, "schedule", masked[c])
    /\ UNCHANGED <<cur, saved, stash, bkl, spin, pending, events>>

\* The thread is in __schedule() and wants rq.lock.
WantsRq(c) ==
    \/ Top(c).fn = "in" /\ Top(c).sec \in {"schedule", "preempt"}
    \/ Top(c).fn = "lt"

\* spin_lock_ipl(&rq.lock), or spin_lock_ipl_disable() after a lightweight thread.
LockRq(c) ==
    /\ WantsRq(c) /\ spin["rq"] = None
    /\ spin' = [spin EXCEPT !["rq"] = c]
    /\ Add(c, "rq")
    /\ Mask(c, TRUE)
    /\ Replace(c, <<Frame("pick", Top(c).sec,
                          IF Top(c).fn = "lt" THEN Top(c).ipl ELSE masked[c])>>)
    /\ UNCHANGED <<cur, saved, stash, bkl, pending, calls, events>>

\* The next schedee is a lightweight thread: it runs here with interrupts on.
Lthread(c) ==
    /\ Top(c).fn = "pick" /\ events > 0
    /\ events' = events - 1
    /\ spin' = [spin EXCEPT !["rq"] = None]
    /\ Sub(c, "rq")
    /\ Mask(c, FALSE)
    /\ Replace(c, <<[Top(c) EXCEPT !.fn = "lt"]>>)
    /\ UNCHANGED <<cur, saved, stash, bkl, pending, calls>>

\* The thread goes on; thread_process() enables interrupts if it was called.
Stay(c) ==
    /\ Top(c).fn = "pick"
    /\ spin' = [spin EXCEPT !["rq"] = None]
    /\ Sub(c, "rq")
    /\ masked' \in {masked, [masked EXCEPT ![c] = FALSE]}
    /\ Replace(c, <<[Top(c) EXCEPT !.fn = "out"]>>)
    /\ UNCHANGED <<cur, saved, stash, bkl, pending, calls, events>>

\* thread_prepare_switch(): the counts change places.
SwapCount(c, u) ==
    /\ saved' = [saved EXCEPT ![cur[c]] = count[c] - Unit("rq")]
    /\ count' = [count EXCEPT ![c] = saved[u]]

\* thread_context_switch() to u, which enables interrupts when it comes back or
\* starts.
Switch(c, u) ==
    /\ Top(c).fn = "pick"
    /\ \A d \in CPUs : cur[d] # u
    /\ spin' = [spin EXCEPT !["rq"] = None]
    /\ SwapCount(c, u)
    /\ cur' = [cur EXCEPT ![c] = u]
    /\ Replace(c, <<[Top(c) EXCEPT !.fn = "out"]>>)
    /\ Mask(c, FALSE)
    /\ UNCHANGED <<stash, bkl, pending, calls, events>>

\* The end of __schedule() restores interrupts; schedule() and a fresh thread
\* sched_unlock(), sched_preempt() unlocks without a dispatch.
Unschedule(c) ==
    /\ Top(c).fn = "out"
    /\ Mask(c, Top(c).ipl)
    /\ Leave(c, "sched")
    /\ IF Top(c).sec = "preempt" THEN Replace(c, <<>>) ELSE ThenDispatch(c, "sched")
    /\ UNCHANGED <<cur, saved, stash, spin, pending, calls, events>>

-----------------------------------------------------------------------------
\* What CPU c does once it has begun: it waits for locks, gives them back,
\* and returns from where it is.
Step(c) ==
    \/ TryBkl(c) \/ SchedUnlock(c) \/ IrqUnlock(c)
    \/ PreemptDisable(c) \/ TrySpin(c) \/ SpinFail(c) \/ SpinUnlock(c) \/ PreemptEnable(c)
    \/ Dispatch(c) \/ Handle(c)
    \/ LockRq(c) \/ Lthread(c) \/ Stay(c) \/ Unschedule(c)
    \/ \E u \in Threads : Switch(c, u)

\* All threads on CPUs are in their own code and may stay there.
Rest ==
    /\ \A c \in CPUs : Top(c) = Bottom
    /\ UNCHANGED vars

Next ==
    \/ Rest
    \/ \E c \in CPUs :
        \/ Step(c) \/ Interrupt(c)
        \/ SchedLock(c) \/ IrqLock(c) \/ GuardLock(c) \/ ChangePriority(c) \/ Schedule(c)

\* Every CPU goes on executing.  Nothing stronger: a lock may be won by the same
\* CPU for as long as the others go on asking for it.
Fairness == \A c \in CPUs : WF_vars(Step(c))

Spec == Init /\ [][Next]_vars /\ Fairness

-----------------------------------------------------------------------------
(* What must hold.                                                           *)

FrameSet ==
    [fn : {"enter", "spin", "try", "in", "rel", "call", "disp", "pick", "lt", "out"},
     sec : {"sched", "schedule", "preempt", "fresh", "irq", "irqlock", "guard", "rq", "spin"},
     ipl : BOOLEAN]

\* Types.
TypeOK ==
    /\ cur \in [CPUs -> Threads]
    /\ stk \in [Threads -> Seq(FrameSet)]
    /\ count \in [CPUs -> 0..(Radix * Weight[4] - 1)]
    /\ saved \in [Threads -> 0..(Radix * Weight[4] - 1)]
    /\ masked \in [CPUs -> BOOLEAN]
    /\ stash \in [CPUs -> BOOLEAN]
    /\ bkl \in CPUs \cup {None}
    /\ spin \in [{"rq", "guard"} -> CPUs \cup {None}]
    /\ pending \in [CPUs -> BOOLEAN]
    /\ \A t \in Threads : calls[t] \in 0..MaxCalls[t]
    /\ events \in 0..MaxEvents

\* The sections of a level that are open on thread t.  __schedule() is a SCHED
\* section throughout and, while it holds rq.lock, a PREEMPT region too.
Open(t, level) ==
    Cardinality({i \in DOMAIN stk[t] :
        \/ /\ stk[t][i].fn \in {"try", "in", "rel", "pick", "lt", "out"}
           /\ Level(stk[t][i].sec) = level
        \/ stk[t][i].fn = "pick" /\ level = 3})

Counts(n, t) == \A level \in 1..4 : Field(n, level) = Open(t, level)

\* Every level of a CPU's count is the number of its sections that the thread
\* running there has open, whatever CPUs it opened them on and whatever
\* interrupts came between, and a thread that is switched out takes its count
\* with it; a BKL section is open on a CPU exactly when that CPU holds the BKL.
\* This is what the nested path of critical_enter() and an interrupt rely on.
CountIsSections ==
    /\ \A c \in CPUs : Counts(count[c], cur[c])
    /\ \A t \in Threads : (\A c \in CPUs : cur[c] # t) => Counts(saved[t], t)
    /\ \A c \in CPUs : BklPart(count[c]) # 0 <=> bkl = c

\* Interrupts are masked where they have to be, inside irq_lock() and with
\* rq.lock held, and a thread that has returned to code outside every call has
\* them on again, whichever CPU it came back on.
MaskedWhereNeeded ==
    \A c \in CPUs :
        /\ Field(count[c], 1) > 0 \/ spin["rq"] = c => masked[c]
        /\ Top(c) = Bottom => ~masked[c]

\* The CPU that c waits for, if any.
WaitsFor(c) ==
    CASE Top(c).fn = "enter" -> bkl
      [] Top(c).fn \in {"spin", "try"} -> spin[Top(c).sec]
      [] WantsRq(c) -> spin["rq"]
      [] OTHER -> None

\* No set of CPUs wait for each other: the BKL, rq.lock and a spinlock held with
\* interrupts on are never waited for in a circle, also not by an interrupt that
\* wants the BKL on top of a spin region.
NoWaitCycle ==
    \A S \in (SUBSET CPUs) \ {{}} : \E c \in S : WaitsFor(c) \notin S

\* A switch asked for on a CPU is not forgotten: once its count is zero, the
\* thread there is about to look at the queue of that CPU, or an interrupt is
\* that will.
PreemptNotLost ==
    \A c \in CPUs :
        pending[c] /\ count[c] = 0 =>
            \/ Top(c).fn \in {"call", "disp"}
            \/ Top(c).fn = "enter" /\ Top(c).sec = "irq"

\* Whoever holds the BKL gives it back, and a switch that was asked for takes
\* place, although waits may happen with interrupts masked.
LockIsReleased == \A c \in CPUs : bkl = c ~> bkl # c

\* The same of the request to switch.
SwitchHappens == \A c \in CPUs : pending[c] ~> ~pending[c]
=============================================================================
