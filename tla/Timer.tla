------------------------------- MODULE Timer --------------------------------
(***************************************************************************)
(* Timers and timed waits on several CPUs: the delta lists of              *)
(* kernel/time/timer/strategy/head_timer_smp.c, the start and stop of      *)
(* sys_timer.c, the tick of clock_tick.c, the shared scheduler ticker and  *)
(* the loop of SCHED_WAIT_TIMEOUT with sched_wait_timeout(), whose timer   *)
(* lives on the waiting thread's stack.                                    *)
(*                                                                         *)
(* Every edit of a list runs under the BKL (sched_lock(), an interrupt, or *)
(* a lightweight thread inside __schedule()), and timer_strat_sched()      *)
(* keeps interrupts masked, handlers included: each is one step.           *)
(***************************************************************************)
EXTENDS Integers, Sequences, SequencesExt, FiniteSets

CONSTANTS
    CPUs,
    TickOwner,  \* clock_tick_owner, the CPU that advances jiffies
    Sleepers,   \* threads; each stands for the sys_timer on its stack too
    Ticker,     \* sched_tick_timer, on the list of every CPU
    TickerCpus, \* the CPUs on which equal priorities compete, so that they tick
    Interval,   \* SCHED_TICK_INTERVAL in jiffies
    Timeout,    \* Timeout[s] is the timeout s asks for, in jiffies
    Mortal,     \* the threads thread_terminate() is applied to
    MaxTime,    \* bound: the jiffies at which the model's clock stops
    None        \* -1, no CPU

Timers == Sleepers \cup {Ticker}

ASSUME TimerAssumption ==
    /\ TickOwner \in CPUs
    /\ Ticker \notin Sleepers
    /\ None \notin CPUs /\ None \notin Nat
    /\ TickerCpus \subseteq CPUs
    /\ Interval \in Nat \ {0}
    /\ MaxTime \in Nat
    /\ Timeout \in [Sleepers -> Nat \ {0}]
    /\ Mortal \subseteq Sleepers

VARIABLES
    now,       \* cs_jiffies->event_device->jiffies
    list,      \* sys_timers_list: timers with their cnt
    started,   \* SYS_TIMER_STATE_STARTED of a sleeper's timer
    shared,    \* shared_cpu of the ticker
    owner,     \* owner_cpu
    posted,    \* clock_handler_lt of a CPU has been launched
    tpc,       \* where a thread is in SCHED_WAIT_TIMEOUT
    waiting,   \* schedee.waiting
    linked,    \* st_wait_link is on the thread_wait_list
    cond,      \* the condition waited for
    rem,       \* __wait_timeout
    since,     \* cur_time of sched_wait_timeout()
    diff,      \* diff of sched_wait_timeout()
    begun,     \* when the wait began
    finished,  \* schedee.finished
    due,       \* auxiliary: the time each queued timer was asked to fire at
    astray     \* a timer that is on no list has been stopped as if it were

listVars == <<list, started, shared, owner, due, astray>>
waitVars == <<tpc, waiting, linked, cond, rem, since, diff, begun>>
vars == <<now, listVars, posted, waitVars, finished>>

\* Points at which the thread's timer may be running.
InWait == {"armed", "asleep", "back", "close"}

\* Points of SCHED_WAIT_TIMEOUT.
WaitPcs == {"check", "raw", "inited"} \cup InWait

\* The threads whose timer is linked to them and not initialised yet: its
\* state and owner_cpu are what the stack held before.
Raw == {s \in Sleepers : tpc[s] = "raw"}

-----------------------------------------------------------------------------
(* The delta list of one CPU.  The first counter is a time, every other one  *)
(* counts from the entry before it.                                          *)

\* The time at which the i-th entry of q is due.
Sum(q, i) ==
    LET upto[j \in 0..Len(q)] == IF j = 0 THEN 0 ELSE upto[j - 1] + q[j].cnt
    IN  upto[i]

\* Where t is in q.
Places(t, q) == {i \in 1..Len(q) : q[i].tmr = t}

\* The first entry due at or after `expiry'; past the end if there is none.
Position(q, expiry) ==
    CHOOSE i \in 1..(Len(q) + 1) :
        /\ i = Len(q) + 1 \/ Sum(q, i) >= expiry
        /\ \A j \in 1..(i - 1) : Sum(q, j) < expiry

\* Mutant: the next entry shrinks by the absolute time of the new one.
StartAbsolute(q, t, expiry) ==
    LET i == Position(q, expiry)
        after == SubSeq(q, i, Len(q))
    IN  SubSeq(q, 1, i - 1) \o <<[tmr |-> t, cnt |-> expiry - Sum(q, i - 1)]>> \o
        (IF after = <<>> THEN after
         ELSE <<[after[1] EXCEPT !.cnt = @ - expiry]>> \o Tail(after))

\* __timer_strat_start(): the new entry's counter is what is left after the
\* entries before it, and the next entry's shrinks by as much.
Start(q, t, expiry) ==
    LET i == Position(q, expiry)
        left == expiry - Sum(q, i - 1)
        after == SubSeq(q, i, Len(q))
    IN  SubSeq(q, 1, i - 1) \o <<[tmr |-> t, cnt |-> left]>> \o
        (IF after = <<>> THEN after
         ELSE <<[after[1] EXCEPT !.cnt = @ - left]>> \o Tail(after))

\* __timer_strat_stop(): the next entry's counter grows by the one removed.
Stop(q, t) ==
    LET i == CHOOSE k \in Places(t, q) : TRUE
        after == SubSeq(q, i + 1, Len(q))
    IN  SubSeq(q, 1, i - 1) \o
        (IF after = <<>> THEN after
         ELSE <<[after[1] EXCEPT !.cnt = @ + q[i].cnt]>> \o Tail(after))

Init ==
    /\ now = 0
    /\ list = [c \in CPUs |-> <<>>]
    /\ started = [s \in Sleepers |-> FALSE]
    /\ shared = {}
    /\ owner = [s \in Sleepers |-> None]
    /\ posted = [c \in CPUs |-> FALSE]
    /\ tpc = [s \in Sleepers |-> "idle"]
    /\ waiting = [s \in Sleepers |-> FALSE]
    /\ linked = [s \in Sleepers |-> FALSE]
    /\ cond = [s \in Sleepers |-> FALSE]
    /\ rem = [s \in Sleepers |-> 0]
    /\ since = [s \in Sleepers |-> 0]
    /\ diff = [s \in Sleepers |-> 0]
    /\ begun = [s \in Sleepers |-> 0]
    /\ finished = {}
    /\ due = [c \in CPUs |-> [t \in Timers |-> None]]
    /\ astray = FALSE

-----------------------------------------------------------------------------
(* A thread in SCHED_WAIT_TIMEOUT.                                           *)

Goto(s, p) == tpc' = [tpc EXCEPT ![s] = p]

\* The macro is entered with the condition false: __wait_timeout is set and
\* sched_wait_prepare() called.
Begin(s) ==
    /\ tpc[s] = "idle" /\ s \notin finished
    /\ now + Timeout[s] <= MaxTime
    /\ Goto(s, "check")
    /\ waiting' = [waiting EXCEPT ![s] = TRUE]
    /\ rem' = [rem EXCEPT ![s] = Timeout[s]]
    /\ begun' = [begun EXCEPT ![s] = now]
    /\ UNCHANGED <<now, listVars, posted, linked, cond, since, diff, finished>>

\* What is left of a wait that has returned, or of a thread's memory.
Forget(s, p) ==
    /\ Goto(s, p)
    /\ waiting' = [waiting EXCEPT ![s] = FALSE]
    /\ cond' = [cond EXCEPT ![s] = FALSE]
    /\ rem' = [rem EXCEPT ![s] = 0]
    /\ since' = [since EXCEPT ![s] = 0]
    /\ diff' = [diff EXCEPT ![s] = 0]
    /\ begun' = [begun EXCEPT ![s] = 0]

\* cond_expr holds: the wait returns 0.
Satisfied(s) ==
    /\ tpc[s] = "check" /\ cond[s] /\ s \notin finished
    /\ Forget(s, "idle")
    /\ UNCHANGED <<now, listVars, posted, linked, finished>>

\* cond_expr does not hold; sched_wait_timeout() takes the time and links the
\* timer, a local variable that nobody has written to, to the thread.
Link(s) ==
    /\ tpc[s] = "check" /\ ~cond[s] /\ s \notin finished
    /\ since' = [since EXCEPT ![s] = now]
    /\ linked' = [linked EXCEPT ![s] = TRUE]
    /\ \E b \in BOOLEAN, c \in CPUs \cup {None} :
        /\ b \/ c = None  \* owner_cpu is read only of a started timer
        /\ started' = [started EXCEPT ![s] = b]
        /\ owner' = [owner EXCEPT ![s] = c]
    /\ Goto(s, "raw")
    /\ UNCHANGED <<now, list, shared, due, astray, posted, waiting, cond, rem, diff,
                   begun, finished>>

\* Mutant: the state of the timer is not cleared.
SysTimerInitNoState(s) ==
    /\ tpc[s] = "raw" /\ s \notin finished
    /\ owner' = [owner EXCEPT ![s] = None]
    /\ Goto(s, "inited")
    /\ UNCHANGED <<now, list, started, shared, due, astray, posted, waiting, linked,
                   cond, rem, since, diff, begun, finished>>

\* sys_timer_init(): not started, on no CPU's list.
SysTimerInit(s) ==
    /\ tpc[s] = "raw" /\ s \notin finished
    /\ started' = [started EXCEPT ![s] = FALSE]
    /\ owner' = [owner EXCEPT ![s] = None]
    /\ Goto(s, "inited")
    /\ UNCHANGED <<now, list, shared, due, astray, posted, waiting, linked, cond, rem,
                   since, diff, begun, finished>>

\* sys_timer_start() on CPU c.  The time comes from the clock as
\* __timer_strat_start() reads it, the lock held; the cnt that sys_timer_start()
\* stored before it took the lock is written over there.
Arm(s, c) ==
    /\ tpc[s] = "inited" /\ s \notin finished
    /\ list' = [list EXCEPT ![c] = Start(@, s, now + rem[s])]
    /\ due' = [due EXCEPT ![c][s] = now + rem[s]]
    /\ started' = [started EXCEPT ![s] = TRUE]
    /\ owner' = [owner EXCEPT ![s] = c]
    /\ Goto(s, "armed")
    /\ UNCHANGED <<now, shared, astray, posted, waiting, linked, cond, rem, since, diff,
                   begun, finished>>

\* schedule(): the thread gives up its CPU unless a wakeup came first.
Schedule(s) ==
    /\ tpc[s] = "armed" /\ s \notin finished
    /\ Goto(s, IF waiting[s] THEN "asleep" ELSE "back")
    /\ UNCHANGED <<now, listVars, posted, waiting, linked, cond, rem, since,
                   diff, begun, finished>>

\* Mutant: a part of a tick counts as a whole one.
ElapsedRoundedUp(s) == now - since[s] + 1

\* clock() - cur_time
Elapsed(s) == now - since[s]

\* Back from schedule(): the elapsed time is taken.
Stamp(s) ==
    /\ tpc[s] = "back" /\ s \notin finished
    /\ diff' = [diff EXCEPT ![s] = Elapsed(s)]
    /\ since' = [since EXCEPT ![s] = 0]
    /\ Goto(s, "close")
    /\ UNCHANGED <<now, listVars, posted, waiting, linked, cond, rem,
                   begun, finished>>

\* The timer of s is on the list of its owner_cpu.
OnOwnersList(s) == \E c \in CPUs : owner[s] = c /\ Places(s, list[c]) # {}

\* Mutant: the list to mend is the one of the current CPU.
SysTimerStopHere(s, c) ==
    IF started[s] /\ OnOwnersList(s)
    THEN /\ list' = [list EXCEPT ![owner[s]] =
                       IF owner[s] = c THEN Stop(@, s) ELSE SelectSeq(@, LAMBDA e : e.tmr # s)]
         /\ started' = [started EXCEPT ![s] = FALSE]
         /\ owner' = [owner EXCEPT ![s] = None]
         /\ due' = [due EXCEPT ![owner[s]][s] = None]
         /\ UNCHANGED <<shared, astray>>
    ELSE UNCHANGED listVars

\* sys_timer_stop() of a sleeper's timer, called on CPU c: a started timer is
\* taken off the list it was started on.  If it is on no list, the assertion of
\* timer_strat_stop() fails, or the list of some CPU is mended at a stray link.
SysTimerStop(s, c) ==
    IF started[s]
    THEN /\ started' = [started EXCEPT ![s] = FALSE]
         /\ owner' = [owner EXCEPT ![s] = None]
         /\ \/ /\ OnOwnersList(s)
               /\ list' = [list EXCEPT ![owner[s]] = Stop(@, s)]
               /\ due' = [due EXCEPT ![owner[s]][s] = None]
               /\ UNCHANGED <<shared, astray>>
            \/ /\ ~OnOwnersList(s)
               /\ astray' = TRUE
               /\ UNCHANGED <<list, due, shared>>
    ELSE UNCHANGED listVars

\* The rest of sched_wait_timeout() on CPU c: the timer is closed; the macro
\* returns -ETIMEDOUT, or prepares to wait again for the time that is left.
Close(s, c) ==
    /\ tpc[s] = "close" /\ s \notin finished
    /\ SysTimerStop(s, c)  \* an initialised timer: closing is stopping
    /\ linked' = [linked EXCEPT ![s] = FALSE]
    /\ \/ /\ diff[s] < rem[s]
          /\ rem' = [rem EXCEPT ![s] = @ - diff[s]]
          /\ waiting' = [waiting EXCEPT ![s] = TRUE]
          /\ since' = [since EXCEPT ![s] = 0]
          /\ diff' = [diff EXCEPT ![s] = 0]
          /\ Goto(s, "check")
          /\ UNCHANGED <<cond, begun>>
       \/ diff[s] >= rem[s] /\ Forget(s, "idle")
    /\ UNCHANGED <<now, posted, finished>>

\* Mutant: only a thread that already sleeps is woken.
WakeupAsleep(S) ==
    LET woken == {s \in S \ finished : waiting[s] /\ tpc[s] = "asleep"}
    IN  /\ waiting' = [s \in Sleepers |-> waiting[s] /\ s \notin woken]
        /\ tpc' = [s \in Sleepers |-> IF s \in woken THEN "back" ELSE tpc[s]]

\* sched_wakeup() of some threads: nothing happens to one that does not wait.
Wakeup(S) ==
    LET woken == {s \in S \ finished : waiting[s]}
    IN  /\ waiting' = [s \in Sleepers |-> waiting[s] /\ s \notin woken]
        /\ tpc' = [s \in Sleepers |->
                    IF s \in woken /\ tpc[s] = "asleep" THEN "back" ELSE tpc[s]]

\* What the thread waits for happens, and it is woken.
Event(s) ==
    /\ tpc[s] \notin {"idle", "freed"} /\ ~cond[s] /\ s \notin finished
    /\ cond' = [cond EXCEPT ![s] = TRUE]
    /\ Wakeup({s})
    /\ UNCHANGED <<now, listVars, posted, linked, rem, since, diff, begun, finished>>

-----------------------------------------------------------------------------
(* A waiting thread is terminated and its memory used again.                 *)

\* thread_terminate() of a thread that is not running.
Terminate(s) ==
    /\ s \in Mortal \ finished /\ tpc[s] # "freed"
    /\ finished' = finished \cup {s}
    /\ UNCHANGED <<now, listVars, posted, waitVars>>

\* Mutant: the timers of the thread are left alone.
WaitDeinitNothing(s, c) == UNCHANGED <<listVars, linked>>

\* sys_timer_close() from CPU c.  Of a timer that has not been initialised it
\* also follows a stray timer_sharing, or gives the stack to the pool of timers
\* on the word of a stray SYS_TIMER_STATE_PREALLOC.
SysTimerClose(s, c) ==
    \/ SysTimerStop(s, c)
    \/ /\ s \in Raw
       /\ started' = [started EXCEPT ![s] = FALSE]
       /\ astray' = TRUE
       /\ UNCHANGED <<list, shared, owner, due>>

\* thread_wait_deinit(): every timer linked to the thread is closed.
WaitDeinit(s, c) ==
    /\ IF linked[s] THEN SysTimerClose(s, c) ELSE UNCHANGED listVars
    /\ linked' = [linked EXCEPT ![s] = FALSE]

\* thread_delete(): the stack with the timer on it goes back to the pool.
Delete(s, c) ==
    /\ s \in finished
    /\ WaitDeinit(s, c)
    /\ Forget(s, "freed")
    /\ finished' = finished \ {s}
    /\ UNCHANGED <<now, posted>>

\* thread_create() on the same memory.
Create(s) ==
    /\ tpc[s] = "freed"
    /\ Goto(s, "idle")
    /\ UNCHANGED <<now, listVars, posted, waiting, linked, cond, rem, since,
                   diff, begun, finished>>

-----------------------------------------------------------------------------
(* The clock, the handler of a CPU and the scheduler's ticker.               *)

HeadDue(c, time) == list[c] # <<>> /\ time >= list[c][1].cnt

\* clock_handle_ticks() on CPU c: only the owner advances the clock; the
\* handler is launched if the head of this CPU's list is due.
Tick(c) ==
    /\ now' = IF c = TickOwner /\ now < MaxTime THEN now + 1 ELSE now
    /\ posted' = [posted EXCEPT ![c] = @ \/ HeadDue(c, now')]
    /\ UNCHANGED <<listVars, waitVars, finished>>

\* Mutant: the new head keeps its delta.
DropNoFold(q) == SelectSeq(q, LAMBDA e : \A i \in Places(e.tmr, q) : Sum(q, i) > now)

\* The list after the turns of timer_strat_sched(): every turn takes off a head
\* that is due and folds its counter into the next, so the entries whose times
\* have come go, and the first that stays has an absolute time again.
Drop(q) ==
    LET n == Cardinality({i \in 1..Len(q) : Sum(q, i) <= now})
    IN  IF n = Len(q) THEN <<>>
        ELSE <<[q[n + 1] EXCEPT !.cnt = Sum(q, n + 1)]>> \o SubSeq(q, n + 2, Len(q))

\* timer_strat_sched(): the ticker, if it was due, is queued again.
Serve(q) ==
    IF \E i \in Places(Ticker, q) : Sum(q, i) <= now
    THEN Start(Drop(q), Ticker, now + Interval) ELSE Drop(q)

\* clock_handler() runs on its CPU: what is due leaves the list, and the
\* handlers run, sched_tick() or sched_wait_timeout_handler().
Handler(c) ==
    /\ posted[c]
    /\ posted' = [posted EXCEPT ![c] = FALSE]
    /\ list' = [list EXCEPT ![c] = Serve(@)]
    /\ LET fired == {s \in Sleepers : Places(s, list[c]) # {} /\ Places(s, list'[c]) = {}}
       IN  /\ started' = [s \in Sleepers |-> started[s] /\ s \notin fired]
           /\ owner' = [s \in Sleepers |-> IF s \in fired THEN None ELSE owner[s]]
           /\ Wakeup(fired)
           /\ due' = [due EXCEPT ![c] = [t \in Timers |->
                        IF t \in fired THEN None
                        ELSE IF t = Ticker /\ c \in shared /\ due[c][t] <= now
                        THEN now + Interval ELSE due[c][t]]]
    /\ UNCHANGED <<now, shared, astray, linked, cond, rem, since, diff, begun, finished>>

\* sched_ticker_add() from sched_ticker_update().
TickerAdd(c) ==
    /\ c \in TickerCpus \ shared
    /\ list' = [list EXCEPT ![c] = Start(@, Ticker, now + Interval)]
    /\ due' = [due EXCEPT ![c][Ticker] = now + Interval]
    /\ shared' = shared \cup {c}
    /\ UNCHANGED <<now, started, owner, astray, posted, waitVars, finished>>

\* sched_ticker_del() from sched_ticker_update().
TickerDel(c) ==
    /\ c \in shared
    /\ list' = [list EXCEPT ![c] = Stop(@, Ticker)]
    /\ due' = [due EXCEPT ![c][Ticker] = None]
    /\ shared' = shared \ {c}
    /\ UNCHANGED <<now, started, owner, astray, posted, waitVars, finished>>

\* A thread in its wait goes on.
WaitStep(s) ==
    /\ ~astray
    /\ \/ Satisfied(s) \/ Link(s) \/ SysTimerInit(s) \/ Schedule(s) \/ Stamp(s)
       \/ \E c \in CPUs : Arm(s, c) \/ Close(s, c)

\* Something happens to a thread.
ThreadStep(s) ==
    /\ ~astray
    /\ \/ Begin(s) \/ Event(s) \/ Terminate(s) \/ Create(s)
       \/ \E c \in CPUs : Delete(s, c)

CpuTick(c) == ~astray /\ Tick(c)
CpuHandler(c) == ~astray /\ Handler(c)
CpuTicker(c) == ~astray /\ (TickerAdd(c) \/ TickerDel(c))

\* What a kernel with a stray stop behind it does is not modelled.
Halted == astray /\ UNCHANGED vars

Next ==
    \/ \E s \in Sleepers : WaitStep(s) \/ ThreadStep(s)
    \/ \E c \in CPUs : CpuTick(c) \/ CpuHandler(c) \/ CpuTicker(c)
    \/ Halted

\* Every CPU goes on taking its timer interrupt, its clock handler runs once
\* launched, and a thread that is ready runs.  None of these steps can be
\* disabled by another CPU except by doing its work or by halting the kernel.
Fairness ==
    /\ \A c \in CPUs : WF_vars(CpuTick(c)) /\ WF_vars(CpuHandler(c))
    /\ \A s \in Sleepers : WF_vars(WaitStep(s))

Spec == Init /\ [][Next]_vars /\ Fairness

-----------------------------------------------------------------------------
(* What must hold.                                                           *)

\* Types.  The counters are unsigned in the code: a subtraction in
\* __timer_strat_start() that went below zero would leave Nat.
TypeOK ==
    /\ now \in 0..MaxTime
    /\ list \in [CPUs -> Seq([tmr : Timers, cnt : Nat])]
    /\ started \in [Sleepers -> BOOLEAN]
    /\ shared \subseteq CPUs
    /\ owner \in [Sleepers -> CPUs \cup {None}]
    /\ posted \in [CPUs -> BOOLEAN]
    /\ tpc \in [Sleepers -> {"idle", "freed"} \cup WaitPcs]
    /\ waiting \in [Sleepers -> BOOLEAN]
    /\ linked \in [Sleepers -> BOOLEAN]
    /\ cond \in [Sleepers -> BOOLEAN]
    /\ rem \in [Sleepers -> Nat]
    /\ since \in [Sleepers -> Nat]
    /\ diff \in [Sleepers -> Nat]
    /\ begun \in [Sleepers -> Nat]
    /\ finished \subseteq Mortal
    /\ due \in [CPUs -> [Timers -> Nat \cup {None}]]
    /\ astray \in BOOLEAN

\* From sys_timer_init() on the started flags tell the truth: a sleeper's timer
\* is started exactly when it is once on the list of its owner_cpu and on no
\* other, and the ticker's bit for a CPU is set exactly when it is once on that
\* CPU's list.  Between thread_wait_add() and sys_timer_init() a timer is on no
\* list, and its flag and owner_cpu, which say anything, are not to be trusted.
QueuedAsTold ==
    /\ \A s \in Sleepers, c \in CPUs :
        Places(s, list[c]) # {} <=> s \notin Raw /\ started[s] /\ owner[s] = c
    /\ \A c \in CPUs : Places(Ticker, list[c]) # {} <=> c \in shared
    /\ \A c \in CPUs, t \in Timers : \A i, j \in Places(t, list[c]) : i = j

\* The step closes the timer of a terminated thread that was preempted between
\* thread_wait_add() and sys_timer_init().
InWindow == \E s \in finished : tpc[s] = "raw" /\ tpc'[s] = "freed"

\* sys_timer_stop() may rely on the started flag and owner_cpu: they tell where
\* the timer is, and a timer that is on no list is stopped as if it were on one
\* in a single window, never by another sys_timer_close(), from whatever CPU and
\* however late.
StartedIsQueued == []QueuedAsTold /\ [][astray' # astray => InWindow]_vars

\* The timer of sched_wait_timeout() is on the waiting thread's stack: it is
\* on a list only while that call has not returned and the thread, terminated
\* or not, has not been deleted.
NoDanglingTimer ==
    \A c \in CPUs, s \in Sleepers :
        Places(s, list[c]) # {} => linked[s] /\ tpc[s] \in InWait

\* A wait returns -ETIMEDOUT only when the timeout it was called with has
\* passed since it began, however often it was woken and went round the loop.
NoEarlyTimeout ==
    [][\A s \in Sleepers :
        tpc[s] = "close" /\ tpc'[s] = "idle" => now - begun[s] >= Timeout[s]]_vars

\* The counters add up: every queued timer has been asked for, and the deltas
\* up to and including it sum to the time it was asked to fire at, whatever was
\* queued and removed around it since and from whichever CPU.
DeltasExact ==
    \A c \in CPUs, t \in Timers :
        /\ due[c][t] = None <=> Places(t, list[c]) = {}
        /\ \A i \in Places(t, list[c]) : Sum(list[c], i) = due[c][t]

\* The clock of the model stopped before the timer of s was due.
OutOfTime(s) ==
    now = MaxTime /\ \E c \in CPUs : due[c][s] # None /\ due[c][s] > MaxTime

\* A timed wait comes back: wherever its timer was queued and wherever the
\* thread runs afterwards, a thread is again and again outside the wait, unless
\* it is terminated or the kernel halts.
SleepReturns ==
    \A s \in Sleepers :
        []<>(tpc[s] \in {"idle", "freed"} \/ s \in finished \/ OutOfTime(s) \/ astray)

TS == INSTANCE TimerSet WITH
    Periodic <- {Ticker},
    Loads <- 1..MaxTime,
    Off <- None

\* The delta lists, with a counter per list for the ticker and timers stopped
\* from other CPUs, fire every timer at its time, never before, and miss none that is due.
ImplementsTimerSet == TS!Spec
=============================================================================
