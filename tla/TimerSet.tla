------------------------------ MODULE TimerSet ------------------------------
(***************************************************************************)
(* What a per-CPU timer list promises, without lists or deltas: every      *)
(* armed timer has the absolute time at which it is due on a CPU, and when *)
(* a CPU fires its timers it fires exactly those that are due.             *)
(***************************************************************************)
EXTENDS Integers

CONSTANTS
    CPUs,      \* the CPUs, each with a list of its own
    Timers,    \* the timers
    Periodic,  \* the timers that are armed again when they fire
    Interval,  \* the period of a periodic timer
    Loads,     \* the delays timers are armed with
    Off        \* the due time of a timer that is not armed

VARIABLES
    now,       \* jiffies
    due        \* due[c][t] is when t fires on c

vars == <<now, due>>

Init ==
    /\ now = 0
    /\ due = [c \in CPUs |-> [t \in Timers |-> Off]]

\* The clock advances.
Advance == now' = now + 1 /\ UNCHANGED due

\* A timer is armed, load ticks from now.
Arm(c, t) ==
    /\ due[c][t] = Off
    /\ \E load \in Loads : due' = [due EXCEPT ![c][t] = now + load]
    /\ UNCHANGED now

Disarm(c, t) ==
    /\ due[c][t] # Off
    /\ due' = [due EXCEPT ![c][t] = Off]
    /\ UNCHANGED now

\* Everything due on c fires; periodic timers are armed for their next time.
Fire(c) ==
    LET fired == {t \in Timers : due[c][t] # Off /\ due[c][t] <= now}
    IN  /\ fired # {}
        /\ due' = [due EXCEPT ![c] =
                    [t \in Timers |-> IF t \notin fired THEN due[c][t]
                                      ELSE IF t \in Periodic THEN now + Interval
                                      ELSE Off]]
        /\ UNCHANGED now

Next ==
    \/ Advance
    \/ \E c \in CPUs : Fire(c) \/ \E t \in Timers : Arm(c, t) \/ Disarm(c, t)

Spec == Init /\ [][Next]_vars
=============================================================================
