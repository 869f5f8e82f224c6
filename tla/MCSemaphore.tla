---------------------------- MODULE MCSemaphore -----------------------------
(* Three threads at a semaphore of two units. *)
EXTENDS Semaphore, TLC

CONSTANTS a, b, c

Do(op) == [op |-> op, arg |-> Sem]

\* The threads of tests/kernel/thread/sync/sem_test.c, not pinned to one CPU.
Enter == [t \in Threads |-> <<Do("enter"), Do("leave")>>]

\* One of them with a timeout, and one that takes both units without waiting.
Timed ==
    (a :> <<Do("timedwait"), Do("leave")>>) @@
    (b :> <<Do("tryenter"), Do("tryenter"), Do("leave"), Do("leave")>>) @@
    (c :> <<>>)

MCPrograms == {Enter, Timed}
=============================================================================
