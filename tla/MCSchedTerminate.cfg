CONSTANTS
    c0 = c0
    c1 = c1
    i0 = i0
    i1 = i1
    t1 = t1
    t2 = t2
    t3 = t3
    l1 = l1
    None = None
    CPUs = {c0, c1}
    Threads = {i0, i1, t1, t2}
    LThreads = {}
    Idle <- MCIdle
    Affinity <- Bound
    Levels = {0, 1}
    InitPrio <- Flat
    Launched = {}
    Ticking = FALSE
    BareWakers = FALSE
    Setters = {}
    Tunable = {}
    Terminable = {t1}
    Exiting = {}
SPECIFICATION Spec
INVARIANT FinishedNeverQueued
