CONSTANTS
    c0 = c0
    c1 = c1
    i0 = i0
    i1 = i1
    t1 = t1
    t2 = t2
    t3 = t3
    l1 = l1
    None = None
    CPUs = {c0, c1}
    Threads = {i0, i1, t1, t2}
    LThreads = {}
    Idle <- MCIdle
    Affinity <- Free
    Levels = {0, 1, 2}
    InitPrio <- Flat
    Launched = {t1, t2}
    Ticking = TRUE
    BareWakers = TRUE
    Setters = {}
    Tunable = {}
    Terminable = {}
    Exiting = {}
SPECIFICATION Spec
INVARIANTS TypeOK BklPromise OneCpuPerThread QueuedIsOff NrReadyExact NoLostWakeup
PROPERTY WakingIsServed
SYMMETRY Alike
