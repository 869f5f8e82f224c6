CONSTANTS
    c0 = c0
    c1 = c1
    i0 = i0
    i1 = i1
    t1 = t1
    t2 = t2
    t3 = t3
    l1 = l1
    None = None
    CPUs = {c0, c1}
    Threads = {i0, i1, t1, t2, t3}
    LThreads = {}
    Idle <- MCIdle
    Affinity <- Split
    Levels = {0, 1}
    InitPrio <- Flat
    Launched = {t1, t2, t3}
    Ticking = FALSE
    BareWakers = TRUE
    Setters = {}
    Tunable = {}
    Terminable = {}
    Exiting = {}
SPECIFICATION Spec
INVARIANT PinnedStarts
