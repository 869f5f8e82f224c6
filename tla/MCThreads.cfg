CONSTANTS
    p = p
    main = main
    lo = lo
    hi = hi
    x = x
    r = r
    e = e
    cv = cv
    bar = bar
    rw = rw
    None = None
    Main = main
    Parent = p
    Children = pids
    Threads = {p, main, lo, hi}
    Mutexes = {x, r, e}
    Conds = {cv}
    Barriers = {bar}
    RwLocks = {rw}
    Queues = {x, r, e, cv, bar, rw, pids}
    Kind <- MCKind
    Guards <- MCGuards
    Parties <- MCParties
    Base <- MCBase
    Programs <- MCPrograms
SPECIFICATION Spec
INVARIANTS TypeOK HolderHasLocked NoLostSleeper BoostCoversSleepers BarrierTogether OneLink Undisturbed FreedWhenUnused NoLeak
PROPERTIES Finishes
