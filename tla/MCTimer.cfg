CONSTANTS
    s1 = s1
    s2 = s2
    c0 = c0
    c1 = c1
    tk = tk
    None = None
    CPUs = {c0, c1}
    TickOwner = c0
    Sleepers = {s1, s2}
    Ticker = tk
    TickerCpus = {c1}
    Interval = 1
    Timeout <- MCTimeout
    Mortal = {s1}
    MaxTime = 2
SPECIFICATION Spec
INVARIANTS TypeOK DeltasExact 
PROPERTIES StartedIsQueued  ImplementsTimerSet SleepReturns
