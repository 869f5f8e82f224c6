CONSTANTS
    c0 = c0
    c1 = c1
    t1 = t1
    t2 = t2
    t3 = t3
    None = None
    CPUs = {c0, c1}
    Threads = {t1, t2, t3}
    Boot <- MCBoot
    Radix = 4
    MaxNest = 2
    MaxCalls <- MCCalls
    MaxEvents = 2
SPECIFICATION Spec
INVARIANTS TypeOK CountIsSections MaskedWhereNeeded NoWaitCycle PreemptNotLost
PROPERTIES LockIsReleased SwitchHappens
