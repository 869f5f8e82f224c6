CONSTANTS
    c0 = c0
    c1 = c1
    s1 = s1
    s2 = s2
    s3 = s3
    None = None
    Items = {s1, s2, s3}
    CPUs = {c0, c1}
    Affinity <- MCAffinity
    MaxPrio = 5
    Prios = {0, 1, 4}
    Bits = 2
SPECIFICATION Spec
INVARIANTS MapMatchesLists
PROPERTY ImplementsPrioQueue
SYMMETRY Alike
