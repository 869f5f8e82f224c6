CONSTANTS
    a = a
    b = b
    c = c
    None = None
    Sem = sem
    Threads = {a, b, c}
    Queues = {sem}
    MaxValue = 2
    Programs <- MCPrograms
SPECIFICATION Spec
INVARIANT SemExact
