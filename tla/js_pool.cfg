SPECIFICATION FairSpec
CONSTANTS
    Clients = {c1, c2, c3}
    c1 = c1
    c2 = c2
    c3 = c3
    Workers = {w1, w2}
    w1 = w1
    w2 = w2
    None = None
    MinWorkers = 1
    MaxWorkers = 2
    MaxCheckouts = 2
INVARIANTS CapacityExact NoneStranded
PROPERTY ClosedReaps
CHECK_DEADLOCK FALSE
