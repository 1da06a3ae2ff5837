SPECIFICATION Spec
CONSTANTS
    Clients = {c1, c2, c3}
    c1 = c1
    c2 = c2
    c3 = c3
    MinProcesses = 2
    MaxProcesses = 2
    RecycleLimit = 2
    NoLimit = NoLimit
    Transports = {"subprocess", "remote"}
    HasTimeout = TRUE
    Threads = 2
SYMMETRY ClientSymmetry
INVARIANT SlotsExact
INVARIANT FloorKept
INVARIANT NoLostWakeup
INVARIANT OneRetry
CHECK_DEADLOCK FALSE
