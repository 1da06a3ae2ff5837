SPECIFICATION FairSpec
CONSTANTS
    Clients = {c1, c2}
    c1 = c1
    c2 = c2
    MinProcesses = 1
    MaxProcesses = 1
    RecycleLimit = 2
    NoLimit = NoLimit
    Transports = {"subprocess", "remote"}
    HasTimeout = FALSE
    Threads = 1
CHECK_DEADLOCK FALSE
PROPERTY BlockedServed
PROPERTY FloorRestored
PROPERTY DropReapsAll
PROPERTY ClosedQuiesces
