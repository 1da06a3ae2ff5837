SPECIFICATION Spec
CONSTANTS
    Setups <- RelayOnly
    MaxSuspensions = 2
    MaxSleep = 1
    Dumps <- MCDumps
    None = None
    Names = {1, 2}
INVARIANT NoRequestRunTwice
CHECK_DEADLOCK FALSE
