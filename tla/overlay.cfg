SPECIFICATION Spec
CONSTANTS
    Paths <- MCPaths
    Data <- MCData
    Bases <- MCBases
    EntryUsage = 1
    DirectoryWriteBytes = 1
    MemoryUsageLimit = 21
    WriteBytesLimit = 2
INVARIANTS ListingExact MemoryExact
PROPERTY ImplementsTree
CHECK_DEADLOCK FALSE
