SPECIFICATION MemorySpec
CONSTANTS
    Sockets = {s1, s2}
    NoSocket = NoSocket
    MaxResolves = 2
    MaxWrites = 2
    MaxConnects = 3
    MaxStranded = 1
CHECK_DEADLOCK FALSE
SYMMETRY Symmetry
INVARIANTS
    MemoryTypeOK
    Accounting
    RefusedWriteRearms
    OrderlyDestroyIsQuiet
