SPECIFICATION LogonSpec
CONSTANTS
    Sockets = {s1, s2}
    NoSocket = NoSocket
    MaxResolves = 2
    MaxWrites = 1
    MaxSettings = 2
    InitialCRC = 6
    ServerCRCs = {1, 5}
    HalfMod = 4
CHECK_DEADLOCK FALSE
SYMMETRY Symmetry
INVARIANTS
    LogonTypeOK
    OwnOrLaterSettings
    OneFalseChange
