SPECIFICATION FairSpec
CONSTANTS
    Sockets = {s1, s2}
    NoSocket = NoSocket
    MaxResolves = 2
    MaxWrites = 2
CHECK_DEADLOCK FALSE
PROPERTIES
    TimerQuietAfterDisconnect
