SPECIFICATION FairSpec
CONSTANTS
    Sockets = {s1, s2}
    NoSocket = NoSocket
    MaxResolves = 2
    MaxWrites = 2
CHECK_DEADLOCK FALSE
INVARIANTS
    TypeOK
    SocketWhenUp
    KeepaliveArmed
    ConnectedMeansLoggedOn
    LogonFirst
    LogonInFlight
    LoopFaultsNeedOrphan
PROPERTIES
    GuardedCallsAreSafe
    LogonSettles
    ImplementsSession
    ImplementsFairSession
