SPECIFICATION FairSpec
CONSTANTS
    Daemons = {d1, d2}
    Clients = {c1, c2}
    c1 = c1
    c2 = c2
    d1 = d1
    d2 = d2
    Commands <- MCCommands
    Skewed = {d1}
    Started <- MCStarted
    IdleExit = {d1}
    Struck = {d1}
    MaxConns = 1
    None = None
CHECK_DEADLOCK FALSE
INVARIANTS HandlersUnderLock ListenerReachable StopMeansClosed
PROPERTIES ShutdownEnds ClientReturns
