SPECIFICATION SVFairSpec
CONSTANTS
    Task = {pump, catchup}
    Monitored = {pump}
    OneShot = {catchup}
    Panicky = {pump}
    Cap = 1
    Window = 2
    WarnAt = 1
    ActAt = 2
    BackoffFloor = 1
    BackoffCap = 3
    Stall = 3
    Poll = 2
    BootFloor = 1
    BootCap = 2
    Decay = 7
    MaxStored = 2
    Bits = 3
    MaxBack = 1
INVARIANT DetectedInTime
PROPERTIES NoFalseTrip BackoffHonoured CrashLoopEscalates BootsEventually
