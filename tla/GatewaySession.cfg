SPECIFICATION FairSpec
CONSTANTS
    c1 = c1
    c2 = c2
    Callers = {c1, c2}
    MaxConns = 2
    Environments <- SessionEnvironments
INVARIANTS
    SocketReferences
    HeartbeatHasSession
    AckFlagIsHonest
    
PROPERTIES
    StopEndsTask
    RequestIsTaken
CHECK_DEADLOCK FALSE
