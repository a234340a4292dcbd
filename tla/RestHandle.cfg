SPECIFICATION FairSpec
CONSTANTS
    None = None
    p1 = p1
    a1 = a1
    a2 = a2
    h1 = h1
    t1 = t1
    Plain = {p1}
    Chained = {a1, a2}
    Hosts = {h1}
    Tasks = {t1}
    Environments <- HandleEnvironments
INVARIANTS
    HandleReferences
    WaitMeansDelivered
    CancelIsRemembered
PROPERTIES
    EverythingReturns
CHECK_DEADLOCK FALSE
