SPECIFICATION Spec
CONSTANTS
    None = None
    d1 = d1
    d2 = d2
    w1 = w1
    w2 = w2
    Dispatchers = {d1, d2}
    Reloaders = {w1, w2}
    Supervisor = Supervisor
    Owner = Owner
    MaxWorkers = 3
    MaxConsecutive = 2
    MaxErrorPercent = 60
    Environments <- WatchedEnvironments
INVARIANTS
    RetiredIsIdle
CHECK_DEADLOCK FALSE
