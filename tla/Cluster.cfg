SPECIFICATION FairSpec
CONSTANTS
    ShardCount = 2
    Callers = {a, b}
    MaxTasks = 4
    a = a
    b = b
    Environments <- ClusterEnvironments
INVARIANTS
    EachFailureJudgedOnce
PROPERTIES
    StopIsFinal
    DownIsReported
CHECK_DEADLOCK FALSE
