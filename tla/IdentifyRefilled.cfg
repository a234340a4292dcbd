SPECIFICATION Spec
CONSTANTS
    ShardCount = 2
    MaxConcurrency = 0
    BucketCap = 2
    Spacing = 2
    Limits <- KnownLimit
    Delays <- NoDelay
    MaxTime = 9
CHECK_DEADLOCK FALSE
INVARIANT LimitIsConsumed
