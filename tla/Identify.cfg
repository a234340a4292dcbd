SPECIFICATION Spec
CONSTANTS
    ShardCount = 3
    MaxConcurrency = 3
    BucketCap = 2
    Spacing = 2
    Limits <- SmallLimits
    Delays <- OneDelay
    MaxTime = 5
CHECK_DEADLOCK FALSE
INVARIANT ReportedLimitHolds
PROPERTY BucketSpacing
