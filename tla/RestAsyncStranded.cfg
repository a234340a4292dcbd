CONSTANTS
    r1 = r1
    r2 = r2
    r3 = r3
    ra = ra
    rb = rb
    None = None
    Requests = {r1, r2}
    Routes = {ra}
    Levels = 2
    ResponseSizes = {0}
    Concurrency = 2
    RouteCap = 2
    MaxRetries = 1
    MaxRequestBytes = 2
    MaxQueuedRequests = 2
    MaxQueuedBytes = 4
    MaxActiveBytes = 4
    MaxResponseBytes = 2
    SizeMod = 16
    MaxWait = 1
    Environments <- QuietEnvironments
    RouteOf <- MCRouteOf
    PriorityOf <- MCPriorityOf
    ChargeOf <- MCChargeOf
    BucketOf <- MCBucketOf
SPECIFICATION FairSpec
PROPERTIES
    AcceptedIsDelivered
CHECK_DEADLOCK FALSE
