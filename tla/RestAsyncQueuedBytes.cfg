CONSTANTS
    r1 = r1
    r2 = r2
    r3 = r3
    ra = ra
    rb = rb
    None = None
    Requests = {r1, r2, r3}
    Routes = {ra, rb}
    Levels = 2
    ResponseSizes = {0}
    Concurrency = 1
    RouteCap = 2
    MaxRetries = 1
    MaxRequestBytes = 2
    MaxQueuedRequests = 9
    MaxQueuedBytes = 2
    MaxActiveBytes = 4
    MaxResponseBytes = 2
    SizeMod = 16
    MaxWait = 1
    Environments <- QuietEnvironments
    RouteOf <- MCRouteOf
    PriorityOf <- MCPriorityOf
    ChargeOf <- MCChargeOf
    BucketOf <- MCBucketOf
SPECIFICATION Spec
PROPERTIES
    AdmissionWithinQueuedBytes
CHECK_DEADLOCK FALSE
