SPECIFICATION FairSpec
CONSTANTS
    d1 = d1
    d2 = d2
    p1 = p1
    p2 = p2
    p3 = p3
    p4 = p4
    p5 = p5
    p6 = p6
    Points <- OnePoint
    Devices <- OneDevice
    Identities <- OnePoint
    DeviceOf <- OnePointDevice
    IdentityOf <- OnePointIdentity
    Interval <- OnePointInterval
    Enabled <- OnePoint
    Readable <- OnePoint
    Responsive <- NoDevice
    Concurrency = 1
    KEEPALIVE = 3
    RERESOLVE = 2
    BACKOFF_INITIAL = 1
    BackoffMax = 2
    Horizon = 2
PROPERTIES
    HealthShowsUnresolved
