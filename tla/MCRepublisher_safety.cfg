SPECIFICATION Spec
CONSTANTS
    d1 = d1
    d2 = d2
    p1 = p1
    p2 = p2
    p3 = p3
    p4 = p4
    p5 = p5
    p6 = p6
    Points <- SixPoints
    Devices <- TwoDevices
    Identities <- FiveIdentities
    DeviceOf <- SixPointsDevice
    IdentityOf <- SixPointsIdentity
    Interval <- SixPointsInterval
    Enabled <- EnabledOfSix
    Readable <- ReadableOfSix
    Responsive <- NoDevice
    Concurrency = 2
    KEEPALIVE = 3
    RERESOLVE = 2
    BACKOFF_INITIAL = 1
    BackoffMax = 3
    Horizon = 3
INVARIANTS
    TypeOK
    UnresolvedStale
    BackoffShows
    NeverPassedOver
PROPERTIES
    HealthOkHonest
