SPECIFICATION FairSpec
CONSTANTS
    d1 = d1
    d2 = d2
    p1 = p1
    p2 = p2
    p3 = p3
    p4 = p4
    p5 = p5
    p6 = p6
    Points <- TwoPoints
    Devices <- TwoDevices
    Identities <- TwoPoints
    DeviceOf <- TwoPointsDevice
    IdentityOf <- TwoPointsIdentity
    Interval <- TwoPointsInterval
    Enabled <- TwoPoints
    Readable <- TwoPoints
    Responsive <- OneDevice
    Concurrency = 1
    KEEPALIVE = 3
    RERESOLVE = 2
    BACKOFF_INITIAL = 1
    BackoffMax = 2
    Horizon = 2
PROPERTIES
    StopHonoured
    HeldBackRetried
    ResponsiveSampled
    ImplementsContract
    ImplementsFairContract
