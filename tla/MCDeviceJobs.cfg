SPECIFICATION OneShotSpec
CONSTANTS
    Devices = {1, 2, 3}
    Points <- MCPoints
    DeviceOf <- MCDeviceOf
    TargetedPasses = 2
    ChunkSize = 2
    MaxObjects = 1
    MaxCount = 2
    Interfaces = {eth0, eth1}
    BroadcastPasses = 2
CHECK_DEADLOCK FALSE
INVARIANTS
    BothTypeOK
    RefreshSound
    JobsAccount
    DiscoveryHonest
PROPERTIES
    AllEnd
