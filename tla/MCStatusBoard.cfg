SPECIFICATION Spec
CONSTANTS
    p = p
    q = q
    Points <- MCPoints
    Identities <- MCPoints
    IdentityOf <- MCIdentityOf
    DeviceOf <- MCDeviceOf
    Republisher = rep
    Onces = {o1}
    Capacity = 1
    Backlog = 1
SYMMETRY Interchangeable
INVARIANTS
    TypeOK
    NothingFromNowhere
    PublishAttributed
    BoardMatchesWorker
