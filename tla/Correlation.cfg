SPECIFICATION SafeSpec
CONSTANTS
    Users = {u1, u2}
    Requests = {r1, r2}
    Ids = {i1, i2}
    Callbacks = {c1, c2}
    None = None
    IdsAreUnique = TRUE
    MessageLimit = 2
    WaitTimeout = 1
    RegistryTimeout = 1
    CleanupInterval = 1
    Lag = 1
SYMMETRY Symmetric
INVARIANTS
    TypeOK
    NoCrossTalk
    BlockedWaiterIsReachable
    StoreHoldsOnlyLiveRequests
    NoPrematureExpiry
    CountsRegisteredMessages
PROPERTIES
    NeverTurnedAwayWhileBlocked
    DrainWaitsForBlockedUsers
    AcknowledgedIsNotCancelled
