SPECIFICATION SafeSpec
CONSTANTS
    Users = {u1, u2}
    Requests = {r1, r2}
    Ids = {i1, i2}
    Callbacks = {c1}
    None = None
    IdsAreUnique = FALSE
    MessageLimit = 2
    WaitTimeout = 1
    RegistryTimeout = 1
    CleanupInterval = 1
    Lag = 0
SYMMETRY Symmetric
INVARIANTS
    AnswerCarriesMyId
    StoreHoldsOnlyLiveRequests
    OneEntryPerUser
PROPERTY KeepsAsyncRequestAnyIds
