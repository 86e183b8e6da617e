SPECIFICATION Spec
CONSTANTS
    Users = {u1}
    Requests = {r1, r2}
    Ids = {i1, i2}
    Callbacks = {c1}
    None = None
    IdsAreUnique = TRUE
    MessageLimit = 2
    WaitTimeout = 1
    RegistryTimeout = 1
    CleanupInterval = 1
    Lag = 0
PROPERTIES
    EveryRegisteredRequestEnds
    QuitCompletes
    ImplementsAsyncRequest
