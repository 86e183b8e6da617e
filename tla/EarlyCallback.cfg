SPECIFICATION SafeSpec
CONSTANTS
    Users = {u1}
    Requests = {r1}
    Ids = {i1}
    Callbacks = {c1}
    None = None
    IdsAreUnique = TRUE
    MessageLimit = 1
    WaitTimeout = 1
    RegistryTimeout = 1
    CleanupInterval = 1
    Lag = 0
INVARIANT
    TurnedAwayOnlyWhenOver
