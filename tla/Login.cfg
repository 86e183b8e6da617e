SPECIFICATION Spec
CONSTANTS
    Users = {u1, u2}
    LoginEnabled = TRUE
    RetryMax = 2
CHECK_DEADLOCK FALSE
INVARIANTS
    TypeOK
    NoEarlyGiveUp
    ReadyUserCanSubmit
PROPERTY
    LoginEnds
    LoginAdvances
