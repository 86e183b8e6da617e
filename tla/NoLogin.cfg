SPECIFICATION SafeSpec
CONSTANTS
    Users = {u1, u2}
    LoginEnabled = FALSE
    RetryMax = 2
INVARIANT
    ReadyUserCanSubmit
