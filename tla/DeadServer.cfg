SPECIFICATION Spec
CONSTANTS
    Users = {u1, u2}
    None = None
    h1 = h1
    b1 = b1
    b2 = b2
    d1 = d1
    d2 = d2
    n1 = n1
    n2 = n2
    Env <- MCEnv
    Timeouts <- MCTimeouts
    Hosts <- MCHosts
    Boards <- MCBoards
    Datasets <- MCDatasets
    Names <- MCNames
    MaxIndex = 3
CHECK_DEADLOCK FALSE
INVARIANT NoTestWithoutServer
