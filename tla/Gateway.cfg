SPECIFICATION GatewaySpec
CONSTANTS
    a1 = a1
    a2 = a2
    a3 = a3
    a4 = a4
    d1 = d1
    d2 = d2
    p1 = p1
    p2 = p2
    Requests <- MCRequests
    Processes = {p1, p2}
    process <- MCProcess
    Arriving <- MCArriving
    Dashboard <- MCDashboard
    WithBody = {a2}
    Limit = 2
    Minute = 2
    MaxTime = 2
    Sets = 2
    TTL = 1
INVARIANTS
    TypeOK
    AdmittedWithinLimit
    RunAgainOnlyAfterFailure
    KeysAreRecent

    
SYMMETRY Symmetry
CHECK_DEADLOCK FALSE
