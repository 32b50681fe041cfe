SPECIFICATION Spec
CONSTANTS
    alpha = alpha
    beta = beta
    gamma = gamma
    user = user
    Tenants = {alpha, beta, gamma}
    Owners = {user}
    NoOwner = NoOwner
    CaseActions = {review, block}
    NoCall = NoCall
    Requests = {r1, r2, r3}
    Payloads <- MCPayloads
    InitialTables <- MCTables
    MaxCost = 10
    MaxInFlight = 2
    MaxMonth = 2
SYMMETRY Symmetry
INVARIANTS
    WithinQuota
CHECK_DEADLOCK FALSE
