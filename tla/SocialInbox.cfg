SPECIFICATION Spec
CONSTANTS
    Comments = {m1, m2}
    Supported = {m1}
    NoComment = NoComment
    Accounts = {a1, a2}
    NoAccount = NoAccount
    Profiles = {p1}
    Deliveries = {d1}
    Calls = {c1, c2}
    NoCall = NoCall
    NoEvent = NoEvent
SYMMETRY Symmetry
INVARIANTS
    TypeOK
    InboxAgrees
    TokensOnlyWhileConnected
    RemovedHasNoToken
CHECK_DEADLOCK FALSE
