SPECIFICATION Spec
CONSTANTS
    bootAdmin = bootAdmin
    bootServer = bootServer
    Keys = {bootAdmin, bootServer, k1, k2, k3, k4}
    BootScopes <- MCBootScopes
    Calls = {c1, c2, c3}
    Limit = 2
    MaxInFlight = 2
    NoKey = NoKey
SYMMETRY Symmetry
INVARIANTS
    TypeOK
    KeysBounded
PROPERTIES
    DeactivatedStaysOff
CHECK_DEADLOCK FALSE
