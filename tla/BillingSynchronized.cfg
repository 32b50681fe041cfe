SPECIFICATION FairSpec
CONSTANTS
    user = user
    other = other
    member = member
    org = org
    NoOwner = NoOwner
    Owners = {user, other, member, org}
    Tenants = {t1}
    Principals <- MCAlone
    Plans = {"starter", "growth"}
    PlanQuotas <- MCQuotas
    BootstrapQuota = 1
    TrialLimit = 2
    Subscriptions = {s1}
    NoSubscription = NoSubscription
    InOrder = TRUE
    MaxEvents = 2
    MaxUsed = 1
INVARIANTS
    PaidWorkspaceHasQuota
PROPERTIES
    CancellationSynchronized
CHECK_DEADLOCK FALSE
