SPECIFICATION Spec
CONSTANTS
    user = user
    other = other
    member = member
    org = org
    NoOwner = NoOwner
    Owners = {user, other, member, org}
    Tenants = {t1}
    Principals <- MCAlone
    Plans = {"starter", "growth"}
    PlanQuotas <- MCQuotas
    BootstrapQuota = 1
    TrialLimit = 2
    Subscriptions = {s1, s2}
    NoSubscription = NoSubscription
    InOrder = TRUE
    MaxEvents = 2
    MaxUsed = 0
INVARIANTS
    PaidWorkspaceHasQuota
CHECK_DEADLOCK FALSE
