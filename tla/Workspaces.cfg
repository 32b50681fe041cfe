SPECIFICATION Spec
CONSTANTS
    user = user
    other = other
    member = member
    org = org
    NoOwner = NoOwner
    Owners = {user, other, member, org}
    Tenants = {t1, t2, t3}
    Principals <- MCApart
    Plans = {"starter", "growth"}
    PlanQuotas <- MCQuotas
    BootstrapQuota = 1
    TrialLimit = 2
    Subscriptions = {s1}
    NoSubscription = NoSubscription
    InOrder = FALSE
    MaxEvents = 2
    MaxUsed = 1
SYMMETRY Symmetry
INVARIANTS
    TypeOK
    PoolRowsAgree
    QuotaWasPaid
PROPERTIES
    OwnPlanUntouched
    DeletionFreesItsUsageOnly
CHECK_DEADLOCK FALSE
