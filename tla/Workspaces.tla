----------------------------- MODULE Workspaces -----------------------------
(***************************************************************************)
(* Workspaces of Clerk accounts and what Stripe makes of their plans:      *)
(* onboarding, deletion and billing scope (app/main.py,                    *)
(* app/repositories/tenants.py) and the webhooks that keep plan and quota  *)
(* in step with subscriptions (app/services/billing_service.py).           *)
(*                                                                         *)
(* Every handler here runs without awaiting anything between its first     *)
(* query and its commit, so one process executes it in one step.  Stripe   *)
(* is external: it keeps subscriptions, and sends events that may arrive   *)
(* in any order unless InOrder says that they do not.                      *)
(***************************************************************************)
EXTENDS Tenancy, SequencesExt, FiniteSetsExt

CONSTANTS
    Principals,       \* [user, org] of the tokens in use
    Plans,            \* names of the plans on sale
    PlanQuotas,       \* billing_plan_quotas
    BootstrapQuota,   \* bootstrap_monthly_quota: the trial
    TrialLimit,       \* trial_workspace_limit, 0 for none
    Subscriptions,    \* ids Stripe may give
    NoSubscription,   \* stripe_subscription_id is NULL
    InOrder,          \* events of a subscription arrive in order
    MaxEvents,        \* bound: events under way at once
    MaxUsed           \* bound: credits a workspace uses

Statuses == {"trialing", "active", "past_due", "canceled"}

\* Mutant: a cancelled subscription keeps its quota.
LapsedUnlessCanceled == {"past_due"}

\* Statuses of a subscription that is not paid for; "unpaid" and
\* "incomplete_expired", which the code treats alike, stand under "past_due".
Lapsed == {"past_due", "canceled"}

Quotas == {0, BootstrapQuota} \cup {PlanQuotas[plan] : plan \in Plans}

ASSUME WorkspacesAssumption ==
    /\ NoOwner \notin Owners /\ NoSubscription \notin Subscriptions
    /\ Principals \subseteq [user : Owners, org : Owners \cup {NoOwner}]
    /\ PlanQuotas \in [Plans -> Nat]
    /\ BootstrapQuota \in Nat /\ TrialLimit \in Nat
    /\ "starter" \in Plans
    /\ InOrder \in BOOLEAN

VARIABLES
    tenants,        \* slug -> row of the tenants table
    used,           \* slug -> credits charged this month
    subscriptions,  \* Stripe: id -> status and checkout metadata
    events          \* Stripe: events not yet accepted, oldest first

vars == <<tenants, used, subscriptions, events>>

Row == [user : Owners, org : Owners \cup {NoOwner}, created_at : Nat, is_active : BOOLEAN,
        billing_scope : BillingScopes, plan_name : Plans, monthly_quota : Quotas,
        subscription_status : Statuses, stripe_subscription_id : Subscriptions \cup {NoSubscription}]

Metadata == [tenant_slug : Tenants, plan_name : Plans, billing_scope : BillingScopes]

Events == [type : {"completed", "changed"}, id : Subscriptions, status : Statuses, metadata : Metadata]

TypeOK ==
    /\ DOMAIN tenants \subseteq Tenants
    /\ \A t \in DOMAIN tenants : tenants[t] \in Row
    /\ \A t, u \in DOMAIN tenants : tenants[t].created_at = tenants[u].created_at => t = u
    /\ DOMAIN used = DOMAIN tenants
    /\ \A t \in DOMAIN used : used[t] \in Nat
    /\ DOMAIN subscriptions \subseteq Subscriptions
    /\ \A id \in DOMAIN subscriptions :
          subscriptions[id] \in [status : Statuses \cup {"open"}, metadata : Metadata]
    /\ events \in Seq(Events)

Init ==
    /\ tenants = [t \in {} |-> t]
    /\ used = [t \in {} |-> t]
    /\ subscriptions = [id \in {} |-> id]
    /\ events = <<>>

Extend(f, x, y) == [z \in DOMAIN f \cup {x} |-> IF z = x THEN y ELSE f[z]]

-----------------------------------------------------------------------------
(* The account's workspaces.                                               *)

\* The workspaces whose plan a new one takes over.
QuotaSource(p) ==
    LET existing == list_tenants_by_clerk_owner(tenants, p)
    IN  IF AccountBilled(tenants, existing) # {} THEN AccountBilled(tenants, existing) ELSE existing

\* 403 from onboard_tenant.
TrialFull(p) ==
    LET existing == list_tenants_by_clerk_owner(tenants, p)
    IN  /\ TrialLimit > 0
        /\ Cardinality(existing) >= TrialLimit
        /\ \A t \in existing : tenants[t].subscription_status = "trialing"

\* onboard_tenant: _slugify and the loop below it find a slug not in use.
Onboard(p, t) ==
    /\ t \notin DOMAIN tenants
    /\ ~ TrialFull(p)
    /\ LET fresh == [user |-> p.user, org |-> p.org,
                     created_at |-> Cardinality(DOMAIN tenants) + 1, is_active |-> TRUE,
                     billing_scope |-> "account", plan_name |-> "starter",
                     monthly_quota |-> BootstrapQuota, subscription_status |-> "trialing",
                     stripe_subscription_id |-> NoSubscription]
           from == tenants[quota_owner(tenants, QuotaSource(p))]
       IN  tenants' = Extend(tenants, t,
               IF QuotaSource(p) = {} THEN fresh
               ELSE [fresh EXCEPT !.plan_name = from.plan_name,
                                  !.monthly_quota = from.monthly_quota,
                                  !.subscription_status = from.subscription_status,
                                  !.stripe_subscription_id = from.stripe_subscription_id])
    /\ used' = Extend(used, t, 0)
    /\ UNCHANGED <<subscriptions, events>>

\* Mutant: each of them goes on with a plan of its own.
InheritOwn(row, from) ==
    [row EXCEPT !.plan_name = from.plan_name, !.monthly_quota = from.monthly_quota,
                !.billing_scope = "workspace"]

\* What delete_clerk_workspace hands to the account's other workspaces.
Inherit(row, from) ==
    [row EXCEPT !.plan_name = from.plan_name,
                !.monthly_quota = from.monthly_quota,
                !.subscription_status = from.subscription_status,
                !.stripe_subscription_id =
                    IF from.stripe_subscription_id # NoSubscription
                    THEN from.stripe_subscription_id ELSE @]

\* delete_clerk_workspace.  Without account-billed workspaces in the account
\* of the principal, max fails on an empty list and nothing changes.
Delete(p, t) ==
    LET account == list_tenants_by_clerk_owner(tenants, p)
        shared  == AccountBilled(tenants, account)
        after(u) ==
            IF tenants[t].billing_scope = "account" /\ u \in shared \ {t}
            THEN Inherit(tenants[u], tenants[quota_owner(tenants, shared)]) ELSE tenants[u]
    IN  /\ t \in Owned(tenants, p)
        /\ Cardinality(account) > 1
        /\ tenants[t].billing_scope = "account" => shared # {}
        /\ tenants' = [u \in DOMAIN tenants |->
               IF u = t THEN [tenants[t] EXCEPT !.is_active = FALSE] ELSE after(u)]
        /\ UNCHANGED <<used, subscriptions, events>>

\* update_billing_scope, to "account"; to "workspace" it changes nothing.
ShareBilling(t) ==
    /\ t \in Active(tenants)
    /\ ~ /\ tenants[t].billing_scope = "workspace"
         /\ tenants[t].subscription_status \in {"active", "trialing", "past_due"}
         /\ tenants[t].stripe_subscription_id # NoSubscription
    /\ LET others == active_account_scope_tenants(tenants, t) \ {t}
           from   == tenants[quota_owner(tenants, others)]
           shared == [tenants[t] EXCEPT !.billing_scope = "account"]
       IN  tenants' = [tenants EXCEPT ![t] =
               IF others = {} THEN shared
               ELSE [shared EXCEPT !.plan_name = from.plan_name,
                                   !.monthly_quota = from.monthly_quota,
                                   !.subscription_status = from.subscription_status,
                                   !.stripe_subscription_id = from.stripe_subscription_id]]
    /\ UNCHANGED <<used, subscriptions, events>>

\* What a pool has used this month.
Usage(table, usage, t) ==
    MapThenSumSet(LAMBDA u : usage[u], QuotaScope(table, t))

\* A moderation call of one credit: module Moderation, one call at a time.
Charge(t) ==
    /\ t \in Active(tenants)
    /\ used[t] < MaxUsed
    /\ FitsQuota(tenants, t, Usage(tenants, used, t) + 1)
    /\ used' = [used EXCEPT ![t] = @ + 1]
    /\ UNCHANGED <<tenants, subscriptions, events>>

-----------------------------------------------------------------------------
(* Stripe.                                                                 *)

Send(type, id, status) ==
    events' = Append(events, [type |-> type, id |-> id, status |-> status,
                              metadata |-> subscriptions[id].metadata])

\* create_checkout_url, from a dashboard of the workspace.
OpenCheckout(t, plan, scope, id) ==
    /\ t \in Active(tenants)
    /\ id \notin DOMAIN subscriptions
    /\ subscriptions' = Extend(subscriptions, id,
           [status |-> "open",
            metadata |-> [tenant_slug |-> t, plan_name |-> plan, billing_scope |-> scope]])
    /\ UNCHANGED <<tenants, used, events>>

\* The customer completes the checkout, even of a workspace deleted meanwhile.
Pay(id) ==
    /\ id \in DOMAIN subscriptions
    /\ subscriptions[id].status = "open"
    /\ Len(events) < MaxEvents
    /\ LET status == IF subscriptions[id].metadata.plan_name = "starter" THEN "trialing" ELSE "active"
       IN  /\ subscriptions' = [subscriptions EXCEPT ![id].status = status]
           /\ Send("completed", id, status)
    /\ UNCHANGED <<tenants, used>>

\* A payment fails or succeeds, or the customer cancels.
Change(id, status) ==
    /\ id \in DOMAIN subscriptions
    /\ subscriptions[id].status \in {"trialing", "active", "past_due"} \ {status}
    /\ Len(events) < MaxEvents
    /\ subscriptions' = [subscriptions EXCEPT ![id].status = status]
    /\ Send("changed", id, status)
    /\ UNCHANGED <<tenants, used>>

-----------------------------------------------------------------------------
(* Webhooks.                                                               *)

\* Mutant: only the workspace that bought the plan gets it.
BillingTenantsAlone(t, scope) == {t}

\* _billing_tenants_for_scope
BillingTenants(t, scope) ==
    LET shared == active_account_scope_tenants(tenants, t)
    IN  IF scope = "workspace" \/ tenants[t].billing_scope = "workspace" \/ shared = {}
        THEN {t} ELSE shared

\* Mutants: the plan is read from the status; the quota only ever sinks.
PlannedMisread(row, e, status, quota) ==
    [row EXCEPT !.plan_name = status, !.monthly_quota = quota]
PlannedSinking(row, e, status, quota) ==
    [row EXCEPT !.monthly_quota = IF quota < @ THEN quota ELSE @,
                !.stripe_subscription_id = e.id]

\* What both webhooks write to each of these rows.
Planned(row, e, status, quota) ==
    [row EXCEPT !.billing_scope = IF e.metadata.billing_scope = "workspace" THEN "workspace" ELSE @,
                !.plan_name = e.metadata.plan_name,
                !.monthly_quota = quota,
                !.stripe_subscription_id = e.id,
                !.subscription_status = status]

Replan(t, e, status, quota) ==
    tenants' = [u \in DOMAIN tenants |->
        IF u \in BillingTenants(t, e.metadata.billing_scope)
        THEN Planned(tenants[u], e, status, quota) ELSE tenants[u]]

\* _apply_checkout_completed
CheckoutCompleted(e) ==
    /\ e.type = "completed"
    /\ Replan(e.metadata.tenant_slug, e, "active", PlanQuotas[e.metadata.plan_name])

OnSubscription(id) == {t \in DOMAIN tenants : tenants[t].stripe_subscription_id = id}

\* _apply_subscription_event: the workspace with this subscription, or else
\* the one named in the metadata.  With several, one_or_none raises, Stripe
\* gets a 500 and keeps the event.
SubscriptionChanged(e) ==
    /\ e.type = "changed"
    /\ Cardinality(OnSubscription(e.id)) <= 1
    /\ LET t == IF OnSubscription(e.id) = {} THEN e.metadata.tenant_slug
                ELSE CHOOSE u \in OnSubscription(e.id) : TRUE
       IN  Replan(t, e, e.status,
                  IF e.status \in Lapsed THEN 0 ELSE PlanQuotas[e.metadata.plan_name])

\* billing_webhook answers 200 and Stripe drops the event.
Accept(i) ==
    /\ InOrder => \A j \in 1..(i - 1) : events[j].id # events[i].id
    /\ CheckoutCompleted(events[i]) \/ SubscriptionChanged(events[i])
    /\ events' = RemoveAt(events, i)
    /\ UNCHANGED <<used, subscriptions>>

-----------------------------------------------------------------------------
Next ==
    \/ \E p \in Principals, t \in Tenants : Onboard(p, t) \/ Delete(p, t)
    \/ \E t \in DOMAIN tenants : ShareBilling(t) \/ Charge(t)
    \/ \E t \in DOMAIN tenants, plan \in Plans, scope \in BillingScopes, id \in Subscriptions :
          OpenCheckout(t, plan, scope, id)
    \/ \E id \in Subscriptions :
          Pay(id) \/ \E status \in {"active", "past_due", "canceled"} : Change(id, status)
    \/ \E i \in DOMAIN events : Accept(i)

Spec == Init /\ [][Next]_vars

\* Stripe sends an event again until it is accepted.
Fairness ==
    \A id \in Subscriptions : WF_vars(\E i \in DOMAIN events : events[i].id = id /\ Accept(i))

FairSpec == Spec /\ Fairness

-----------------------------------------------------------------------------
(* Properties.                                                             *)

Pools == {QuotaScope(tenants, t) : t \in Active(tenants)}

\* Workspaces that share a pool agree on its size, whatever was created,
\* deleted, shared, bought or cancelled: the largest quota that
\* quota_scope_for_tenant takes is everybody's.
PoolRowsAgree ==
    \A pool \in Pools : ClosedPool(tenants, pool) =>
        \A t, u \in pool : tenants[t].monthly_quota = tenants[u].monthly_quota

\* A plan that was not paid for is the trial: every larger quota goes back to
\* a completed checkout for that plan by the same user or organisation,
\* through however many workspaces it was handed on.
QuotaWasPaid ==
    \A t \in Active(tenants) : tenants[t].monthly_quota > BootstrapQuota =>
        \E id \in DOMAIN subscriptions :
            LET by == subscriptions[id].metadata
            IN  /\ subscriptions[id].status # "open"
                /\ tenants[t].monthly_quota = PlanQuotas[by.plan_name]
                /\ \/ tenants[by.tenant_slug].user = tenants[t].user
                   \/ tenants[by.tenant_slug].org = tenants[t].org /\ tenants[t].org # NoOwner

\* While a workspace has its own plan, its quota changes only with an event
\* of a checkout for that very workspace, or of the subscription it is on.
OwnPlanUntouched ==
    [][\A t \in DOMAIN tenants :
          /\ tenants[t].billing_scope = "workspace" /\ tenants'[t].billing_scope = "workspace"
          /\ tenants'[t].monthly_quota # tenants[t].monthly_quota
          => \E i \in DOMAIN events :
                /\ Accept(i)
                /\ \/ events[i].metadata.tenant_slug = t
                   \/ events[i].id = tenants[t].stripe_subscription_id]_vars

\* docs/production_readiness.md: "Stripe checkout and webhook endpoints are
\* available for plan/quota synchronization."  Once Stripe has nothing left to
\* report, a workspace with a paid checkout has credits.
PaidWorkspaceHasQuota ==
    events = <<>> =>
        \A id \in DOMAIN subscriptions :
            LET t == subscriptions[id].metadata.tenant_slug
            IN  subscriptions[id].status = "active" /\ t \in Active(tenants)
                => tenants[t].monthly_quota > 0

\* The same promise for the end of a subscription: workspaces on a cancelled
\* one lose their quota.
CancellationSynchronized ==
    \A id \in Subscriptions :
        (id \in DOMAIN subscriptions /\ subscriptions[id].status = "canceled")
        ~> (\A t \in Active(tenants) :
               tenants[t].stripe_subscription_id = id => tenants[t].monthly_quota = 0)

\* Deleting a workspace changes what the others may still use by what it had
\* used itself, which leaves the sum, and by nothing else: its share of the
\* quota is not lost, no quota is handed on twice, and what the others used
\* still counts.
DeletionFreesItsUsageOnly ==
    [][\A p \in Principals, t \in DOMAIN tenants : Delete(p, t) =>
          \A u \in Active(tenants) \ {t} :
              LET left(table) == Max({table[v].monthly_quota : v \in QuotaScope(table, u)})
                                     - Usage(table, used, u)
              IN  left(tenants') = left(tenants)
                                     + (IF t \in QuotaScope(tenants, u) THEN used[t] ELSE 0)]_vars
=============================================================================
