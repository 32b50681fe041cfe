------------------------------ MODULE Tenancy -------------------------------
(***************************************************************************)
(* Which workspaces share one monthly credit quota, and how large it is    *)
(* (app/repositories/tenants.py).  A table maps the slug of every existing *)
(* workspace to its row; the operators below are the queries the handlers  *)
(* run on it.                                                              *)
(***************************************************************************)
EXTENDS Integers

CONSTANTS
    Tenants,  \* slugs of workspaces
    Owners,   \* Clerk users and organisations
    NoOwner   \* a clerk_user_id or clerk_org_id that is NULL

BillingScopes == {"account", "workspace"}

\* The columns of a tenant row that quota enforcement reads.
QuotaRow == [user : Owners \cup {NoOwner}, org : Owners \cup {NoOwner},
             is_active : BOOLEAN, billing_scope : BillingScopes,
             monthly_quota : Nat]

\* Rows that can be billed together: active and on account billing.
SharedBilling(table) ==
    {u \in DOMAIN table : table[u].is_active /\ table[u].billing_scope = "account"}

\* The organisation's rows when the tenant belongs to one that has any,
\* otherwise the rows of the user who owns it.
active_account_scope_tenants(table, t) ==
    LET ofOrg  == {u \in SharedBilling(table) : table[u].org = table[t].org}
        ofUser == {u \in SharedBilling(table) : table[u].user = table[t].user}
    IN  IF table[t].org # NoOwner /\ ofOrg # {} THEN ofOrg
        ELSE IF table[t].user # NoOwner THEN ofUser ELSE {}

\* quota_scope_for_tenant: the workspaces whose usage counts against t's quota.
QuotaScope(table, t) ==
    LET shared == active_account_scope_tenants(table, t)
    IN  IF table[t].billing_scope = "account" /\ shared # {} THEN shared ELSE {t}

\* quota_scope_for_tenant: the quota is the largest one in the scope, so a
\* total fits exactly when it fits the quota of some workspace of the scope.
FitsQuota(table, t, total) ==
    \E u \in QuotaScope(table, t) : total <= table[u].monthly_quota

\* A pool is closed when all its members are checked against that same pool.
ClosedPool(table, pool) ==
    pool # {} /\ \A t \in pool : QuotaScope(table, t) = pool

-----------------------------------------------------------------------------
(* The queries about an account: what the principal of a Clerk token owns. *)
(* A principal is a user, acting for an organisation or for nobody else.   *)

Active(table) == {u \in DOMAIN table : table[u].is_active}

\* Mutant: without an organisation, every row that has none matches.
OfOrgNull(table, p) == {u \in Active(table) : table[u].org = p.org}

OfOrg(table, p)  == {u \in Active(table) : p.org # NoOwner /\ table[u].org = p.org}
OfUser(table, p) == {u \in Active(table) : table[u].user = p.user}

\* list_tenants_by_clerk_owner: the organisation's, or else the user's own.
list_tenants_by_clerk_owner(table, p) ==
    IF OfOrg(table, p) # {} THEN OfOrg(table, p) ELSE OfUser(table, p)

\* get_tenant_by_clerk_owner_and_slug finds t.  A user reaches workspaces of
\* an own account also while acting for an organisation.
Owned(table, p) == OfOrg(table, p) \cup OfUser(table, p)

\* Mutant: the workspaces with a plan of their own are not left out.
AccountBilledAny(table, us) == us

AccountBilled(table, us) == {u \in us : table[u].billing_scope = "account"}

\* max(..., key=monthly_quota): of equal quotas, the row created first.
quota_owner(table, us) ==
    CHOOSE u \in us : \A v \in us :
        \/ table[v].monthly_quota < table[u].monthly_quota
        \/ /\ table[v].monthly_quota = table[u].monthly_quota
           /\ table[u].created_at <= table[v].created_at
=============================================================================
