-------------------------- MODULE WorkspacesProofs --------------------------
(***************************************************************************)
(* For any number of workspaces, accounts, plans and subscriptions: types, *)
(* whose events change a plan, and, unless a user acts in two ways, that   *)
(* pools agree on their quota, that every quota was paid for and every     *)
(* paid plan gives one, and that a deletion frees what it had used.        *)
(***************************************************************************)
EXTENDS Workspaces, FiniteSetTheorems, SequenceTheorems, WellFoundedInduction, TLAPS

-----------------------------------------------------------------------------
(* Types.                                                                  *)

\* The rows are finitely many and numbered as they were created.
Rows ==
    /\ TypeOK
    /\ IsFiniteSet(DOMAIN tenants)
    /\ \A t \in DOMAIN tenants : tenants[t].created_at <= Cardinality(DOMAIN tenants)

\* Of finitely many rows one has the largest quota, and is the oldest of those:
\* the one with the smallest set of better rows.
LEMMA QuotaOwner ==
    ASSUME NEW table, NEW us, IsFiniteSet(us), us # {},
           \A u \in us : table[u].monthly_quota \in Int /\ table[u].created_at \in Int
    PROVE  quota_owner(table, us) \in us
<1> DEFINE Better(u) == {v \in us :
               \/ table[v].monthly_quota > table[u].monthly_quota
               \/ /\ table[v].monthly_quota = table[u].monthly_quota
                  /\ table[v].created_at < table[u].created_at}
           T == {Better(u) : u \in us}
<1>1. T \subseteq FiniteSubsetsOf(us) /\ T # {}
  <2>1. \A u \in us : Better(u) \in SUBSET us
    OBVIOUS
  <2>2. \A u \in us : IsFiniteSet(Better(u))
    BY <2>1, FS_Subset
  <2> HIDE DEF Better
  <2>3. QED
    BY <2>1, <2>2 DEF FiniteSubsetsOf
<1> HIDE DEF T
<1>2. PICK least \in T : \A B \in T : ~ (<<B, least>> \in StrictSubsetOrdering(us))
  BY <1>1, FS_StrictSubsetOrderingWellFounded, WFMin
<1>3. PICK u \in us : least = Better(u)
  BY DEF T
<1>4. ASSUME NEW v \in Better(u)
      PROVE  FALSE
  <2>1. v \in us /\ Better(v) \in T
    BY DEF T
  <2>2. Better(v) \subseteq Better(u) /\ v \notin Better(v)
    BY <2>1
  <2>3. Better(v) # Better(u)
    BY <2>2, <1>4
  <2>4. <<Better(v), Better(u)>> \in StrictSubsetOrdering(us)
    <3>1. Better(v) \in SUBSET us /\ Better(u) \in SUBSET us
      OBVIOUS
    <3>2. \A A, B \in SUBSET us : A \subseteq B /\ A # B => <<A, B>> \in StrictSubsetOrdering(us)
      BY DEF StrictSubsetOrdering
    <3> HIDE DEF Better
    <3>3. QED
      BY <2>2, <2>3, <3>1, <3>2
  <2>5. QED
    BY <1>2, <1>3, <2>1, <2>4
<1>5. \A v \in us : \/ table[v].monthly_quota < table[u].monthly_quota
                    \/ /\ table[v].monthly_quota = table[u].monthly_quota
                       /\ table[u].created_at <= table[v].created_at
  BY <1>4
<1>6. QED
  BY <1>5 DEF quota_owner

LEMMA OwnerAmongRows ==
    ASSUME Rows, NEW us \in SUBSET DOMAIN tenants, us # {}
    PROVE  quota_owner(tenants, us) \in us
<1>1. IsFiniteSet(us)
  BY FS_Subset DEF Rows
<1>2. \A t \in DOMAIN tenants : tenants[t] \in Row
  BY DEF Rows, TypeOK
<1>3. \A q \in Quotas : q \in Int
  BY WorkspacesAssumption DEF Quotas
<1>4. ASSUME NEW u \in us
      PROVE  tenants[u].monthly_quota \in Int /\ tenants[u].created_at \in Int
  <2>1. tenants[u] \in Row
    BY <1>2
  <2>2. tenants[u].monthly_quota \in Quotas /\ tenants[u].created_at \in Nat
    BY <2>1 DEF Row
  <2>3. QED
    BY <1>3, <2>2
<1>5. QED
  BY <1>1, <1>4, QuotaOwner

\* What the queries find are active rows of one owner.
SameOwner(row, other) ==
    row.user = other.user \/ (row.org # NoOwner /\ row.org = other.org)

LEMMA AccountOf ==
    ASSUME NEW p, NEW u \in list_tenants_by_clerk_owner(tenants, p)
    PROVE  u \in Active(tenants) /\ SameOwner(p, tenants[u])
  BY DEF list_tenants_by_clerk_owner, OfOrg, OfUser, Active, SameOwner

LEMMA PoolOf ==
    ASSUME NEW t, NEW u \in active_account_scope_tenants(tenants, t)
    PROVE  u \in SharedBilling(tenants) /\ SameOwner(tenants[t], tenants[u])
  BY DEF active_account_scope_tenants, SameOwner

LEMMA BillingOf ==
    ASSUME NEW t \in DOMAIN tenants, NEW scope, NEW u \in BillingTenants(t, scope)
    PROVE  u \in DOMAIN tenants /\ SameOwner(tenants[t], tenants[u])
<1>1. CASE u = t
  BY <1>1 DEF SameOwner
<1>2. CASE u \in active_account_scope_tenants(tenants, t)
  BY <1>2, PoolOf DEF SharedBilling
<1>3. QED
  BY <1>1, <1>2 DEF BillingTenants

LEMMA SourceOf ==
    ASSUME NEW p, QuotaSource(p) # {}, Rows
    PROVE  /\ quota_owner(tenants, QuotaSource(p)) \in QuotaSource(p)
           /\ QuotaSource(p) \subseteq list_tenants_by_clerk_owner(tenants, p)
<1>1. QuotaSource(p) \subseteq list_tenants_by_clerk_owner(tenants, p)
  BY DEF QuotaSource, AccountBilled
<1>2. list_tenants_by_clerk_owner(tenants, p) \subseteq DOMAIN tenants
  BY AccountOf DEF Active
<1>3. QED
  BY <1>1, <1>2, OwnerAmongRows

-----------------------------------------------------------------------------
(* What a step makes of the table.                                         *)

\* The row of a new workspace, and the one whose plan it takes over.
Fresh(p) ==
    [user |-> p.user, org |-> p.org, created_at |-> Cardinality(DOMAIN tenants) + 1,
     is_active |-> TRUE, billing_scope |-> "account", plan_name |-> "starter",
     monthly_quota |-> BootstrapQuota, subscription_status |-> "trialing",
     stripe_subscription_id |-> NoSubscription]

Taking(row, from) ==
    [row EXCEPT !.plan_name = from.plan_name,
                !.monthly_quota = from.monthly_quota,
                !.subscription_status = from.subscription_status,
                !.stripe_subscription_id = from.stripe_subscription_id]

LEMMA FreshRow ==
    ASSUME Rows, NEW p \in Principals
    PROVE  Fresh(p) \in Row
<1>1. Cardinality(DOMAIN tenants) \in Nat
  BY FS_CardinalityType DEF Rows
<1>2. QED
  BY <1>1, WorkspacesAssumption DEF Fresh, Row, Statuses, Quotas, BillingScopes

LEMMA TakingRow ==
    ASSUME NEW row \in Row, NEW from \in Row
    PROVE  /\ Taking(row, from) \in Row
           /\ \A scope \in BillingScopes : Taking([row EXCEPT !.billing_scope = scope], from) \in Row
  BY DEF Taking, Row

\* Whichever it is, it belongs to the principal, and is billed with the account.
LEMMA FreshColumns ==
    ASSUME NEW p, NEW row, row = Fresh(p) \/ \E from : row = Taking(Fresh(p), from)
    PROVE  /\ row.user = p.user /\ row.org = p.org
           /\ row.created_at = Cardinality(DOMAIN tenants) + 1
           /\ row.billing_scope = "account" /\ row.is_active
<1>1. CASE row = Fresh(p)
  BY <1>1 DEF Fresh
<1>2. ASSUME NEW from, row = Taking(Fresh(p), from)
      PROVE  /\ row.user = p.user /\ row.org = p.org
             /\ row.created_at = Cardinality(DOMAIN tenants) + 1
             /\ row.billing_scope = "account" /\ row.is_active
  BY <1>2 DEF Fresh, Taking
<1>3. QED
  BY <1>1, <1>2

LEMMA TakenColumns ==
    ASSUME NEW p, NEW from
    PROVE  /\ Taking(Fresh(p), from).monthly_quota = from.monthly_quota
           /\ Taking(Fresh(p), from).stripe_subscription_id = from.stripe_subscription_id
  BY DEF Fresh, Taking

LEMMA OnboardStep ==
    ASSUME Rows, NEW p \in Principals, NEW t \in Tenants, Onboard(p, t)
    PROVE  /\ t \notin DOMAIN tenants
           /\ DOMAIN tenants' = DOMAIN tenants \cup {t}
           /\ \A u \in DOMAIN tenants : tenants'[u] = tenants[u]
           /\ tenants'[t] \in Row
           /\ \/ QuotaSource(p) = {} /\ tenants'[t] = Fresh(p)
              \/ \E u \in QuotaSource(p) : tenants'[t] = Taking(Fresh(p), tenants[u])
<1> DEFINE from == quota_owner(tenants, QuotaSource(p))
           row  == IF QuotaSource(p) = {} THEN Fresh(p) ELSE Taking(Fresh(p), tenants[from])
<1>1. t \notin DOMAIN tenants /\ tenants' = Extend(tenants, t, row)
  BY DEF Onboard, Fresh, Taking
<1>2. QuotaSource(p) # {} => from \in QuotaSource(p) /\ from \in DOMAIN tenants
  BY SourceOf, AccountOf DEF Active
<1>3. Fresh(p) \in Row
  BY FreshRow
<1>4. row \in Row
  BY <1>2, <1>3, TakingRow DEF Rows, TypeOK
<1>5. \/ QuotaSource(p) = {} /\ row = Fresh(p)
      \/ \E u \in QuotaSource(p) : row = Taking(Fresh(p), tenants[u])
  BY <1>2
<1> HIDE DEF row
<1>6. /\ DOMAIN tenants' = DOMAIN tenants \cup {t}
      /\ \A u \in DOMAIN tenants' : tenants'[u] = IF u = t THEN row ELSE tenants[u]
  BY <1>1 DEF Extend
<1>7. QED
  BY <1>1, <1>4, <1>5, <1>6

\* Everything else keeps the workspaces there are, and who owns them.
Keeps ==
    /\ DOMAIN tenants' = DOMAIN tenants
    /\ \A t \in DOMAIN tenants :
          /\ tenants'[t] \in Row
          /\ tenants'[t].user = tenants[t].user
          /\ tenants'[t].org = tenants[t].org
          /\ tenants'[t].created_at = tenants[t].created_at

LEMMA InheritRow ==
    ASSUME NEW row \in Row, NEW from \in Row
    PROVE  /\ Inherit(row, from) \in Row
           /\ Inherit(row, from).user = row.user
           /\ Inherit(row, from).org = row.org
           /\ Inherit(row, from).created_at = row.created_at
<1> DEFINE id == IF from.stripe_subscription_id # NoSubscription
                 THEN from.stripe_subscription_id ELSE row.stripe_subscription_id
<1>1. id \in Subscriptions \cup {NoSubscription}
  BY DEF Row
<1>2. Inherit(row, from) =
          [row EXCEPT !.plan_name = from.plan_name, !.monthly_quota = from.monthly_quota,
                      !.subscription_status = from.subscription_status,
                      !.stripe_subscription_id = id]
  BY DEF Inherit
<1> HIDE DEF id
<1>3. QED
  BY <1>1, <1>2 DEF Row

LEMMA DeleteStep ==
    ASSUME Rows, NEW p \in Principals, NEW t \in Tenants, Delete(p, t)
    PROVE  /\ Keeps
           /\ \A u \in DOMAIN tenants \ {t} :
                 \/ /\ tenants'[u] = tenants[u]
                    /\ tenants[t].billing_scope = "account" =>
                          u \notin AccountBilled(tenants, list_tenants_by_clerk_owner(tenants, p))
                 \/ /\ tenants[t].billing_scope = "account"
                    /\ u \in AccountBilled(tenants, list_tenants_by_clerk_owner(tenants, p))
                    /\ tenants'[u] = Inherit(tenants[u], tenants[quota_owner(tenants,
                           AccountBilled(tenants, list_tenants_by_clerk_owner(tenants, p)))])
           /\ tenants[t].billing_scope = "account" =>
                 quota_owner(tenants, AccountBilled(tenants, list_tenants_by_clerk_owner(tenants, p)))
                     \in AccountBilled(tenants, list_tenants_by_clerk_owner(tenants, p))
           /\ tenants'[t] = [tenants[t] EXCEPT !.is_active = FALSE]
<1> DEFINE shared == AccountBilled(tenants, list_tenants_by_clerk_owner(tenants, p))
           from   == tenants[quota_owner(tenants, shared)]
           hands(u) == tenants[t].billing_scope = "account" /\ u \in shared \ {t}
           after(u) == IF u = t THEN [tenants[t] EXCEPT !.is_active = FALSE]
                       ELSE IF hands(u) THEN Inherit(tenants[u], from) ELSE tenants[u]
<1>1. shared \subseteq DOMAIN tenants
  BY AccountOf DEF AccountBilled, Active
<1>2. t \in DOMAIN tenants
  BY DEF Delete, Owned, OfOrg, OfUser, Active
<1>3. tenants[t].billing_scope = "account" => quota_owner(tenants, shared) \in shared
  BY <1>1, OwnerAmongRows DEF Delete
<1>4. tenants' = [u \in DOMAIN tenants |-> after(u)]
  BY DEF Delete
<1>5. ASSUME NEW u \in DOMAIN tenants
      PROVE  /\ after(u) \in Row
             /\ after(u).user = tenants[u].user
             /\ after(u).org = tenants[u].org
             /\ after(u).created_at = tenants[u].created_at
  <2>1. tenants[u] \in Row /\ tenants[t] \in Row
    BY <1>2 DEF Rows, TypeOK
  <2>2. hands(u) => from \in Row
    BY <1>1, <1>3 DEF Rows, TypeOK
  <2>3. \A row, other \in Row :
            /\ Inherit(row, other) \in Row
            /\ Inherit(row, other).user = row.user
            /\ Inherit(row, other).org = row.org
            /\ Inherit(row, other).created_at = row.created_at
    BY InheritRow
  <2>4. \A row \in Row : [row EXCEPT !.is_active = FALSE] \in Row
    BY DEF Row
  <2> HIDE DEF from, shared
  <2>5. CASE u = t
    BY <2>1, <2>4, <2>5 DEF Row
  <2>6. CASE u # t
    BY <2>1, <2>2, <2>3, <2>6
  <2>7. QED
    BY <2>5, <2>6
<1>6. Keeps
  <2> HIDE DEF after
  <2>1. QED
    BY <1>4, <1>5 DEF Keeps
<1>7. tenants'[t] = after(t) /\ \A u \in DOMAIN tenants \ {t} : tenants'[u] = after(u)
  BY <1>2, <1>4
<1>8. QED
  <2> HIDE DEF from, shared
  <2>1. \A u \in DOMAIN tenants \ {t} :
            \/ tenants'[u] = tenants[u] /\ (tenants[t].billing_scope = "account" => u \notin shared)
            \/ /\ tenants[t].billing_scope = "account" /\ u \in shared
               /\ tenants'[u] = Inherit(tenants[u], from)
    BY <1>7
  <2>2. QED
    BY <1>3, <1>6, <1>7, <2>1 DEF from, shared

LEMMA ShareStep ==
    ASSUME Rows, NEW t \in DOMAIN tenants, ShareBilling(t)
    PROVE  /\ Keeps
           /\ \A u \in DOMAIN tenants \ {t} : tenants'[u] = tenants[u]
           /\ LET others == active_account_scope_tenants(tenants, t) \ {t}
                  shared == [tenants[t] EXCEPT !.billing_scope = "account"]
              IN  \/ others = {} /\ tenants'[t] = shared
                  \/ \E u \in others : tenants'[t] = Taking(shared, tenants[u])
<1> DEFINE others == active_account_scope_tenants(tenants, t) \ {t}
           from   == tenants[quota_owner(tenants, others)]
           shared == [tenants[t] EXCEPT !.billing_scope = "account"]
           row    == IF others = {} THEN shared ELSE Taking(shared, from)
<1>1. tenants' = [tenants EXCEPT ![t] = row]
  BY DEF ShareBilling, Taking
<1>2. others \subseteq DOMAIN tenants
  BY PoolOf DEF SharedBilling
<1>3. others # {} => quota_owner(tenants, others) \in others
  BY <1>2, OwnerAmongRows
<1>4. tenants[t] \in Row /\ \A u \in others : tenants[u] \in Row
  BY <1>2 DEF Rows, TypeOK
<1>5. shared \in Row
  BY <1>4 DEF Row, BillingScopes
<1>6. /\ row \in Row
      /\ row.user = tenants[t].user /\ row.org = tenants[t].org
      /\ row.created_at = tenants[t].created_at
  BY <1>3, <1>4, <1>5, TakingRow DEF Taking, Row
<1>7. \/ others = {} /\ row = shared
      \/ \E u \in others : row = Taking(shared, tenants[u])
  BY <1>3
<1> HIDE DEF row
<1>8. /\ DOMAIN tenants' = DOMAIN tenants
      /\ \A u \in DOMAIN tenants : tenants'[u] = IF u = t THEN row ELSE tenants[u]
  BY <1>1
<1>9. Keeps
  BY <1>6, <1>8 DEF Keeps, Rows, TypeOK
<1>10. QED
  BY <1>7, <1>8, <1>9

LEMMA ReplanStep ==
    ASSUME Rows, NEW t \in DOMAIN tenants, NEW e \in Events, NEW status \in Statuses,
           NEW quota \in Quotas, Replan(t, e, status, quota)
    PROVE  /\ Keeps
           /\ \A u \in DOMAIN tenants :
                 tenants'[u] = IF u \in BillingTenants(t, e.metadata.billing_scope)
                               THEN Planned(tenants[u], e, status, quota) ELSE tenants[u]
<1>1. ASSUME NEW row \in Row
      PROVE  /\ Planned(row, e, status, quota) \in Row
             /\ Planned(row, e, status, quota).user = row.user
             /\ Planned(row, e, status, quota).org = row.org
             /\ Planned(row, e, status, quota).created_at = row.created_at
  <2> DEFINE scope == IF e.metadata.billing_scope = "workspace" THEN "workspace"
                      ELSE row.billing_scope
  <2>1. /\ scope \in BillingScopes
        /\ e.metadata.plan_name \in Plans
        /\ e.id \in Subscriptions
    BY DEF Row, BillingScopes, Events, Metadata
  <2>2. Planned(row, e, status, quota) =
            [row EXCEPT !.billing_scope = scope, !.plan_name = e.metadata.plan_name,
                        !.monthly_quota = quota, !.stripe_subscription_id = e.id,
                        !.subscription_status = status]
    BY DEF Planned
  <2> HIDE DEF scope
  <2>3. QED
    BY <2>1, <2>2 DEF Row
<1>2. \A u \in DOMAIN tenants : tenants[u] \in Row
  BY DEF Rows, TypeOK
<1>3. QED
  BY <1>1, <1>2 DEF Replan, Keeps

-----------------------------------------------------------------------------
(* The invariant of rows, subscriptions and events.                        *)

\* Checkouts are of workspaces there are, and an event reports a checkout that
\* the customer completed.
Reported ==
    /\ \A id \in DOMAIN subscriptions :
          subscriptions[id].metadata.tenant_slug \in DOMAIN tenants
    /\ \A i \in DOMAIN events :
          /\ events[i].id \in DOMAIN subscriptions
          /\ subscriptions[events[i].id].status # "open"
          /\ events[i].metadata = subscriptions[events[i].id].metadata

\* A webhook replans for the workspace of the checkout, or the one on the
\* subscription.
LEMMA AcceptStep ==
    ASSUME Rows, Reported, NEW i \in DOMAIN events, Accept(i)
    PROVE  /\ events[i] \in Events
           /\ \E t \in DOMAIN tenants, status \in Statuses,
                 quota \in {0, PlanQuotas[events[i].metadata.plan_name]} :
                 /\ \/ t = events[i].metadata.tenant_slug
                    \/ tenants[t].stripe_subscription_id = events[i].id
                 /\ quota \in Quotas
                 /\ Replan(t, events[i], status, quota)
<1> DEFINE e == events[i]
           plan == PlanQuotas[e.metadata.plan_name]
           slug == e.metadata.tenant_slug
<1>1. e \in Events
  BY DEF Rows, TypeOK
<1>2. plan \in Quotas /\ 0 \in Quotas
  BY <1>1 DEF Quotas, Events, Metadata
<1>3. slug \in DOMAIN tenants
  BY DEF Reported
<1>4. CASE CheckoutCompleted(e)
  <2>1. Replan(slug, e, "active", plan)
    BY <1>4 DEF CheckoutCompleted
  <2>2. "active" \in Statuses
    BY DEF Statuses
  <2> HIDE DEF e, plan, slug
  <2>3. \E t \in DOMAIN tenants, status \in Statuses, quota \in {0, plan} :
            /\ t = slug \/ tenants[t].stripe_subscription_id = e.id
            /\ quota \in Quotas
            /\ Replan(t, e, status, quota)
    BY <1>2, <1>3, <2>1, <2>2
  <2>4. QED
    BY <1>1, <2>3 DEF e, plan, slug
<1>5. CASE SubscriptionChanged(e)
  <2> DEFINE t == IF OnSubscription(e.id) = {} THEN slug
                  ELSE CHOOSE u \in OnSubscription(e.id) : TRUE
             quota == IF e.status \in Lapsed THEN 0 ELSE plan
  <2>1. Replan(t, e, e.status, quota)
    BY <1>5 DEF SubscriptionChanged
  <2>2. /\ t \in DOMAIN tenants
        /\ t = slug \/ tenants[t].stripe_subscription_id = e.id
    BY <1>3 DEF OnSubscription
  <2>3. e.status \in Statuses
    BY <1>1 DEF Events
  <2>4. quota \in {0, plan} /\ quota \in Quotas
    BY <1>2
  <2> HIDE DEF e, plan, slug, t, quota
  <2>5. \E u \in DOMAIN tenants, status \in Statuses, credits \in {0, plan} :
            /\ u = slug \/ tenants[u].stripe_subscription_id = e.id
            /\ credits \in Quotas
            /\ Replan(u, e, status, credits)
    BY <2>1, <2>2, <2>3, <2>4
  <2>6. QED
    BY <1>1, <2>5 DEF e, plan, slug
<1>6. QED
  BY <1>4, <1>5 DEF Accept

LEMMA AcceptKeeps ==
    ASSUME Rows, Reported, NEW i \in DOMAIN events, Accept(i)
    PROVE  Keeps
  BY AcceptStep, ReplanStep

LEMMA Removal ==
    ASSUME NEW S, NEW s \in Seq(S), NEW i \in DOMAIN s
    PROVE  /\ RemoveAt(s, i) \in Seq(S)
           /\ DOMAIN RemoveAt(s, i) = 1..(Len(s) - 1)
           /\ \A j \in 1..(Len(s) - 1) : RemoveAt(s, i)[j] = s[IF j < i THEN j ELSE j + 1]
           /\ \A j \in DOMAIN RemoveAt(s, i) : \E k \in DOMAIN s : RemoveAt(s, i)[j] = s[k]
<1> DEFINE a == SubSeq(s, 1, i - 1)
           b == SubSeq(s, i + 1, Len(s))
<1>1. DOMAIN s = 1..Len(s) /\ Len(s) \in Nat /\ i \in Int /\ 1 <= i /\ i <= Len(s)
  OBVIOUS
<1>2. /\ a \in Seq(S) /\ Len(a) = i - 1
      /\ \A j \in 1..(i - 1) : a[j] = s[j]
  <2>1. \A j \in 1..(i - 1) : s[j] \in S
    BY <1>1
  <2>2. /\ SubSeq(s, 1, i - 1) \in Seq(S)
        /\ Len(SubSeq(s, 1, i - 1)) = IF 1 <= i - 1 THEN i - 1 - 1 + 1 ELSE 0
        /\ \A j \in 1..(i - 1 - 1 + 1) : SubSeq(s, 1, i - 1)[j] = s[1 + j - 1]
    BY <1>1, <2>1, SubSeqProperties
  <2> HIDE DEF a, b
  <2>3. \A j \in 1..(i - 1) : a[j] = s[1 + j - 1]
    BY <1>1, <2>2 DEF a
  <2>4. \A j \in 1..(i - 1) : 1 + j - 1 = j
    BY <1>1
  <2>5. QED
    BY <1>1, <2>2, <2>3, <2>4 DEF a
<1>3. /\ b \in Seq(S) /\ Len(b) = Len(s) - i
      /\ \A j \in 1..(Len(s) - i) : b[j] = s[i + j]
  <2>1. \A j \in (i + 1)..Len(s) : s[j] \in S
    BY <1>1
  <2>2. /\ SubSeq(s, i + 1, Len(s)) \in Seq(S)
        /\ Len(SubSeq(s, i + 1, Len(s))) = IF i + 1 <= Len(s) THEN Len(s) - (i + 1) + 1 ELSE 0
        /\ \A j \in 1..(Len(s) - (i + 1) + 1) : SubSeq(s, i + 1, Len(s))[j] = s[(i + 1) + j - 1]
    BY <1>1, <2>1, SubSeqProperties
  <2> HIDE DEF a, b
  <2>3. \A j \in 1..(Len(s) - i) : b[j] = s[(i + 1) + j - 1]
    BY <1>1, <2>2 DEF b
  <2>4. \A j \in 1..(Len(s) - i) : (i + 1) + j - 1 = i + j
    BY <1>1
  <2>5. QED
    BY <1>1, <2>2, <2>3, <2>4 DEF b
<1>4. RemoveAt(s, i) = a \o b
  BY DEF RemoveAt
<1> HIDE DEF a, b
<1>5. /\ a \o b \in Seq(S)
      /\ Len(a \o b) = Len(s) - 1
      /\ \A j \in 1..(Len(s) - 1) : (a \o b)[j] = IF j <= i - 1 THEN a[j] ELSE b[j - (i - 1)]
  <2>1. /\ a \o b \in Seq(S)
        /\ Len(a \o b) = Len(a) + Len(b)
        /\ \A j \in 1..(Len(a) + Len(b)) :
              (a \o b)[j] = IF j <= Len(a) THEN a[j] ELSE b[j - Len(a)]
    BY <1>2, <1>3, ConcatProperties
  <2>2. Len(a) + Len(b) = Len(s) - 1 /\ Len(a) = i - 1
    BY <1>1, <1>2, <1>3
  <2>3. QED
    BY <2>1, <2>2
<1>6. ASSUME NEW j \in 1..(Len(s) - 1)
      PROVE  /\ (a \o b)[j] = s[IF j < i THEN j ELSE j + 1]
             /\ (IF j < i THEN j ELSE j + 1) \in DOMAIN s
  <2>1. CASE j <= i - 1
    <3>1. j \in 1..(i - 1) /\ j \in DOMAIN s /\ j < i
      BY <1>1, <2>1
    <3>2. (a \o b)[j] = s[j]
      BY <1>2, <1>5, <2>1, <3>1
    <3>3. QED
      BY <3>1, <3>2
  <2>2. CASE ~ (j <= i - 1)
    <3>1. j - (i - 1) \in 1..(Len(s) - i) /\ i + (j - (i - 1)) = j + 1 /\ ~ (j < i)
      BY <1>1, <2>2
    <3>2. (a \o b)[j] = s[j + 1]
      BY <1>3, <1>5, <2>2, <3>1
    <3>3. j + 1 \in DOMAIN s
      BY <1>1
    <3>4. QED
      BY <3>1, <3>2, <3>3
  <2>3. QED
    BY <2>1, <2>2
<1>7. DOMAIN (a \o b) = 1..(Len(s) - 1)
  BY <1>5
<1> DEFINE r == a \o b
<1>8. r \in Seq(S) /\ DOMAIN r = 1..(Len(s) - 1)
  BY <1>5, <1>7
<1>9. \A j \in 1..(Len(s) - 1) : /\ r[j] = s[IF j < i THEN j ELSE j + 1]
                                 /\ (IF j < i THEN j ELSE j + 1) \in DOMAIN s
  BY <1>6
<1> HIDE DEF r
<1>10. \A j \in DOMAIN r : \E k \in DOMAIN s : r[j] = s[k]
  BY <1>8, <1>9
<1>11. QED
  BY <1>4, <1>8, <1>9, <1>10 DEF r

\* What Rows says of the table, of its usage, and of Stripe's side.
Table ==
    /\ DOMAIN tenants \subseteq Tenants
    /\ \A t \in DOMAIN tenants : tenants[t] \in Row
    /\ \A t, u \in DOMAIN tenants : tenants[t].created_at = tenants[u].created_at => t = u
    /\ IsFiniteSet(DOMAIN tenants)
    /\ \A t \in DOMAIN tenants : tenants[t].created_at <= Cardinality(DOMAIN tenants)

Used ==
    /\ DOMAIN used = DOMAIN tenants
    /\ \A t \in DOMAIN used : used[t] \in Nat

Stripe ==
    /\ DOMAIN subscriptions \subseteq Subscriptions
    /\ \A id \in DOMAIN subscriptions :
          subscriptions[id] \in [status : Statuses \cup {"open"}, metadata : Metadata]
    /\ events \in Seq(Events)

LEMMA RowsParts == Rows <=> Table /\ Used /\ Stripe
  BY DEF Rows, TypeOK, Table, Used, Stripe

LEMMA KeepsTable ==
    ASSUME Table, Keeps
    PROVE  Table'
  BY DEF Table, Keeps

LEMMA OnboardTable ==
    ASSUME Rows, NEW p \in Principals, NEW t \in Tenants, Onboard(p, t)
    PROVE  Table' /\ Used'
<1> DEFINE n == Cardinality(DOMAIN tenants)
<1>1. /\ t \notin DOMAIN tenants
      /\ DOMAIN tenants' = DOMAIN tenants \cup {t}
      /\ \A u \in DOMAIN tenants : tenants'[u] = tenants[u]
      /\ tenants'[t] \in Row
  BY OnboardStep
<1>2. tenants'[t].created_at = n + 1
  <2>1. tenants'[t] = Fresh(p) \/ \E from : tenants'[t] = Taking(Fresh(p), from)
    BY OnboardStep
  <2>2. QED
    BY <2>1, FreshColumns
<1>3. n \in Nat /\ IsFiniteSet(DOMAIN tenants') /\ Cardinality(DOMAIN tenants') = n + 1
  BY <1>1, FS_CardinalityType, FS_AddElement DEF Rows
<1>4. \A u \in DOMAIN tenants : tenants[u].created_at \in Nat /\ tenants[u].created_at <= n
  BY DEF Rows, TypeOK, Row
<1> HIDE DEF n
<1>5. Table'
  <2>1. DOMAIN tenants' \subseteq Tenants /\ \A u \in DOMAIN tenants' : tenants'[u] \in Row
    BY <1>1 DEF Rows, TypeOK
  <2>2. \A u \in DOMAIN tenants' : tenants'[u].created_at <= n + 1
    BY <1>1, <1>2, <1>3, <1>4
  <2>3. \A u \in DOMAIN tenants : tenants[u].created_at # n + 1
    BY <1>3, <1>4
  <2>4. \A u, v \in DOMAIN tenants' :
            tenants'[u].created_at = tenants'[v].created_at => u = v
    BY <1>1, <1>2, <2>3 DEF Rows, TypeOK
  <2>5. QED
    BY <1>3, <2>1, <2>2, <2>4 DEF Table
<1>6. Used'
  <2>1. used' = Extend(used, t, 0)
    BY DEF Onboard
  <2>2. /\ DOMAIN used' = DOMAIN used \cup {t}
        /\ \A u \in DOMAIN used' : used'[u] = IF u = t THEN 0 ELSE used[u]
    BY <2>1 DEF Extend
  <2>3. QED
    BY <1>1, <2>2 DEF Used, Rows, TypeOK
<1>7. QED
  BY <1>5, <1>6

\* Everything but Onboard.
LEMMA NextKeeps ==
    ASSUME Rows, Reported, [Next]_vars,
           \A p \in Principals, t \in Tenants : ~ Onboard(p, t)
    PROVE  Keeps
<1>1. ASSUME UNCHANGED tenants
      PROVE  Keeps
  BY <1>1 DEF Keeps, Rows, TypeOK
<1>2. ASSUME NEW p \in Principals, NEW t \in Tenants, Delete(p, t)
      PROVE  Keeps
  BY <1>2, DeleteStep
<1>3. ASSUME NEW t \in DOMAIN tenants, ShareBilling(t) \/ Charge(t)
      PROVE  Keeps
  BY <1>1, <1>3, ShareStep DEF Charge
<1>4. ASSUME NEW t \in DOMAIN tenants, NEW plan \in Plans, NEW scope \in BillingScopes,
             NEW id \in Subscriptions, OpenCheckout(t, plan, scope, id)
      PROVE  Keeps
  BY <1>1, <1>4 DEF OpenCheckout
<1>5. ASSUME NEW id \in Subscriptions,
             Pay(id) \/ \E status \in {"active", "past_due", "canceled"} : Change(id, status)
      PROVE  Keeps
  BY <1>1, <1>5 DEF Pay, Change
<1>6. ASSUME NEW i \in DOMAIN events, Accept(i)
      PROVE  Keeps
  BY <1>6, AcceptKeeps
<1>7. CASE UNCHANGED vars
  BY <1>1, <1>7 DEF vars
<1>8. QED
  BY <1>2, <1>3, <1>4, <1>5, <1>6, <1>7 DEF Next


LEMMA UsedStep ==
    ASSUME Rows, Keeps, [Next]_vars,
           \A p \in Principals, t \in Tenants : ~ Onboard(p, t)
    PROVE  Used'
<1>1. ASSUME UNCHANGED used
      PROVE  Used'
  BY <1>1 DEF Used, Rows, TypeOK, Keeps
<1>2. ASSUME NEW t \in DOMAIN tenants, Charge(t)
      PROVE  Used'
  BY <1>2 DEF Charge, Used, Rows, TypeOK, Keeps
<1>3. ASSUME NEW t \in DOMAIN tenants, ShareBilling(t)
      PROVE  Used'
  BY <1>1, <1>3 DEF ShareBilling
<1>4. ASSUME NEW p \in Principals, NEW t \in Tenants, Delete(p, t)
      PROVE  Used'
  BY <1>1, <1>4 DEF Delete
<1>5. ASSUME NEW t \in DOMAIN tenants, NEW plan \in Plans, NEW scope \in BillingScopes,
             NEW id \in Subscriptions, OpenCheckout(t, plan, scope, id)
      PROVE  Used'
  BY <1>1, <1>5 DEF OpenCheckout
<1>6. ASSUME NEW id \in Subscriptions,
             Pay(id) \/ \E status \in {"active", "past_due", "canceled"} : Change(id, status)
      PROVE  Used'
  BY <1>1, <1>6 DEF Pay, Change
<1>7. ASSUME NEW i \in DOMAIN events, Accept(i)
      PROVE  Used'
  BY <1>1, <1>7 DEF Accept
<1>8. CASE UNCHANGED vars
  BY <1>1, <1>8 DEF vars
<1>9. QED
  BY <1>2, <1>3, <1>4, <1>5, <1>6, <1>7, <1>8 DEF Next

\* Stripe's side changes in four ways.
LEMMA OpenStep ==
    ASSUME Stripe, Reported, NEW t \in DOMAIN tenants, NEW plan \in Plans,
           NEW scope \in BillingScopes, NEW id \in Subscriptions,
           OpenCheckout(t, plan, scope, id), Table
    PROVE  Stripe' /\ Reported'
<1> DEFINE opened == [status |-> "open",
               metadata |-> [tenant_slug |-> t, plan_name |-> plan, billing_scope |-> scope]]
<1>1. /\ id \notin DOMAIN subscriptions
      /\ subscriptions' = Extend(subscriptions, id, opened)
      /\ tenants' = tenants /\ events' = events
  BY DEF OpenCheckout
<1>2. /\ opened \in [status : Statuses \cup {"open"}, metadata : Metadata]
      /\ opened.metadata.tenant_slug \in DOMAIN tenants
  BY DEF Metadata, Table
<1> HIDE DEF opened
<1>3. /\ DOMAIN subscriptions' = DOMAIN subscriptions \cup {id}
      /\ \A x \in DOMAIN subscriptions' :
            subscriptions'[x] = IF x = id THEN opened ELSE subscriptions[x]
  BY <1>1 DEF Extend
<1>4. Stripe'
  BY <1>1, <1>2, <1>3 DEF Stripe
<1>5. Reported'
  BY <1>1, <1>2, <1>3 DEF Reported
<1>6. QED
  BY <1>4, <1>5

LEMMA SendStep ==
    ASSUME Stripe, Reported, NEW id \in DOMAIN subscriptions, NEW status \in Statuses,
           NEW type \in {"completed", "changed"},
           subscriptions' = [subscriptions EXCEPT ![id].status = status],
           Send(type, id, status), UNCHANGED tenants
    PROVE  Stripe' /\ Reported'
<1> DEFINE e == [type |-> type, id |-> id, status |-> status, metadata |-> subscriptions[id].metadata]
<1>1. /\ DOMAIN subscriptions' = DOMAIN subscriptions
      /\ \A x \in DOMAIN subscriptions :
            /\ subscriptions'[x] \in [status : Statuses \cup {"open"}, metadata : Metadata]
            /\ subscriptions'[x].metadata = subscriptions[x].metadata
            /\ subscriptions'[x].status = IF x = id THEN status ELSE subscriptions[x].status
  BY DEF Stripe
<1>2. /\ e \in Events
      /\ e.id = id /\ e.metadata = subscriptions[id].metadata
  BY DEF Stripe, Events
<1>3. events' = Append(events, e)
  BY DEF Send
<1> HIDE DEF e
<1>4. /\ events' \in Seq(Events)
      /\ \A i \in DOMAIN events' : events'[i] = e \/ \E j \in DOMAIN events : events'[i] = events[j]
  BY <1>2, <1>3 DEF Stripe
<1>5. Stripe'
  BY <1>1, <1>4 DEF Stripe
<1>6. "open" \notin Statuses
  BY DEF Statuses
<1>7. ASSUME NEW i \in DOMAIN events'
      PROVE  /\ events'[i].id \in DOMAIN subscriptions'
             /\ subscriptions'[events'[i].id].status # "open"
             /\ events'[i].metadata = subscriptions'[events'[i].id].metadata
  <2>1. CASE events'[i] = e
    BY <1>1, <1>2, <1>6, <2>1
  <2>2. ASSUME NEW j \in DOMAIN events, events'[i] = events[j]
        PROVE  /\ events'[i].id \in DOMAIN subscriptions'
               /\ subscriptions'[events'[i].id].status # "open"
               /\ events'[i].metadata = subscriptions'[events'[i].id].metadata
    BY <1>1, <1>6, <2>2 DEF Reported
  <2>3. QED
    BY <1>4, <2>1, <2>2
<1>8. Reported'
  BY <1>1, <1>7 DEF Reported
<1>9. QED
  BY <1>5, <1>8

LEMMA StripeKept ==
    ASSUME Stripe, Reported, DOMAIN tenants \subseteq DOMAIN tenants', UNCHANGED subscriptions,
           events' = events \/ \E i \in DOMAIN events : events' = RemoveAt(events, i)
    PROVE  Stripe' /\ Reported'
<1>1. /\ events' \in Seq(Events)
      /\ \A i \in DOMAIN events' : \E j \in DOMAIN events : events'[i] = events[j]
  BY Removal DEF Stripe
<1>2. QED
  BY <1>1 DEF Stripe, Reported

LEMMA StripeStep ==
    ASSUME Rows, Reported, [Next]_vars, DOMAIN tenants \subseteq DOMAIN tenants'
    PROVE  Stripe' /\ Reported'
<1>0. Table /\ Stripe
  BY RowsParts
<1>1. ASSUME NEW p \in Principals, NEW t \in Tenants, Onboard(p, t) \/ Delete(p, t)
      PROVE  Stripe' /\ Reported'
  BY <1>0, <1>1, StripeKept DEF Onboard, Delete
<1>2. ASSUME NEW t \in DOMAIN tenants, ShareBilling(t) \/ Charge(t)
      PROVE  Stripe' /\ Reported'
  BY <1>0, <1>2, StripeKept DEF ShareBilling, Charge
<1>3. ASSUME NEW t \in DOMAIN tenants, NEW plan \in Plans, NEW scope \in BillingScopes,
             NEW id \in Subscriptions, OpenCheckout(t, plan, scope, id)
      PROVE  Stripe' /\ Reported'
  BY <1>0, <1>3, OpenStep
<1>4. ASSUME NEW id \in Subscriptions, Pay(id)
      PROVE  Stripe' /\ Reported'
  <2> DEFINE status == IF subscriptions[id].metadata.plan_name = "starter" THEN "trialing"
                       ELSE "active"
  <2>1. /\ id \in DOMAIN subscriptions
        /\ subscriptions' = [subscriptions EXCEPT ![id].status = status]
        /\ Send("completed", id, status)
        /\ UNCHANGED tenants
    BY <1>4 DEF Pay
  <2>2. status \in Statuses
    BY DEF Statuses
  <2> HIDE DEF status
  <2>3. QED
    BY <1>0, <2>1, <2>2, SendStep
<1>5. ASSUME NEW id \in Subscriptions, NEW status \in {"active", "past_due", "canceled"},
             Change(id, status)
      PROVE  Stripe' /\ Reported'
  <2>1. status \in Statuses
    BY DEF Statuses
  <2>2. QED
    BY <1>0, <1>5, <2>1, SendStep DEF Change
<1>6. ASSUME NEW i \in DOMAIN events, Accept(i)
      PROVE  Stripe' /\ Reported'
  BY <1>0, <1>6, StripeKept DEF Accept
<1>7. CASE UNCHANGED vars
  BY <1>0, <1>7, StripeKept DEF vars
<1>8. QED
  BY <1>1, <1>2, <1>3, <1>4, <1>5, <1>6, <1>7 DEF Next

LEMMA RowsInit == Init => Rows /\ Reported
<1>1. IsFiniteSet({}) /\ Cardinality({}) = 0
  BY FS_EmptySet
<1>2. QED
  BY <1>1 DEF Init, Rows, TypeOK, Reported

LEMMA RowsStep ==
    ASSUME Rows, Reported, [Next]_vars
    PROVE  Rows' /\ Reported'
<1>1. ASSUME NEW p \in Principals, NEW t \in Tenants, Onboard(p, t)
      PROVE  Rows' /\ Reported'
  <2>1. Table' /\ Used'
    BY <1>1, OnboardTable
  <2>2. DOMAIN tenants \subseteq DOMAIN tenants'
    BY <1>1, OnboardStep
  <2>3. Stripe' /\ Reported'
    BY <2>2, StripeStep
  <2>4. QED
    BY <2>1, <2>3 DEF Rows, TypeOK, Table, Used, Stripe
<1>2. CASE \A p \in Principals, t \in Tenants : ~ Onboard(p, t)
  <2>1. Keeps
    BY <1>2, NextKeeps
  <2>2. Table' /\ Used'
    BY <1>2, <2>1, RowsParts, KeepsTable, UsedStep
  <2>3. Stripe' /\ Reported'
    BY <2>1, StripeStep DEF Keeps
  <2>4. QED
    BY <2>2, <2>3 DEF Rows, TypeOK, Table, Used, Stripe
<1>3. QED
  BY <1>1, <1>2

LEMMA AlwaysRows == Spec => [](Rows /\ Reported)
  BY RowsInit, RowsStep, PTL DEF Spec

\* Every row, subscription and event is of its type, and no two workspaces are
\* numbered alike, which decides whose quota is handed on.
THEOREM TypeCorrect == Spec => []TypeOK
<1>1. Rows => TypeOK
  BY DEF Rows
<1>2. QED
  BY <1>1, AlwaysRows, PTL

-----------------------------------------------------------------------------
(* Plans of single workspaces.                                             *)

LEMMA SharedColumns ==
    ASSUME NEW row \in Row, NEW from, NEW shared,
           shared = [row EXCEPT !.billing_scope = "account"]
    PROVE  /\ shared.billing_scope = "account"
           /\ shared.is_active = row.is_active
           /\ shared.monthly_quota = row.monthly_quota
           /\ shared.stripe_subscription_id = row.stripe_subscription_id
           /\ Taking(shared, from).billing_scope = "account"
           /\ Taking(shared, from).is_active = row.is_active
           /\ Taking(shared, from).monthly_quota = from.monthly_quota
           /\ Taking(shared, from).stripe_subscription_id = from.stripe_subscription_id
  BY DEF Row, Taking

LEMMA OwnPlanStep ==
    ASSUME Rows, Reported, [Next]_vars, NEW t \in DOMAIN tenants,
           tenants[t].billing_scope = "workspace", tenants'[t].billing_scope = "workspace",
           tenants'[t].monthly_quota # tenants[t].monthly_quota
    PROVE  \E i \in DOMAIN events :
              /\ Accept(i)
              /\ \/ events[i].metadata.tenant_slug = t
                 \/ events[i].id = tenants[t].stripe_subscription_id
<1>0. tenants[t] \in Row
  BY DEF Rows, TypeOK
<1>1. ASSUME NEW p \in Principals, NEW u \in Tenants, Onboard(p, u)
      PROVE  FALSE
  BY <1>1, OnboardStep
<1>2. ASSUME NEW p \in Principals, NEW u \in Tenants, Delete(p, u)
      PROVE  FALSE
  <2>1. CASE t = u
    <3>1. tenants'[t] = [tenants[t] EXCEPT !.is_active = FALSE]
      BY <1>2, <2>1, DeleteStep
    <3>2. QED
      BY <1>0, <3>1 DEF Row
  <2>2. CASE t # u
    <3>1. \/ tenants'[t] = tenants[t]
          \/ t \in AccountBilled(tenants, list_tenants_by_clerk_owner(tenants, p))
      BY <1>2, <2>2, DeleteStep
    <3>2. QED
      BY <3>1 DEF AccountBilled
  <2>3. QED
    BY <2>1, <2>2
<1>3. ASSUME NEW u \in DOMAIN tenants, ShareBilling(u)
      PROVE  FALSE
  <2>1. CASE t = u
    <3> DEFINE shared == [tenants[t] EXCEPT !.billing_scope = "account"]
    <3>1. tenants'[t] = shared \/ \E from : tenants'[t] = Taking(shared, from)
      BY <1>3, <2>1, ShareStep
    <3>2. tenants'[t].billing_scope = "account"
      BY <1>0, <3>1, SharedColumns
    <3>3. QED
      BY <3>2
  <2>2. CASE t # u
    BY <1>3, <2>2, ShareStep
  <2>3. QED
    BY <2>1, <2>2
<1>4. CASE UNCHANGED tenants
  BY <1>4
<1>5. ASSUME NEW i \in DOMAIN events, Accept(i)
      PROVE  \/ events[i].metadata.tenant_slug = t
             \/ events[i].id = tenants[t].stripe_subscription_id
  <2>1. events[i] \in Events
    BY <1>5, AcceptStep
  <2>2. PICK u \in DOMAIN tenants, status \in Statuses,
             quota \in {0, PlanQuotas[events[i].metadata.plan_name]} :
            /\ \/ u = events[i].metadata.tenant_slug
               \/ tenants[u].stripe_subscription_id = events[i].id
            /\ quota \in Quotas
            /\ Replan(u, events[i], status, quota)
    BY <1>5, AcceptStep
  <2>3. t \in BillingTenants(u, events[i].metadata.billing_scope)
    BY <2>1, <2>2, ReplanStep
  <2>4. t = u
    BY <2>3, PoolOf DEF BillingTenants, SharedBilling
  <2>5. QED
    BY <2>2, <2>4
<1>6. ASSUME NEW u \in DOMAIN tenants, Charge(u)
      PROVE  UNCHANGED tenants
  BY <1>6 DEF Charge
<1>7. ASSUME NEW u \in DOMAIN tenants, NEW plan \in Plans, NEW scope \in BillingScopes,
             NEW id \in Subscriptions, OpenCheckout(u, plan, scope, id)
      PROVE  UNCHANGED tenants
  BY <1>7 DEF OpenCheckout
<1>8. ASSUME NEW id \in Subscriptions,
             Pay(id) \/ \E status \in {"active", "past_due", "canceled"} : Change(id, status)
      PROVE  UNCHANGED tenants
  BY <1>8 DEF Pay, Change
<1>9. UNCHANGED vars => UNCHANGED tenants
  BY DEF vars
<1>10. QED
  BY <1>1, <1>2, <1>3, <1>4, <1>5, <1>6, <1>7, <1>8, <1>9 DEF Next

\* Whatever happens to the other workspaces of the account: the quota of a
\* workspace on its own plan changes only with an event of its own checkout or
\* subscription.
THEOREM OwnPlansAreUntouched == Spec => OwnPlanUntouched
<1> DEFINE A == \A t \in DOMAIN tenants :
          /\ tenants[t].billing_scope = "workspace" /\ tenants'[t].billing_scope = "workspace"
          /\ tenants'[t].monthly_quota # tenants[t].monthly_quota
          => \E i \in DOMAIN events :
                /\ Accept(i)
                /\ \/ events[i].metadata.tenant_slug = t
                   \/ events[i].id = tenants[t].stripe_subscription_id
<1>1. Rows /\ Reported /\ [Next]_vars => [A]_vars
  BY OwnPlanStep
<1>2. QED
  BY <1>1, AlwaysRows, PTL DEF Spec, OwnPlanUntouched

-----------------------------------------------------------------------------
(* Accounts that do not overlap.                                           *)

\* No user acts both alone and for an organisation, or for two of them.
Apart == \A p, q \in Principals : p.user = q.user => p.org = q.org

HasOwner(row) == \E p \in Principals : p.user = row.user /\ p.org = row.org

RowsOwned == \A t \in DOMAIN tenants : HasOwner(tenants[t])

\* Then to have an owner in common is an equivalence.
LEMMA OwnersApart ==
    ASSUME Apart, NEW a, HasOwner(a), NEW b, HasOwner(b), NEW c, HasOwner(c), SameOwner(a, b)
    PROVE  SameOwner(b, c) <=> SameOwner(a, c)
<1>1. /\ a.user = b.user => a.org = b.org
      /\ b.user = c.user => b.org = c.org
      /\ a.user = c.user => a.org = c.org
  BY DEF Apart, HasOwner
<1>2. QED
  BY <1>1 DEF SameOwner

LEMMA PrincipalsAreOwners ==
    ASSUME NEW p \in Principals
    PROVE  HasOwner(p)
  BY DEF HasOwner

\* And the queries find all there is of an account.
LEMMA AccountComplete ==
    ASSUME Apart, RowsOwned, NEW p \in Principals, NEW u \in Active(tenants),
           SameOwner(p, tenants[u])
    PROVE  u \in list_tenants_by_clerk_owner(tenants, p)
<1>1. p.user = tenants[u].user => p.org = tenants[u].org
  BY DEF Apart, RowsOwned, HasOwner, Active
<1>2. QED
  BY <1>1 DEF SameOwner, list_tenants_by_clerk_owner, OfOrg, OfUser

LEMMA PoolComplete ==
    ASSUME Apart, RowsOwned, Rows, NEW t \in DOMAIN tenants, NEW u \in SharedBilling(tenants),
           SameOwner(tenants[t], tenants[u])
    PROVE  u \in active_account_scope_tenants(tenants, t)
<1>1. u \in DOMAIN tenants /\ tenants[t] \in Row
  BY DEF SharedBilling, Rows, TypeOK
<1>2. tenants[t].user = tenants[u].user => tenants[t].org = tenants[u].org
  BY <1>1 DEF Apart, RowsOwned, HasOwner
<1>3. tenants[t].user # NoOwner
  BY <1>1, WorkspacesAssumption DEF Row
<1>4. QED
  BY <1>2, <1>3 DEF SameOwner, active_account_scope_tenants

LEMMA OwnedStep ==
    ASSUME Rows, Reported, RowsOwned, [Next]_vars
    PROVE  RowsOwned'
<1>1. ASSUME NEW p \in Principals, NEW t \in Tenants, Onboard(p, t)
      PROVE  RowsOwned'
  <2>1. tenants'[t] = Fresh(p) \/ \E from : tenants'[t] = Taking(Fresh(p), from)
    BY <1>1, OnboardStep
  <2>2. tenants'[t].user = p.user /\ tenants'[t].org = p.org
    BY <2>1, FreshColumns
  <2>3. HasOwner(tenants'[t])
    BY <2>2 DEF HasOwner
  <2>4. \A u \in DOMAIN tenants' : u = t \/ (u \in DOMAIN tenants /\ tenants'[u] = tenants[u])
    BY <1>1, OnboardStep
  <2>5. QED
    BY <2>3, <2>4 DEF RowsOwned
<1>2. CASE \A p \in Principals, t \in Tenants : ~ Onboard(p, t)
  BY <1>2, NextKeeps DEF RowsOwned, HasOwner, Keeps
<1>3. QED
  BY <1>1, <1>2

-----------------------------------------------------------------------------
(* Pools.                                                                  *)

\* Rows of one account that are billed together carry the same plan.
SamePlan(row, from) ==
    /\ row.monthly_quota = from.monthly_quota
    /\ row.stripe_subscription_id = from.stripe_subscription_id

SharedAgree ==
    \A t, u \in SharedBilling(tenants) :
        SameOwner(tenants[t], tenants[u]) => SamePlan(tenants[t], tenants[u])

LEMMA OnboardAgrees ==
    ASSUME Apart, Rows, RowsOwned, SharedAgree, NEW p \in Principals, NEW t \in Tenants,
           Onboard(p, t)
    PROVE  SharedAgree'
<1>1. /\ DOMAIN tenants' = DOMAIN tenants \cup {t} /\ t \notin DOMAIN tenants
      /\ \A u \in DOMAIN tenants : tenants'[u] = tenants[u]
  BY OnboardStep
<1>2. tenants'[t] = Fresh(p) \/ \E from : tenants'[t] = Taking(Fresh(p), from)
  BY OnboardStep
<1>3. tenants'[t].user = p.user /\ tenants'[t].org = p.org
  BY <1>2, FreshColumns
<1>4. ASSUME NEW u \in SharedBilling(tenants), SameOwner(p, tenants[u])
      PROVE  SamePlan(tenants'[t], tenants[u])
  <2>1. u \in list_tenants_by_clerk_owner(tenants, p)
    BY <1>4, AccountComplete DEF SharedBilling, Active
  <2>2. QuotaSource(p) = AccountBilled(tenants, list_tenants_by_clerk_owner(tenants, p))
    BY <2>1 DEF QuotaSource, AccountBilled, SharedBilling
  <2>3. u \in QuotaSource(p)
    BY <2>1, <2>2 DEF AccountBilled, SharedBilling
  <2>4. PICK v \in QuotaSource(p) : tenants'[t] = Taking(Fresh(p), tenants[v])
    BY <2>3, OnboardStep
  <2>5. v \in SharedBilling(tenants) /\ SameOwner(p, tenants[v])
    BY <2>2, AccountOf DEF AccountBilled, SharedBilling, Active
  <2>6. SameOwner(tenants[v], tenants[u])
    <3>1. HasOwner(p) /\ HasOwner(tenants[u]) /\ HasOwner(tenants[v])
      BY <2>5, PrincipalsAreOwners DEF RowsOwned, SharedBilling
    <3>2. QED
      BY <1>4, <2>5, <3>1, OwnersApart
  <2>7. SamePlan(tenants[v], tenants[u])
    BY <2>5, <2>6 DEF SharedAgree
  <2>8. QED
    BY <2>4, <2>7, TakenColumns DEF SamePlan
<1>5. ASSUME NEW u \in SharedBilling(tenants)',
             NEW v \in SharedBilling(tenants)',
             SameOwner(tenants'[u], tenants'[v])
      PROVE  SamePlan(tenants'[u], tenants'[v])
  <2>1. \A w \in SharedBilling(tenants)' : w = t \/ (w \in SharedBilling(tenants) /\ w # t)
    BY <1>1 DEF SharedBilling
  <2>2. \A w \in SharedBilling(tenants) :
            tenants'[w] = tenants[w]
            /\ (SameOwner(p, tenants[w]) <=> SameOwner(tenants'[t], tenants'[w]))
            /\ (SameOwner(p, tenants[w]) <=> SameOwner(tenants'[w], tenants'[t]))
    BY <1>1, <1>3 DEF SharedBilling, SameOwner
  <2>3. CASE u = t /\ v # t
    BY <1>4, <1>5, <2>1, <2>2, <2>3
  <2>4. CASE v = t /\ u # t
    BY <1>4, <1>5, <2>1, <2>2, <2>4 DEF SamePlan
  <2>5. CASE u # t /\ v # t
    BY <1>5, <2>1, <2>2, <2>5 DEF SharedAgree
  <2>6. CASE u = t /\ v = t
    BY <2>6 DEF SamePlan
  <2>7. QED
    BY <2>3, <2>4, <2>5, <2>6
<1>6. QED
  BY <1>5 DEF SharedAgree

\* One group of rows gets a plan, and with it all rows of their owner.
LEMMA GroupAgrees ==
    ASSUME SharedAgree, Keeps, NEW G, NEW plan,
           \A u, v \in SharedBilling(tenants)' :
               u \in G /\ SameOwner(tenants[u], tenants[v]) => SamePlan(tenants'[v], plan),
           \A u \in SharedBilling(tenants)' :
               u \notin G => u \in SharedBilling(tenants) /\ SamePlan(tenants'[u], tenants[u])
    PROVE  SharedAgree'
<1>1. ASSUME NEW u \in SharedBilling(tenants)', NEW v \in SharedBilling(tenants)',
             SameOwner(tenants'[u], tenants'[v])
      PROVE  SamePlan(tenants'[u], tenants'[v])
  <2>1. u \in DOMAIN tenants /\ v \in DOMAIN tenants
    BY DEF SharedBilling, Keeps
  <2>2. SameOwner(tenants[u], tenants[v]) /\ SameOwner(tenants[v], tenants[u])
    BY <1>1, <2>1 DEF SameOwner, Keeps
  <2>3. SameOwner(tenants[u], tenants[u]) /\ SameOwner(tenants[v], tenants[v])
    BY DEF SameOwner
  <2>4. CASE u \in G
    BY <2>2, <2>3, <2>4 DEF SamePlan
  <2>5. CASE v \in G
    BY <2>2, <2>3, <2>5 DEF SamePlan
  <2>6. CASE u \notin G /\ v \notin G
    <3>1. SamePlan(tenants[u], tenants[v])
      BY <2>2, <2>6 DEF SharedAgree
    <3>2. QED
      BY <2>6, <3>1 DEF SamePlan
  <2>7. QED
    BY <2>4, <2>5, <2>6
<1>2. QED
  BY <1>1 DEF SharedAgree

LEMMA InheritColumns ==
    ASSUME NEW row \in Row, NEW from
    PROVE  /\ Inherit(row, from).monthly_quota = from.monthly_quota
           /\ Inherit(row, from).billing_scope = row.billing_scope
           /\ Inherit(row, from).is_active = row.is_active
           /\ Inherit(row, from).stripe_subscription_id
                 \in {row.stripe_subscription_id, from.stripe_subscription_id}
           /\ Inherit(row, from).subscription_status = from.subscription_status
<1> DEFINE id == IF from.stripe_subscription_id # NoSubscription
                 THEN from.stripe_subscription_id ELSE row.stripe_subscription_id
<1>1. Inherit(row, from) =
          [row EXCEPT !.plan_name = from.plan_name, !.monthly_quota = from.monthly_quota,
                      !.subscription_status = from.subscription_status,
                      !.stripe_subscription_id = id]
  BY DEF Inherit
<1>2. id \in {row.stripe_subscription_id, from.stripe_subscription_id}
  OBVIOUS
<1> HIDE DEF id
<1>3. QED
  BY <1>1, <1>2 DEF Row

\* The row whose plan is handed on has the plan of those who get it.
LEMMA SharedOfOne ==
    ASSUME Apart, Rows, RowsOwned, SharedAgree, NEW p \in Principals,
           NEW u \in AccountBilled(tenants, list_tenants_by_clerk_owner(tenants, p))
    PROVE  SamePlan(tenants[u], tenants[quota_owner(tenants,
                        AccountBilled(tenants, list_tenants_by_clerk_owner(tenants, p)))])
<1> DEFINE shared == AccountBilled(tenants, list_tenants_by_clerk_owner(tenants, p))
           from   == quota_owner(tenants, shared)
<1>1. shared \subseteq DOMAIN tenants
  BY AccountOf DEF AccountBilled, Active
<1>2. from \in shared
  BY <1>1, OwnerAmongRows
<1>3. \A v \in shared : /\ v \in SharedBilling(tenants) /\ SameOwner(p, tenants[v])
                        /\ HasOwner(tenants[v])
  BY <1>1, AccountOf DEF AccountBilled, SharedBilling, Active, RowsOwned
<1> HIDE DEF from
<1>4. SameOwner(tenants[u], tenants[from])
  BY <1>2, <1>3, PrincipalsAreOwners, OwnersApart
<1>5. QED
  BY <1>2, <1>3, <1>4 DEF SharedAgree, from

LEMMA DeleteAgrees ==
    ASSUME Apart, Rows, RowsOwned, SharedAgree, NEW p \in Principals, NEW t \in Tenants,
           Delete(p, t)
    PROVE  SharedAgree'
<1> DEFINE shared == AccountBilled(tenants, list_tenants_by_clerk_owner(tenants, p))
           from   == tenants[quota_owner(tenants, shared)]
           G      == IF tenants[t].billing_scope = "account" THEN shared ELSE {}
<1>1. Keeps
  BY DeleteStep
<1>2. t \in DOMAIN tenants
  BY DEF Delete, Owned, OfOrg, OfUser, Active
<1>3. t \notin SharedBilling(tenants)'
  <2>1. tenants'[t] = [tenants[t] EXCEPT !.is_active = FALSE] /\ tenants[t] \in Row
    BY <1>2, DeleteStep DEF Rows, TypeOK
  <2>2. ~ tenants'[t].is_active
    BY <2>1 DEF Row
  <2>3. QED
    BY <2>2 DEF SharedBilling
<1>4. ASSUME NEW u \in SharedBilling(tenants)'
      PROVE  /\ u \in SharedBilling(tenants)
             /\ u \in G => SamePlan(tenants'[u], from)
             /\ u \notin G => SamePlan(tenants'[u], tenants[u])
  <2>1. u \in DOMAIN tenants \ {t} /\ tenants[u] \in Row
    BY <1>1, <1>3 DEF SharedBilling, Keeps, Rows, TypeOK
  <2>2. CASE u \notin G
    <3>1. tenants'[u] = tenants[u]
      BY <2>1, <2>2, DeleteStep
    <3>2. QED
      BY <1>4, <2>1, <2>2, <3>1 DEF SharedBilling, SamePlan
  <2>3. CASE u \in G
    <3>1. tenants'[u] = Inherit(tenants[u], from)
      BY <2>1, <2>3, DeleteStep
    <3>2. u \in SharedBilling(tenants)
      BY <1>4, <2>1, <3>1, InheritColumns DEF SharedBilling
    <3>3. SamePlan(tenants[u], from)
      BY <2>3, <3>2, SharedOfOne
    <3>4. QED
      BY <2>1, <2>3, <3>1, <3>2, <3>3, InheritColumns DEF SamePlan
  <2>4. QED
    BY <2>2, <2>3
<1>5. ASSUME NEW u \in SharedBilling(tenants)', NEW v \in SharedBilling(tenants)',
             u \in G, SameOwner(tenants[u], tenants[v])
      PROVE  SamePlan(tenants'[v], from)
  <2>1. SameOwner(p, tenants[u])
    BY <1>5, AccountOf DEF AccountBilled
  <2>2. u \in DOMAIN tenants /\ v \in SharedBilling(tenants) /\ v \in DOMAIN tenants
    BY <1>4 DEF SharedBilling
  <2>3. SameOwner(p, tenants[v])
    BY <1>5, <2>1, <2>2, PrincipalsAreOwners, OwnersApart DEF RowsOwned
  <2>4. v \in shared
    BY <2>2, <2>3, AccountComplete DEF AccountBilled, SharedBilling, Active
  <2>5. QED
    BY <1>4, <1>5, <2>4
<1>6. \A u, v \in SharedBilling(tenants)' :
          u \in G /\ SameOwner(tenants[u], tenants[v]) => SamePlan(tenants'[v], from)
  BY <1>5
<1>7. \A u \in SharedBilling(tenants)' : u \notin G =>
          u \in SharedBilling(tenants) /\ SamePlan(tenants'[u], tenants[u])
  BY <1>4
<1> HIDE DEF G, from
<1>8. QED
  BY <1>1, <1>6, <1>7, GroupAgrees

LEMMA ShareAgrees ==
    ASSUME Apart, Rows, RowsOwned, SharedAgree, NEW t \in DOMAIN tenants, ShareBilling(t)
    PROVE  SharedAgree'
<1> DEFINE others == active_account_scope_tenants(tenants, t) \ {t}
           shared == [tenants[t] EXCEPT !.billing_scope = "account"]
<1>1. Keeps /\ \A u \in DOMAIN tenants \ {t} : tenants'[u] = tenants[u]
  BY ShareStep
<1>2. \A u \in SharedBilling(tenants)' : u # t =>
          u \in SharedBilling(tenants) /\ SamePlan(tenants'[u], tenants[u])
  BY <1>1 DEF SharedBilling, Keeps, SamePlan
<1>3. ASSUME NEW v \in SharedBilling(tenants)', SameOwner(tenants[t], tenants[v])
      PROVE  SamePlan(tenants'[v], tenants'[t])
  <2>1. CASE v = t
    BY <2>1 DEF SamePlan
  <2>2. CASE v # t
    <3>1. v \in SharedBilling(tenants) /\ SamePlan(tenants'[v], tenants[v])
      BY <1>2, <2>2
    <3>2. v \in others
      BY <1>3, <2>2, <3>1, PoolComplete
    <3>3. PICK w \in others : tenants'[t] = Taking(shared, tenants[w])
      BY <3>2, ShareStep
    <3>4. SamePlan(tenants'[t], tenants[w])
      BY <3>3, SharedColumns DEF Rows, TypeOK, SamePlan
    <3>5. w \in SharedBilling(tenants) /\ SameOwner(tenants[t], tenants[w])
      BY PoolOf
    <3>6. SameOwner(tenants[w], tenants[v])
      BY <1>3, <3>1, <3>5, OwnersApart DEF RowsOwned, SharedBilling
    <3>7. QED
      BY <3>1, <3>4, <3>5, <3>6 DEF SharedAgree, SamePlan
  <2>3. QED
    BY <2>1, <2>2
<1> DEFINE plan == tenants'[t]
<1>4. \A u, v \in SharedBilling(tenants)' :
          u \in {t} /\ SameOwner(tenants[u], tenants[v]) => SamePlan(tenants'[v], plan)
  BY <1>3
<1>5. \A u \in SharedBilling(tenants)' : u \notin {t} =>
          u \in SharedBilling(tenants) /\ SamePlan(tenants'[u], tenants[u])
  BY <1>2
<1> HIDE DEF plan
<1>6. QED
  BY <1>1, <1>4, <1>5, GroupAgrees

LEMMA PlannedColumns ==
    ASSUME NEW row \in Row, NEW e \in Events, NEW status, NEW quota
    PROVE  /\ Planned(row, e, status, quota).monthly_quota = quota
           /\ Planned(row, e, status, quota).stripe_subscription_id = e.id
           /\ Planned(row, e, status, quota).is_active = row.is_active
           /\ Planned(row, e, status, quota).subscription_status = status
           /\ Planned(row, e, status, quota).billing_scope =
                 IF e.metadata.billing_scope = "workspace" THEN "workspace" ELSE row.billing_scope
<1> DEFINE scope == IF e.metadata.billing_scope = "workspace" THEN "workspace"
                    ELSE row.billing_scope
<1>1. Planned(row, e, status, quota) =
          [row EXCEPT !.billing_scope = scope, !.plan_name = e.metadata.plan_name,
                      !.monthly_quota = quota, !.stripe_subscription_id = e.id,
                      !.subscription_status = status]
  BY DEF Planned
<1> HIDE DEF scope
<1>2. /\ Planned(row, e, status, quota).monthly_quota = quota
      /\ Planned(row, e, status, quota).stripe_subscription_id = e.id
      /\ Planned(row, e, status, quota).is_active = row.is_active
      /\ Planned(row, e, status, quota).subscription_status = status
      /\ Planned(row, e, status, quota).billing_scope = scope
  BY <1>1 DEF Row
<1>3. QED
  BY <1>2 DEF scope

LEMMA ReplanAgrees ==
    ASSUME Apart, Rows, RowsOwned, SharedAgree, NEW t \in DOMAIN tenants, NEW e \in Events,
           NEW status \in Statuses, NEW quota \in Quotas, Replan(t, e, status, quota)
    PROVE  SharedAgree'
<1> DEFINE G == BillingTenants(t, e.metadata.billing_scope)
           plan == [monthly_quota |-> quota, stripe_subscription_id |-> e.id]
<1>1. /\ Keeps
      /\ \A u \in DOMAIN tenants :
            tenants'[u] = IF u \in G THEN Planned(tenants[u], e, status, quota) ELSE tenants[u]
  BY ReplanStep
<1>2. ASSUME NEW u \in SharedBilling(tenants)'
      PROVE  /\ u \in SharedBilling(tenants)
             /\ u \in G => /\ SamePlan(tenants'[u], plan)
                           /\ e.metadata.billing_scope # "workspace"
             /\ u \notin G => tenants'[u] = tenants[u]
  <2>1. /\ u \in DOMAIN tenants /\ tenants[u] \in Row
        /\ tenants'[u].is_active /\ tenants'[u].billing_scope = "account"
    BY <1>1 DEF SharedBilling, Keeps, Rows, TypeOK
  <2>2. CASE u \in G
    <3>1. tenants'[u] = Planned(tenants[u], e, status, quota)
      BY <1>1, <2>1, <2>2
    <3>2. QED
      BY <2>1, <2>2, <3>1, PlannedColumns DEF SharedBilling, SamePlan
  <2>3. CASE u \notin G
    BY <1>1, <2>1, <2>3 DEF SharedBilling
  <2>4. QED
    BY <2>2, <2>3
<1>3. ASSUME NEW u \in SharedBilling(tenants)', NEW v \in SharedBilling(tenants)',
             u \in G, SameOwner(tenants[u], tenants[v])
      PROVE  SamePlan(tenants'[v], plan)
  <2>1. /\ u \in SharedBilling(tenants) /\ v \in SharedBilling(tenants)
        /\ u \in DOMAIN tenants /\ v \in DOMAIN tenants
        /\ e.metadata.billing_scope # "workspace"
    BY <1>2, <1>3 DEF SharedBilling
  <2>2. SameOwner(tenants[t], tenants[u])
    BY <1>3, BillingOf
  <2>3. u \in active_account_scope_tenants(tenants, t)
    BY <2>1, <2>2, PoolComplete
  <2>4. SameOwner(tenants[t], tenants[v])
    BY <1>3, <2>1, <2>2, OwnersApart DEF RowsOwned
  <2>5. v \in active_account_scope_tenants(tenants, t)
    BY <2>1, <2>4, PoolComplete
  <2>6. G = active_account_scope_tenants(tenants, t)
    <3>1. tenants[t].billing_scope = "workspace" => u = t
      BY <1>3 DEF BillingTenants
    <3>2. tenants[t].billing_scope # "workspace"
      BY <2>1, <3>1 DEF SharedBilling
    <3>3. QED
      BY <2>1, <2>3, <3>2 DEF BillingTenants
  <2>7. QED
    BY <1>2, <2>5, <2>6
<1>4. \A u, v \in SharedBilling(tenants)' :
          u \in G /\ SameOwner(tenants[u], tenants[v]) => SamePlan(tenants'[v], plan)
  BY <1>3
<1>5. \A u \in SharedBilling(tenants)' : u \notin G =>
          u \in SharedBilling(tenants) /\ SamePlan(tenants'[u], tenants[u])
  BY <1>2 DEF SamePlan
<1> HIDE DEF G, plan
<1>6. QED
  BY <1>1, <1>4, <1>5, GroupAgrees

LEMMA AgreeStep ==
    ASSUME Apart, Rows, Reported, RowsOwned, SharedAgree, [Next]_vars
    PROVE  SharedAgree'
<1>1. ASSUME UNCHANGED tenants
      PROVE  SharedAgree'
  BY <1>1 DEF SharedAgree
<1>2. ASSUME NEW p \in Principals, NEW t \in Tenants, Onboard(p, t) \/ Delete(p, t)
      PROVE  SharedAgree'
  BY <1>2, OnboardAgrees, DeleteAgrees
<1>3. ASSUME NEW t \in DOMAIN tenants, ShareBilling(t) \/ Charge(t)
      PROVE  SharedAgree'
  BY <1>1, <1>3, ShareAgrees DEF Charge
<1>4. ASSUME NEW t \in DOMAIN tenants, NEW plan \in Plans, NEW scope \in BillingScopes,
             NEW id \in Subscriptions, OpenCheckout(t, plan, scope, id)
      PROVE  SharedAgree'
  BY <1>1, <1>4 DEF OpenCheckout
<1>5. ASSUME NEW id \in Subscriptions,
             Pay(id) \/ \E status \in {"active", "past_due", "canceled"} : Change(id, status)
      PROVE  SharedAgree'
  BY <1>1, <1>5 DEF Pay, Change
<1>6. ASSUME NEW i \in DOMAIN events, Accept(i)
      PROVE  SharedAgree'
  BY <1>6, AcceptStep, ReplanAgrees
<1>7. CASE UNCHANGED vars
  BY <1>1, <1>7 DEF vars
<1>8. QED
  BY <1>2, <1>3, <1>4, <1>5, <1>6, <1>7 DEF Next

LEMMA AgreeInit == Init => RowsOwned /\ SharedAgree
  BY DEF Init, RowsOwned, SharedAgree, SharedBilling

\* Whatever is created, deleted, shared, bought or cancelled, and in whatever
\* order Stripe reports it: workspaces that share a pool carry the same quota,
\* as long as no user acts in two ways.
THEOREM PoolsAgree ==
    ASSUME Apart
    PROVE  Spec => []PoolRowsAgree
<1>1. Rows /\ Reported /\ RowsOwned /\ SharedAgree /\ [Next]_vars => (RowsOwned /\ SharedAgree)'
  BY OwnedStep, AgreeStep
<1>2. ASSUME Rows, RowsOwned, SharedAgree
      PROVE  PoolRowsAgree
  <2>1. ASSUME NEW t \in Active(tenants), NEW u \in QuotaScope(tenants, t),
               NEW v \in QuotaScope(tenants, t)
        PROVE  tenants[u].monthly_quota = tenants[v].monthly_quota
    <3>1. CASE u = t /\ v = t
      BY <3>1
    <3>2. CASE ~ (u = t /\ v = t)
      <4>1. /\ u \in active_account_scope_tenants(tenants, t)
            /\ v \in active_account_scope_tenants(tenants, t)
        BY <2>1, <3>2 DEF QuotaScope
      <4>2. /\ u \in SharedBilling(tenants) /\ v \in SharedBilling(tenants)
            /\ SameOwner(tenants[t], tenants[u]) /\ SameOwner(tenants[t], tenants[v])
        BY <4>1, PoolOf
      <4>3. SameOwner(tenants[u], tenants[v])
        BY <1>2, <4>2, OwnersApart DEF RowsOwned, SharedBilling, Active, SameOwner
      <4>4. QED
        BY <1>2, <4>2, <4>3 DEF SharedAgree, SamePlan
    <3>3. QED
      BY <3>1, <3>2
  <2>2. QED
    BY <2>1 DEF PoolRowsAgree, Pools
<1>3. QED
  BY <1>1, <1>2, AlwaysRows, AgreeInit, PTL DEF Spec

-----------------------------------------------------------------------------
(* Payments.                                                               *)

\* A completed checkout of the same owner explains the quota of a row, and its
\* subscription is one of the same owner.
PaidRow(row) ==
    row.monthly_quota > BootstrapQuota =>
        \E id \in DOMAIN subscriptions :
            LET by == subscriptions[id].metadata
            IN  /\ subscriptions[id].status # "open"
                /\ row.monthly_quota = PlanQuotas[by.plan_name]
                /\ SameOwner(row, tenants[by.tenant_slug])

KnownRow(row) ==
    LET id == row.stripe_subscription_id
    IN  id # NoSubscription =>
            /\ id \in DOMAIN subscriptions
            /\ SameOwner(row, tenants[subscriptions[id].metadata.tenant_slug])

AllPaid ==
    \A t \in DOMAIN tenants : PaidRow(tenants[t]) /\ KnownRow(tenants[t])

\* A row that copies another one of its owner inherits the explanation.
LEMMA Copied ==
    ASSUME Apart, Reported, RowsOwned, AllPaid, NEW v \in DOMAIN tenants,
           NEW row, HasOwner(row), SameOwner(row, tenants[v])
    PROVE  /\ row.monthly_quota = tenants[v].monthly_quota => PaidRow(row)
           /\ row.stripe_subscription_id = tenants[v].stripe_subscription_id => KnownRow(row)
<1>1. ASSUME NEW id \in DOMAIN subscriptions,
             SameOwner(tenants[v], tenants[subscriptions[id].metadata.tenant_slug])
      PROVE  SameOwner(row, tenants[subscriptions[id].metadata.tenant_slug])
  <2>1. HasOwner(tenants[v]) /\ HasOwner(tenants[subscriptions[id].metadata.tenant_slug])
    BY DEF RowsOwned, Reported
  <2>2. QED
    BY <1>1, <2>1, OwnersApart
<1>2. ASSUME row.monthly_quota = tenants[v].monthly_quota
      PROVE  PaidRow(row)
  <2>1. PaidRow(tenants[v])
    BY DEF AllPaid
  <2>2. QED
    BY <1>1, <1>2, <2>1 DEF PaidRow
<1>3. ASSUME row.stripe_subscription_id = tenants[v].stripe_subscription_id
      PROVE  KnownRow(row)
  <2>1. KnownRow(tenants[v])
    BY DEF AllPaid
  <2>2. QED
    BY <1>1, <1>3, <2>1 DEF KnownRow
<1>4. QED
  BY <1>2, <1>3

\* What was paid for stays paid for.
PaymentsStay ==
    \A id \in DOMAIN subscriptions :
        /\ id \in DOMAIN subscriptions'
        /\ subscriptions'[id].metadata = subscriptions[id].metadata
        /\ subscriptions[id].status # "open" => subscriptions'[id].status # "open"

LEMMA StatusChange ==
    ASSUME Rows, NEW id \in DOMAIN subscriptions, NEW status, status # "open",
           subscriptions' = [subscriptions EXCEPT ![id].status = status]
    PROVE  PaymentsStay
<1>1. \A x \in DOMAIN subscriptions :
          subscriptions[x] \in [status : Statuses \cup {"open"}, metadata : Metadata]
  BY DEF Rows, TypeOK
<1>2. QED
  BY <1>1 DEF PaymentsStay

LEMMA StillPaid ==
    ASSUME Rows, [Next]_vars
    PROVE  PaymentsStay
<1>1. ASSUME UNCHANGED subscriptions
      PROVE  PaymentsStay
  BY <1>1 DEF PaymentsStay
<1>2. ASSUME NEW p \in Principals, NEW t \in Tenants, Onboard(p, t) \/ Delete(p, t)
      PROVE  PaymentsStay
  BY <1>1, <1>2 DEF Onboard, Delete
<1>3. ASSUME NEW t \in DOMAIN tenants, ShareBilling(t) \/ Charge(t)
      PROVE  PaymentsStay
  BY <1>1, <1>3 DEF ShareBilling, Charge
<1>4. ASSUME NEW t \in DOMAIN tenants, NEW plan \in Plans, NEW scope \in BillingScopes,
             NEW id \in Subscriptions, OpenCheckout(t, plan, scope, id)
      PROVE  PaymentsStay
  <2> DEFINE opened == [status |-> "open",
                 metadata |-> [tenant_slug |-> t, plan_name |-> plan, billing_scope |-> scope]]
  <2>1. id \notin DOMAIN subscriptions /\ subscriptions' = Extend(subscriptions, id, opened)
    BY <1>4 DEF OpenCheckout
  <2> HIDE DEF opened
  <2>2. /\ DOMAIN subscriptions \subseteq DOMAIN subscriptions'
        /\ \A x \in DOMAIN subscriptions : subscriptions'[x] = subscriptions[x]
    BY <2>1 DEF Extend
  <2>3. QED
    BY <2>2 DEF PaymentsStay
<1>5. ASSUME NEW id \in Subscriptions, Pay(id)
      PROVE  PaymentsStay
  <2> DEFINE status == IF subscriptions[id].metadata.plan_name = "starter" THEN "trialing"
                       ELSE "active"
  <2>1. id \in DOMAIN subscriptions /\ subscriptions' = [subscriptions EXCEPT ![id].status = status]
    BY <1>5 DEF Pay
  <2>2. status # "open"
    OBVIOUS
  <2> HIDE DEF status
  <2>3. QED
    BY <2>1, <2>2, StatusChange
<1>6. ASSUME NEW id \in Subscriptions, NEW status \in {"active", "past_due", "canceled"},
             Change(id, status)
      PROVE  PaymentsStay
  BY <1>6, StatusChange DEF Change
<1>7. ASSUME NEW i \in DOMAIN events, Accept(i)
      PROVE  PaymentsStay
  BY <1>1, <1>7 DEF Accept
<1>8. CASE UNCHANGED vars
  BY <1>1, <1>8 DEF vars
<1>9. QED
  BY <1>2, <1>3, <1>4, <1>5, <1>6, <1>7, <1>8 DEF Next

LEMMA OnboardPaid ==
    ASSUME Apart, Rows, Reported, RowsOwned, AllPaid, NEW p \in Principals, NEW t \in Tenants,
           Onboard(p, t)
    PROVE  PaidRow(tenants'[t]) /\ KnownRow(tenants'[t])
<1>1. CASE tenants'[t] = Fresh(p)
  <2>1. /\ tenants'[t].monthly_quota = BootstrapQuota
        /\ tenants'[t].stripe_subscription_id = NoSubscription
    BY <1>1 DEF Fresh
  <2>2. ~ (BootstrapQuota > BootstrapQuota)
    BY WorkspacesAssumption
  <2>3. QED
    BY <2>1, <2>2 DEF PaidRow, KnownRow
<1>2. ASSUME NEW u \in QuotaSource(p), tenants'[t] = Taking(Fresh(p), tenants[u])
      PROVE  PaidRow(tenants'[t]) /\ KnownRow(tenants'[t])
  <2>1. u \in list_tenants_by_clerk_owner(tenants, p)
    BY SourceOf
  <2>2. u \in DOMAIN tenants /\ SameOwner(p, tenants[u])
    BY <2>1, AccountOf DEF Active
  <2>3. tenants'[t].user = p.user /\ tenants'[t].org = p.org
    BY <1>2, FreshColumns
  <2>4. HasOwner(tenants'[t]) /\ SameOwner(tenants'[t], tenants[u])
    BY <2>2, <2>3 DEF HasOwner, SameOwner
  <2>5. /\ tenants'[t].monthly_quota = tenants[u].monthly_quota
        /\ tenants'[t].stripe_subscription_id = tenants[u].stripe_subscription_id
    BY <1>2, TakenColumns
  <2>6. QED
    BY <2>2, <2>4, <2>5, Copied
<1>3. QED
  BY <1>1, <1>2, OnboardStep

\* A row of the table is its own owner's, and so is what becomes of it.
LEMMA KeptOwner ==
    ASSUME RowsOwned, Keeps, NEW u \in DOMAIN tenants
    PROVE  /\ HasOwner(tenants[u]) /\ HasOwner(tenants'[u])
           /\ \A v : /\ SameOwner(tenants'[u], tenants[v]) <=> SameOwner(tenants[u], tenants[v])
                     /\ SameOwner(tenants'[v], tenants'[u]) <=> SameOwner(tenants'[v], tenants[u])
           /\ SameOwner(tenants[u], tenants[u])
  BY DEF RowsOwned, Keeps, HasOwner, SameOwner

LEMMA SamePaid ==
    ASSUME Apart, Reported, RowsOwned, AllPaid, Keeps, NEW u \in DOMAIN tenants,
           tenants'[u].monthly_quota = tenants[u].monthly_quota,
           tenants'[u].stripe_subscription_id = tenants[u].stripe_subscription_id
    PROVE  PaidRow(tenants'[u]) /\ KnownRow(tenants'[u])
  BY KeptOwner, Copied

LEMMA DeletePaid ==
    ASSUME Apart, Rows, Reported, RowsOwned, AllPaid, NEW p \in Principals, NEW t \in Tenants,
           Delete(p, t), NEW u \in DOMAIN tenants
    PROVE  PaidRow(tenants'[u]) /\ KnownRow(tenants'[u])
<1> DEFINE shared == AccountBilled(tenants, list_tenants_by_clerk_owner(tenants, p))
           v == quota_owner(tenants, shared)
<1>1. Keeps /\ tenants[u] \in Row
  BY DeleteStep DEF Rows, TypeOK
<1>2. CASE u = t
  <2>1. tenants'[u] = [tenants[u] EXCEPT !.is_active = FALSE]
    BY <1>2, DeleteStep
  <2>2. /\ tenants'[u].monthly_quota = tenants[u].monthly_quota
        /\ tenants'[u].stripe_subscription_id = tenants[u].stripe_subscription_id
    BY <1>1, <2>1 DEF Row
  <2>3. QED
    BY <1>1, <2>2, SamePaid
<1>3. CASE tenants'[u] = tenants[u]
  BY <1>1, <1>3, SamePaid
<1>4. ASSUME u # t, tenants'[u] # tenants[u]
      PROVE  PaidRow(tenants'[u]) /\ KnownRow(tenants'[u])
  <2>1. /\ u \in shared /\ v \in shared
        /\ tenants'[u] = Inherit(tenants[u], tenants[v])
    BY <1>4, DeleteStep
  <2>2. /\ v \in DOMAIN tenants
        /\ SameOwner(p, tenants[u]) /\ SameOwner(p, tenants[v])
    BY <2>1, AccountOf DEF AccountBilled, Active
  <2>3. SameOwner(tenants[u], tenants[v])
    BY <2>2, PrincipalsAreOwners, OwnersApart DEF RowsOwned
  <2> HIDE DEF shared, v
  <2>4. /\ HasOwner(tenants'[u])
        /\ SameOwner(tenants'[u], tenants[u]) /\ SameOwner(tenants'[u], tenants[v])
    BY <1>1, <2>3, KeptOwner
  <2>5. /\ tenants'[u].monthly_quota = tenants[v].monthly_quota
        /\ \/ tenants'[u].stripe_subscription_id = tenants[u].stripe_subscription_id
           \/ tenants'[u].stripe_subscription_id = tenants[v].stripe_subscription_id
    BY <1>1, <2>1, InheritColumns
  <2>6. QED
    BY <2>2, <2>4, <2>5, Copied
<1>5. QED
  BY <1>2, <1>3, <1>4

LEMMA SharePaid ==
    ASSUME Apart, Rows, Reported, RowsOwned, AllPaid, NEW t \in DOMAIN tenants,
           ShareBilling(t), NEW u \in DOMAIN tenants
    PROVE  PaidRow(tenants'[u]) /\ KnownRow(tenants'[u])
<1> DEFINE others == active_account_scope_tenants(tenants, t) \ {t}
           shared == [tenants[t] EXCEPT !.billing_scope = "account"]
<1>1. Keeps /\ tenants[t] \in Row
  BY ShareStep DEF Rows, TypeOK
<1>2. CASE u # t
  BY <1>1, <1>2, ShareStep, SamePaid
<1>3. CASE u = t /\ tenants'[t] = shared
  BY <1>1, <1>3, SharedColumns, SamePaid
<1>4. ASSUME u = t, NEW w \in others, tenants'[t] = Taking(shared, tenants[w])
      PROVE  PaidRow(tenants'[u]) /\ KnownRow(tenants'[u])
  <2>1. w \in DOMAIN tenants /\ SameOwner(tenants[t], tenants[w])
    BY PoolOf DEF SharedBilling
  <2>2. HasOwner(tenants'[t]) /\ SameOwner(tenants'[t], tenants[w])
    BY <1>1, <2>1, KeptOwner
  <2>3. /\ tenants'[t].monthly_quota = tenants[w].monthly_quota
        /\ tenants'[t].stripe_subscription_id = tenants[w].stripe_subscription_id
    BY <1>1, <1>4, SharedColumns
  <2>4. QED
    BY <1>4, <2>1, <2>2, <2>3, Copied
<1>5. QED
  BY <1>2, <1>3, <1>4, ShareStep

LEMMA AcceptPaid ==
    ASSUME Apart, Rows, Reported, RowsOwned, AllPaid, NEW i \in DOMAIN events, Accept(i),
           NEW u \in DOMAIN tenants
    PROVE  PaidRow(tenants'[u]) /\ KnownRow(tenants'[u])
<1> DEFINE e == events[i]
           slug == e.metadata.tenant_slug
<1>1. /\ e \in Events /\ Keeps /\ tenants[u] \in Row
      /\ e.id \in DOMAIN subscriptions /\ e.id # NoSubscription
      /\ subscriptions[e.id].status # "open"
      /\ subscriptions[e.id].metadata = e.metadata
      /\ slug \in DOMAIN tenants
  <2>1. e \in Events /\ tenants[u] \in Row /\ Keeps
    BY AcceptStep, AcceptKeeps DEF Rows, TypeOK
  <2>2. /\ e.id \in DOMAIN subscriptions
        /\ subscriptions[e.id].status # "open"
        /\ e.metadata = subscriptions[e.id].metadata
        /\ slug \in DOMAIN tenants
    BY DEF Reported
  <2>3. e.id # NoSubscription
    BY <2>1, WorkspacesAssumption DEF Events
  <2>4. QED
    BY <2>1, <2>2, <2>3
<1>2. PICK t \in DOMAIN tenants, status \in Statuses, quota \in {0, PlanQuotas[e.metadata.plan_name]} :
          /\ t = slug \/ tenants[t].stripe_subscription_id = e.id
          /\ quota \in Quotas
          /\ Replan(t, e, status, quota)
  BY AcceptStep
<1> HIDE DEF e, slug
<1>3. tenants'[u] = IF u \in BillingTenants(t, e.metadata.billing_scope)
                    THEN Planned(tenants[u], e, status, quota) ELSE tenants[u]
  BY <1>1, <1>2, ReplanStep
<1>4. CASE u \notin BillingTenants(t, e.metadata.billing_scope)
  BY <1>1, <1>3, <1>4, SamePaid
<1>5. CASE u \in BillingTenants(t, e.metadata.billing_scope)
  <2>1. SameOwner(tenants[t], tenants[slug])
    <3>1. CASE t = slug
      BY <3>1 DEF SameOwner
    <3>2. CASE tenants[t].stripe_subscription_id = e.id
      <4>1. KnownRow(tenants[t])
        BY DEF AllPaid
      <4>2. QED
        BY <1>1, <3>2, <4>1 DEF KnownRow, slug
    <3>3. QED
      BY <1>2, <3>1, <3>2
  <2>2. SameOwner(tenants[t], tenants[u])
    BY <1>5, BillingOf
  <2>3. SameOwner(tenants[u], tenants[slug])
    BY <1>1, <2>1, <2>2, OwnersApart DEF RowsOwned
  <2>4. SameOwner(tenants'[u], tenants[slug])
    BY <1>1, <2>3, KeptOwner
  <2>5. tenants'[u].monthly_quota = quota /\ tenants'[u].stripe_subscription_id = e.id
    BY <1>1, <1>3, <1>5, PlannedColumns
  <2>6. quota > BootstrapQuota => quota = PlanQuotas[e.metadata.plan_name]
    BY WorkspacesAssumption
  <2>7. PaidRow(tenants'[u])
    BY <1>1, <2>4, <2>5, <2>6 DEF PaidRow, slug
  <2>8. KnownRow(tenants'[u])
    BY <1>1, <2>4, <2>5 DEF KnownRow, slug
  <2>9. QED
    BY <2>7, <2>8
<1>6. QED
  BY <1>4, <1>5

\* Every row of the next table is explained by the checkouts there are.
RowsPaid == \A t \in DOMAIN tenants' : PaidRow(tenants'[t]) /\ KnownRow(tenants'[t])

LEMMA RowsPaidStep ==
    ASSUME Apart, Rows, Reported, RowsOwned, AllPaid, [Next]_vars
    PROVE  RowsPaid
<1>1. ASSUME UNCHANGED tenants
      PROVE  RowsPaid
  BY <1>1 DEF RowsPaid, AllPaid
<1>2. ASSUME NEW p \in Principals, NEW t \in Tenants, Onboard(p, t)
      PROVE  RowsPaid
  <2>1. /\ DOMAIN tenants' = DOMAIN tenants \cup {t}
        /\ \A u \in DOMAIN tenants : tenants'[u] = tenants[u]
    BY <1>2, OnboardStep
  <2>2. PaidRow(tenants'[t]) /\ KnownRow(tenants'[t])
    BY <1>2, OnboardPaid
  <2>3. QED
    BY <2>1, <2>2 DEF RowsPaid, AllPaid
<1>3. ASSUME NEW p \in Principals, NEW t \in Tenants, Delete(p, t)
      PROVE  RowsPaid
  <2>1. DOMAIN tenants' = DOMAIN tenants
    BY <1>3, DeleteStep DEF Keeps
  <2>2. QED
    BY <1>3, <2>1, DeletePaid DEF RowsPaid
<1>4. ASSUME NEW t \in DOMAIN tenants, ShareBilling(t)
      PROVE  RowsPaid
  <2>1. DOMAIN tenants' = DOMAIN tenants
    BY <1>4, ShareStep DEF Keeps
  <2>2. QED
    BY <1>4, <2>1, SharePaid DEF RowsPaid
<1>5. ASSUME NEW t \in DOMAIN tenants, Charge(t)
      PROVE  RowsPaid
  BY <1>1, <1>5 DEF Charge
<1>6. ASSUME NEW t \in DOMAIN tenants, NEW plan \in Plans, NEW scope \in BillingScopes,
             NEW id \in Subscriptions, OpenCheckout(t, plan, scope, id)
      PROVE  RowsPaid
  BY <1>1, <1>6 DEF OpenCheckout
<1>7. ASSUME NEW id \in Subscriptions,
             Pay(id) \/ \E status \in {"active", "past_due", "canceled"} : Change(id, status)
      PROVE  RowsPaid
  BY <1>1, <1>7 DEF Pay, Change
<1>8. ASSUME NEW i \in DOMAIN events, Accept(i)
      PROVE  RowsPaid
  <2>1. DOMAIN tenants' = DOMAIN tenants
    BY <1>8, AcceptKeeps DEF Keeps
  <2>2. QED
    BY <1>8, <2>1, AcceptPaid DEF RowsPaid
<1>9. CASE UNCHANGED vars
  BY <1>1, <1>9 DEF vars
<1>10. QED
  BY <1>2, <1>3, <1>4, <1>5, <1>6, <1>7, <1>8, <1>9 DEF Next

\* A checkout's workspace keeps its owner, so that the explanation stays.
LEMMA OwnersStay ==
    ASSUME Rows, Reported, [Next]_vars, NEW t \in DOMAIN tenants
    PROVE  tenants'[t].user = tenants[t].user /\ tenants'[t].org = tenants[t].org
<1>1. ASSUME NEW p \in Principals, NEW u \in Tenants, Onboard(p, u)
      PROVE  tenants'[t].user = tenants[t].user /\ tenants'[t].org = tenants[t].org
  BY <1>1, OnboardStep
<1>2. CASE \A p \in Principals, u \in Tenants : ~ Onboard(p, u)
  BY <1>2, NextKeeps DEF Keeps
<1>3. QED
  BY <1>1, <1>2

LEMMA PaidStep ==
    ASSUME Apart, Rows, Reported, RowsOwned, AllPaid, [Next]_vars
    PROVE  AllPaid'
<1>1. ASSUME NEW id \in DOMAIN subscriptions
      PROVE  /\ id \in DOMAIN subscriptions'
             /\ subscriptions'[id].metadata = subscriptions[id].metadata
             /\ subscriptions[id].status # "open" => subscriptions'[id].status # "open"
             /\ \A row : SameOwner(row, tenants[subscriptions[id].metadata.tenant_slug]) =>
                    SameOwner(row, tenants'[subscriptions'[id].metadata.tenant_slug])
  <2>1. /\ id \in DOMAIN subscriptions'
        /\ subscriptions'[id].metadata = subscriptions[id].metadata
        /\ subscriptions[id].status # "open" => subscriptions'[id].status # "open"
    BY StillPaid DEF PaymentsStay
  <2>2. subscriptions[id].metadata.tenant_slug \in DOMAIN tenants
    BY DEF Reported
  <2>3. QED
    BY <2>1, <2>2, OwnersStay DEF SameOwner
<1>2. ASSUME NEW t \in DOMAIN tenants', tenants'[t].monthly_quota > BootstrapQuota
      PROVE  \E id \in DOMAIN subscriptions' :
                LET by == subscriptions'[id].metadata
                IN  /\ subscriptions'[id].status # "open"
                    /\ tenants'[t].monthly_quota = PlanQuotas[by.plan_name]
                    /\ SameOwner(tenants'[t], tenants'[by.tenant_slug])
  <2>1. PICK id \in DOMAIN subscriptions :
            /\ subscriptions[id].status # "open"
            /\ tenants'[t].monthly_quota = PlanQuotas[subscriptions[id].metadata.plan_name]
            /\ SameOwner(tenants'[t], tenants[subscriptions[id].metadata.tenant_slug])
    BY <1>2, RowsPaidStep DEF RowsPaid, PaidRow
  <2>2. QED
    BY <1>1, <2>1
<1>3. ASSUME NEW t \in DOMAIN tenants', tenants'[t].stripe_subscription_id # NoSubscription
      PROVE  LET id == tenants'[t].stripe_subscription_id
             IN  /\ id \in DOMAIN subscriptions'
                 /\ SameOwner(tenants'[t], tenants'[subscriptions'[id].metadata.tenant_slug])
  <2> DEFINE id == tenants'[t].stripe_subscription_id
  <2>1. /\ id \in DOMAIN subscriptions
        /\ SameOwner(tenants'[t], tenants[subscriptions[id].metadata.tenant_slug])
    BY <1>3, RowsPaidStep DEF RowsPaid, KnownRow
  <2> HIDE DEF id
  <2>2. /\ id \in DOMAIN subscriptions'
        /\ SameOwner(tenants'[t], tenants'[subscriptions'[id].metadata.tenant_slug])
    BY <1>1, <2>1
  <2>3. QED
    BY <2>2 DEF id
<1>4. \A t \in DOMAIN tenants' : PaidRow(tenants[t])' /\ KnownRow(tenants[t])'
  BY <1>2, <1>3 DEF PaidRow, KnownRow, SameOwner
<1>5. QED
  BY <1>4 DEF AllPaid

LEMMA PaidInit == Init => AllPaid
  BY DEF Init, AllPaid

\* Whatever was handed on when workspaces were created, deleted or put on the
\* account's billing: a quota above the trial goes back to a completed checkout
\* of the same user or organisation, as long as no user acts in two ways.
THEOREM QuotasArePaid ==
    ASSUME Apart
    PROVE  Spec => []QuotaWasPaid
<1>1. Rows /\ Reported /\ RowsOwned /\ AllPaid /\ [Next]_vars => (RowsOwned /\ AllPaid)'
  BY OwnedStep, PaidStep
<1>2. AllPaid => QuotaWasPaid
  BY DEF AllPaid, PaidRow, SameOwner, QuotaWasPaid, Active
<1>3. QED
  BY <1>1, <1>2, AlwaysRows, AgreeInit, PaidInit, PTL DEF Spec

-----------------------------------------------------------------------------
(* What a pool has used.                                                   *)

\* A sum over a finite set, written as the number of pairs <<x, 1>>, ...,
\* <<x, f[x]>>.
Credits(f, s) == UNION {{x} \X (1..f[x]) : x \in s}
Total(f, s) == Cardinality(Credits(f, s))

LEMMA SmallestSubset ==
    ASSUME NEW S, IsFiniteSet(S), NEW B, B \subseteq SUBSET S, B # {}
    PROVE  \E s \in B : \A x \in s : s \ {x} \notin B
<1>1. B \subseteq FiniteSubsetsOf(S)
  BY FS_Subset DEF FiniteSubsetsOf
<1>2. PICK s \in B : \A r \in B : ~ (<<r, s>> \in StrictSubsetOrdering(S))
  BY <1>1, FS_StrictSubsetOrderingWellFounded, WFMin
<1>3. ASSUME NEW x \in s, s \ {x} \in B
      PROVE  FALSE
  <2>1. s \ {x} \in SUBSET S /\ s \in SUBSET S /\ s \ {x} \subseteq s /\ s \ {x} # s
    BY <1>3
  <2>2. \A r, q \in SUBSET S : r \subseteq q /\ r # q => <<r, q>> \in StrictSubsetOrdering(S)
    BY DEF StrictSubsetOrdering
  <2>3. QED
    BY <1>2, <1>3, <2>1, <2>2
<1>4. QED
  BY <1>3

LEMMA TotalOfNone ==
    ASSUME NEW f
    PROVE  IsFiniteSet(Credits(f, {})) /\ Total(f, {}) = 0
<1>1. Credits(f, {}) = {}
  BY DEF Credits
<1>2. QED
  BY <1>1, FS_EmptySet DEF Total

LEMMA TotalWithout ==
    ASSUME NEW f, NEW s, NEW x \in s, f[x] \in Nat, IsFiniteSet(Credits(f, s \ {x}))
    PROVE  /\ IsFiniteSet(Credits(f, s))
           /\ Total(f, s) = f[x] + Total(f, s \ {x})
<1> DEFINE own == {x} \X (1..f[x])
           others == Credits(f, s \ {x})
<1>1. IsFiniteSet(own) /\ Cardinality(own) = f[x]
  <2> DEFINE I == 1..f[x]
             X == {x}
  <2>1. IsFiniteSet(X) /\ Cardinality(X) = 1
    BY FS_Singleton
  <2>2. IsFiniteSet(I) /\ Cardinality(I) = f[x]
    BY FS_Interval
  <2> HIDE DEF I, X
  <2>3. IsFiniteSet(X \X I) /\ Cardinality(X \X I) = Cardinality(X) * Cardinality(I)
    BY <2>1, <2>2, FS_Product
  <2>4. QED
    BY <2>1, <2>2, <2>3 DEF I, X
<1>2. Credits(f, s) = own \cup others
  BY DEF Credits
<1>3. own \cap others = {}
  BY DEF Credits
<1> HIDE DEF own
<1>4. /\ IsFiniteSet(own \cup others)
      /\ Cardinality(own \cup others)
            = Cardinality(own) + Cardinality(others) - Cardinality(own \cap others)
  BY <1>1, FS_Union, Zenon
<1>5. Cardinality(own \cap others) = 0 /\ Cardinality(others) \in Nat
  BY <1>3, FS_EmptySet, FS_CardinalityType
<1> HIDE DEF others
<1>6. QED
  BY <1>1, <1>2, <1>4, <1>5 DEF Total, others

LEMMA TotalFinite ==
    ASSUME NEW S, IsFiniteSet(S), NEW f, \A y \in S : f[y] \in Nat, NEW r \in SUBSET S
    PROVE  IsFiniteSet(Credits(f, r)) /\ Total(f, r) \in Nat
<1> DEFINE bad == {s \in SUBSET S : ~ IsFiniteSet(Credits(f, s))}
<1>1. bad = {}
  <2>1. SUFFICES ASSUME bad # {} PROVE FALSE
    OBVIOUS
  <2>2. PICK s \in bad : \A x \in s : s \ {x} \notin bad
    BY <2>1, SmallestSubset
  <2>3. s # {}
    BY TotalOfNone
  <2>4. PICK x \in s : TRUE
    BY <2>3
  <2>5. IsFiniteSet(Credits(f, s \ {x}))
    BY <2>2
  <2>6. QED
    BY <2>5, TotalWithout
<1>2. QED
  BY <1>1, FS_CardinalityType DEF Total

\* The library's sum takes the elements in an order of its own.
SumOfChosen(g, f, S) ==
    g = [s \in SUBSET S |->
           IF s = {} THEN 0
           ELSE f[CHOOSE x \in s : TRUE] + g[s \ {CHOOSE x \in s : TRUE}]]

LEMMA SumExists ==
    ASSUME NEW S, IsFiniteSet(S), NEW f, \A y \in S : f[y] \in Nat
    PROVE  \E g : SumOfChosen(g, f, S)
<1> DEFINE g == [s \in SUBSET S |-> Total(f, s)]
<1>1. ASSUME NEW s \in SUBSET S
      PROVE  g[s] = IF s = {} THEN 0
                    ELSE f[CHOOSE x \in s : TRUE] + g[s \ {CHOOSE x \in s : TRUE}]
  <2>1. CASE s = {}
    BY <2>1, TotalOfNone
  <2>2. CASE s # {}
    <3> DEFINE x == CHOOSE x \in s : TRUE
    <3>1. x \in s
      BY <2>2
    <3> HIDE DEF x
    <3>2. s \ {x} \in SUBSET S
      OBVIOUS
    <3>3. IsFiniteSet(Credits(f, s \ {x}))
      BY <3>2, TotalFinite
    <3>4. Total(f, s) = f[x] + Total(f, s \ {x})
      BY <3>1, <3>3, f[x] \in Nat, TotalWithout
    <3>5. g[s] = f[x] + g[s \ {x}]
      BY <3>2, <3>4
    <3>6. QED
      BY <2>2, <3>5 DEF x
  <2>3. QED
    BY <2>1, <2>2
<1>2. SumOfChosen(g, f, S)
  BY <1>1 DEF SumOfChosen
<1>3. QED
  BY <1>2

LEMMA SumIsTotal ==
    ASSUME NEW S, IsFiniteSet(S), NEW f, \A y \in S : f[y] \in Nat, NEW g, SumOfChosen(g, f, S)
    PROVE  g[S] = Total(f, S)
<1> DEFINE bad == {s \in SUBSET S : g[s] # Total(f, s)}
<1>1. bad = {}
  <2>1. SUFFICES ASSUME bad # {} PROVE FALSE
    OBVIOUS
  <2>2. PICK s \in bad : \A x \in s : s \ {x} \notin bad
    BY <2>1, SmallestSubset
  <2>3. s \in SUBSET S /\ g[s] # Total(f, s)
    BY <2>2
  <2>4. g[s] = IF s = {} THEN 0
               ELSE f[CHOOSE x \in s : TRUE] + g[s \ {CHOOSE x \in s : TRUE}]
    BY <2>3 DEF SumOfChosen
  <2>5. s # {}
    BY <2>3, <2>4, TotalOfNone
  <2> DEFINE x == CHOOSE x \in s : TRUE
  <2>6. x \in s /\ g[s] = f[x] + g[s \ {x}]
    BY <2>4, <2>5
  <2> HIDE DEF x
  <2>7. s \ {x} \in SUBSET S /\ g[s \ {x}] = Total(f, s \ {x})
    BY <2>2, <2>3, <2>6
  <2>8. IsFiniteSet(Credits(f, s \ {x}))
    BY <2>7, TotalFinite
  <2>9. Total(f, s) = f[x] + Total(f, s \ {x})
    <3>1. f[x] \in Nat
      BY <2>3, <2>6
    <3>2. QED
      BY <2>6, <2>8, <3>1, TotalWithout
  <2>10. QED
    BY <2>3, <2>6, <2>7, <2>9
<1>2. QED
  BY <1>1

LEMMA UsageIsTotal ==
    ASSUME NEW table, NEW t, NEW usage, IsFiniteSet(QuotaScope(table, t)),
           \A u \in QuotaScope(table, t) : usage[u] \in Nat
    PROVE  Usage(table, usage, t) = Total(usage, QuotaScope(table, t))
<1> DEFINE S == QuotaScope(table, t)
           iter == CHOOSE it : SumOfChosen(it, usage, S)
<1>1. Usage(table, usage, t) = iter[S]
  BY DEF Usage, MapThenSumSet, MapThenFoldSet, SumOfChosen
<1> HIDE DEF S
<1>2. SumOfChosen(iter, usage, S)
  BY SumExists DEF S
<1> HIDE DEF iter
<1>3. QED
  BY <1>1, <1>2, SumIsTotal DEF S

-----------------------------------------------------------------------------
(* Deletions.                                                              *)

\* Unless users act in two ways, a pool is all account-billed rows of an owner.
LEMMA ScopeIs ==
    ASSUME Apart, NEW table, \A v \in DOMAIN table : HasOwner(table[v]) /\ table[v] \in Row,
           NEW u \in Active(table)
    PROVE  QuotaScope(table, u) =
              IF table[u].billing_scope = "account"
              THEN {v \in SharedBilling(table) : SameOwner(table[u], table[v])} ELSE {u}
<1> DEFINE pool == {v \in SharedBilling(table) : SameOwner(table[u], table[v])}
           ofOrg  == {v \in SharedBilling(table) : table[v].org = table[u].org}
           ofUser == {v \in SharedBilling(table) : table[v].user = table[u].user}
<1>1. u \in DOMAIN table /\ table[u].user # NoOwner /\ SameOwner(table[u], table[u])
  BY WorkspacesAssumption DEF Active, Row, SameOwner
<1>2. \A v \in SharedBilling(table) :
          v \in DOMAIN table /\ (table[v].user = table[u].user => table[v].org = table[u].org)
  BY <1>1 DEF SharedBilling, Apart, HasOwner
<1>3. CASE table[u].billing_scope = "account"
  <2>1. u \in SharedBilling(table) /\ u \in pool /\ u \in ofOrg
    BY <1>1, <1>3 DEF SharedBilling, Active
  <2>2. pool = IF table[u].org # NoOwner THEN ofOrg ELSE ofUser
    BY <1>2 DEF SameOwner
  <2>3. active_account_scope_tenants(table, u) = pool
    BY <1>1, <2>1, <2>2 DEF active_account_scope_tenants
  <2>4. QED
    BY <1>3, <2>1, <2>3 DEF QuotaScope
<1>4. CASE table[u].billing_scope # "account"
  BY <1>4 DEF QuotaScope
<1>5. QED
  BY <1>3, <1>4

\* The deleted workspace leaves the pool, and nobody else does.
LEMMA DeleteScope ==
    ASSUME Apart, Rows, RowsOwned, NEW p \in Principals, NEW t \in Tenants, Delete(p, t),
           NEW u \in Active(tenants) \ {t}
    PROVE  /\ u \in Active(tenants)'
           /\ QuotaScope(tenants, u) \subseteq DOMAIN tenants
           /\ u \in QuotaScope(tenants, u)
           /\ QuotaScope(tenants', u) = QuotaScope(tenants, u) \ {t}
<1>0. t \in DOMAIN tenants /\ u \in DOMAIN tenants
  BY DEF Delete, Owned, OfOrg, OfUser, Active
<1>1. Keeps
  BY DeleteStep
<1>2. /\ \A v \in DOMAIN tenants : HasOwner(tenants[v]) /\ tenants[v] \in Row
      /\ \A v \in DOMAIN tenants' : HasOwner(tenants'[v]) /\ tenants'[v] \in Row
  BY <1>1 DEF Keeps, HasOwner, RowsOwned, Rows, TypeOK
<1>3. ~ tenants'[t].is_active
  <2>1. tenants'[t] = [tenants[t] EXCEPT !.is_active = FALSE] /\ tenants[t] \in Row
    BY <1>0, <1>2, DeleteStep
  <2>2. QED
    BY <2>1 DEF Row
<1>4. \A v \in DOMAIN tenants \ {t} :
          /\ tenants'[v].is_active = tenants[v].is_active
          /\ tenants'[v].billing_scope = tenants[v].billing_scope
  <2> TAKE v \in DOMAIN tenants \ {t}
  <2>1. tenants'[v] = tenants[v] \/ \E from : tenants'[v] = Inherit(tenants[v], from)
    BY DeleteStep
  <2>2. QED
    BY <1>2, <2>1, InheritColumns
<1>5. u \in Active(tenants')
  BY <1>0, <1>1, <1>4 DEF Active, Keeps
<1>6. SharedBilling(tenants') = SharedBilling(tenants) \ {t}
  BY <1>1, <1>3, <1>4 DEF SharedBilling, Keeps
<1>7. \A v \in DOMAIN tenants : SameOwner(tenants'[u], tenants'[v]) <=> SameOwner(tenants[u], tenants[v])
  BY <1>0, <1>1 DEF Keeps, SameOwner
<1>8. SharedBilling(tenants) \subseteq DOMAIN tenants
  BY DEF SharedBilling
<1>9. QuotaScope(tenants, u) =
          IF tenants[u].billing_scope = "account"
          THEN {v \in SharedBilling(tenants) : SameOwner(tenants[u], tenants[v])} ELSE {u}
  BY <1>2, ScopeIs
<1>10. QuotaScope(tenants', u) =
          IF tenants'[u].billing_scope = "account"
          THEN {v \in SharedBilling(tenants') : SameOwner(tenants'[u], tenants'[v])} ELSE {u}
  BY <1>2, <1>5, ScopeIs
<1>11. u \in QuotaScope(tenants, u)
  BY <1>0, <1>9 DEF SharedBilling, SameOwner, Active
<1>12. QED
  BY <1>0, <1>4, <1>5, <1>6, <1>7, <1>8, <1>9, <1>10, <1>11

LEMMA LargestOfOne == \A q : Max({q}) = q
<1>1. \A q : (CHOOSE x \in {q} : \A y \in {q} : x >= y) \in {q}
  OBVIOUS
<1>2. QED
  BY <1>1 DEF Max

\* The rows of a pool agree, so that its quota is anybody's.
LEMMA QuotaOfPool ==
    ASSUME NEW table, NEW u, u \in QuotaScope(table, u),
           \A v \in QuotaScope(table, u) : table[v].monthly_quota = table[u].monthly_quota
    PROVE  Max({table[v].monthly_quota : v \in QuotaScope(table, u)}) = table[u].monthly_quota
<1>1. {table[v].monthly_quota : v \in QuotaScope(table, u)} = {table[u].monthly_quota}
  OBVIOUS
<1>2. QED
  BY <1>1, LargestOfOne

\* What is handed on is what the others had.
LEMMA DeleteQuota ==
    ASSUME Apart, Rows, RowsOwned, SharedAgree, NEW p \in Principals, NEW t \in Tenants,
           Delete(p, t), NEW u \in Active(tenants) \ {t}
    PROVE  /\ tenants'[u].monthly_quota = tenants[u].monthly_quota
           /\ \A v \in QuotaScope(tenants, u) :
                 tenants[v].monthly_quota = tenants[u].monthly_quota
           /\ \A v \in QuotaScope(tenants, u) \ {t} :
                 tenants'[v].monthly_quota = tenants'[u].monthly_quota
<1> DEFINE shared == AccountBilled(tenants, list_tenants_by_clerk_owner(tenants, p))
           from   == quota_owner(tenants, shared)
<1>1. \A v \in DOMAIN tenants : HasOwner(tenants[v]) /\ tenants[v] \in Row
  BY DEF RowsOwned, Rows, TypeOK
<1>2. /\ u \in QuotaScope(tenants, u)
      /\ QuotaScope(tenants, u) \subseteq DOMAIN tenants
      /\ QuotaScope(tenants, u) =
          IF tenants[u].billing_scope = "account"
          THEN {v \in SharedBilling(tenants) : SameOwner(tenants[u], tenants[v])} ELSE {u}
  BY <1>1, DeleteScope, ScopeIs
<1>3. \A v \in QuotaScope(tenants, u) : tenants[v].monthly_quota = tenants[u].monthly_quota
  BY <1>2 DEF SharedAgree, SamePlan
<1>4. ASSUME NEW v \in Active(tenants) \ {t}
      PROVE  tenants'[v].monthly_quota = tenants[v].monthly_quota
  <2>1. v \in DOMAIN tenants \ {t}
    BY DEF Active
  <2>2. CASE tenants'[v] = tenants[v]
    BY <2>2
  <2>3. CASE tenants'[v] # tenants[v]
    <3>1. v \in shared /\ tenants'[v] = Inherit(tenants[v], tenants[from])
      BY <2>1, <2>3, DeleteStep
    <3>2. tenants'[v].monthly_quota = tenants[from].monthly_quota
      BY <1>1, <2>1, <3>1, InheritColumns
    <3>3. QED
      BY <3>1, <3>2, SharedOfOne DEF SamePlan
  <2>4. QED
    BY <2>2, <2>3
<1>5. QuotaScope(tenants, u) \subseteq Active(tenants)
  BY <1>2 DEF SharedBilling, Active
<1>6. QED
  BY <1>3, <1>4, <1>5

\* For any workspaces and plans, unless a user acts in two ways: what is left
\* to the other workspaces changes, when one is deleted, by what that one had
\* used of the same pool.
THEOREM DeletionsFreeTheirUsage ==
    ASSUME Apart
    PROVE  Spec => DeletionFreesItsUsageOnly
<1>1. ASSUME Rows, RowsOwned, SharedAgree, NEW p \in Principals, NEW t \in DOMAIN tenants,
             Delete(p, t), NEW u \in Active(tenants) \ {t}
      PROVE  LET left(table) == Max({table[v].monthly_quota : v \in QuotaScope(table, u)})
                                     - Usage(table, used, u)
             IN  left(tenants') = left(tenants)
                                     + (IF t \in QuotaScope(tenants, u) THEN used[t] ELSE 0)
  <2> DEFINE S == QuotaScope(tenants, u)
  <2>0. t \in Tenants /\ IsFiniteSet(DOMAIN tenants) /\ \A v \in DOMAIN tenants : used[v] \in Nat
    BY <1>1, RowsParts DEF Table, Used
  <2>1. /\ S \subseteq DOMAIN tenants /\ u \in S
        /\ QuotaScope(tenants', u) = S \ {t}
    BY <1>1, <2>0, DeleteScope
  <2>2. u \in S \ {t}
    BY <2>1
  <2>3. IsFiniteSet(S) /\ IsFiniteSet(S \ {t})
    BY <2>0, <2>1, FS_Subset
  <2>4. /\ tenants'[u].monthly_quota = tenants[u].monthly_quota
        /\ \A v \in S : tenants[v].monthly_quota = tenants[u].monthly_quota
        /\ \A v \in S \ {t} : tenants'[v].monthly_quota = tenants'[u].monthly_quota
    BY <1>1, <2>0, DeleteQuota
  <2>5. Max({tenants[v].monthly_quota : v \in QuotaScope(tenants, u)}) = tenants[u].monthly_quota
    BY <2>1, <2>4, QuotaOfPool
  <2>6. Max({tenants'[v].monthly_quota : v \in QuotaScope(tenants', u)}) = tenants[u].monthly_quota
    BY <2>1, <2>2, <2>4, QuotaOfPool
  <2>7. Usage(tenants, used, u) = Total(used, S)
    BY <2>0, <2>1, <2>3, UsageIsTotal
  <2>8. Usage(tenants', used, u) = Total(used, S \ {t})
    <3>1. /\ \A v \in QuotaScope(tenants', u) : used[v] \in Nat
          /\ IsFiniteSet(QuotaScope(tenants', u))
      BY <2>0, <2>1, <2>3
    <3>2. QED
      BY <2>0, <2>1, <3>1, UsageIsTotal
  <2>9. /\ Total(used, S \ {t}) \in Nat
        /\ Total(used, S) = Total(used, S \ {t}) + (IF t \in S THEN used[t] ELSE 0)
    <3>1. \A y \in S : used[y] \in Nat
      BY <2>0, <2>1
    <3> HIDE DEF S
    <3>2. S \in SUBSET S /\ S \ {t} \in SUBSET S
      OBVIOUS
    <3>3. IsFiniteSet(Credits(used, S \ {t})) /\ Total(used, S \ {t}) \in Nat
      BY <2>3, <3>1, <3>2, TotalFinite
    <3>4. CASE t \in S
      <4>1. used[t] \in Nat
        BY <3>1, <3>4
      <4>2. Total(used, S) = used[t] + Total(used, S \ {t})
        BY <3>3, <3>4, <4>1, TotalWithout
      <4>3. QED
        BY <3>3, <3>4, <4>1, <4>2
    <3>5. CASE t \notin S
      <4>1. S \ {t} = S
        BY <3>5
      <4>2. QED
        BY <3>3, <3>5, <4>1
    <3>6. QED
      BY <3>4, <3>5
  <2>10. used[t] \in Nat /\ tenants[u].monthly_quota \in Nat
    <3>1. u \in DOMAIN tenants
      BY <2>1
    <3>2. tenants[u].monthly_quota \in Quotas
      BY <1>1, <3>1 DEF Rows, TypeOK, Row
    <3>3. QED
      BY <2>0, <3>2, WorkspacesAssumption DEF Quotas
  <2> DEFINE kept == Total(used, S \ {t})
             freed == IF t \in S THEN used[t] ELSE 0
             quota == tenants[u].monthly_quota
  <2>11. kept \in Nat /\ freed \in Nat /\ quota \in Nat
    BY <2>9, <2>10
  <2>12. Usage(tenants, used, u) = kept + freed /\ Usage(tenants', used, u) = kept
    BY <2>7, <2>8, <2>9
  <2> HIDE DEF kept, freed, quota
  <2>13. quota - kept = quota - (kept + freed) + freed
    BY <2>11
  <2>14. QED
    BY <2>5, <2>6, <2>12, <2>13 DEF freed, quota
<1>2. Rows /\ Reported /\ RowsOwned /\ SharedAgree /\ [Next]_vars => (RowsOwned /\ SharedAgree)'
  BY OwnedStep, AgreeStep
<1>3. Rows /\ RowsOwned /\ SharedAgree =>
          [\A p \in Principals, t \in DOMAIN tenants : Delete(p, t) =>
              \A u \in Active(tenants) \ {t} :
                  LET left(table) == Max({table[v].monthly_quota : v \in QuotaScope(table, u)})
                                         - Usage(table, used, u)
                  IN  left(tenants') = left(tenants)
                                         + (IF t \in QuotaScope(tenants, u) THEN used[t] ELSE 0)]_vars
  BY <1>1
<1>4. QED
  BY <1>2, <1>3, AlwaysRows, AgreeInit, PTL DEF Spec, DeletionFreesItsUsageOnly

-----------------------------------------------------------------------------
(* Paid plans.                                                             *)

\* The workspace a checkout was opened for, and what Stripe still reports of it.
Slug(id) == subscriptions[id].metadata.tenant_slug
Pending(id) == {i \in DOMAIN events : events[i].id = id}

\* No user or organisation opens a second checkout.
OneCheckoutEach ==
    \A a, b \in DOMAIN subscriptions :
        SameOwner(tenants[Slug(a)], tenants[Slug(b)]) => a = b

\* Its completion has been accepted; its end has been accepted.
Told(id) ==
    /\ subscriptions[id].status # "open"
    /\ \A i \in Pending(id) : events[i].type # "completed"
Over(id) == subscriptions[id].status = "canceled" /\ Pending(id) = {}

\* Of each subscription, the completion is the first event under way, the last
\* one names its status, and none follows the end.
Placed(e, i, pending, status) ==
    LET last == \A j \in pending : j <= i
    IN  /\ last => e.status = status
        /\ e.status = "canceled" => last
        /\ e.type = "completed" => \A j \in pending : i <= j

InQueue ==
    \A id \in DOMAIN subscriptions : \A i \in Pending(id) :
        Placed(events[i], i, Pending(id), subscriptions[id].status)

Live == {"trialing", "active", "past_due"}

\* Rows on a subscription that has not ended have such a status.
RowsLive ==
    \A u \in DOMAIN tenants :
        LET id == tenants[u].stripe_subscription_id
        IN  id # NoSubscription /\ ~ Over(id) => tenants[u].subscription_status \in Live

\* The workspace that bought a plan stays on it, with a quota while it is paid.
BoughtBy(id, t) ==
    Told(id) /\ tenants[t].is_active =>
        /\ ~ Over(id) => tenants[t].stripe_subscription_id = id
        /\ Pending(id) = {} /\ subscriptions[id].status = "active" => tenants[t].monthly_quota > 0

Bought == \A id \in DOMAIN subscriptions : BoughtBy(id, Slug(id))

Synced == InQueue /\ RowsLive /\ (OneCheckoutEach => Bought)

\* A second checkout stays one.
LEMMA OneCheckoutBefore ==
    ASSUME Rows, Reported, [Next]_vars, OneCheckoutEach'
    PROVE  OneCheckoutEach
<1> SUFFICES ASSUME NEW a \in DOMAIN subscriptions, NEW b \in DOMAIN subscriptions,
                    SameOwner(tenants[Slug(a)], tenants[Slug(b)])
             PROVE  a = b
  BY DEF OneCheckoutEach
<1>1. \A id \in DOMAIN subscriptions :
          /\ id \in DOMAIN subscriptions'
          /\ subscriptions'[id].metadata.tenant_slug = Slug(id)
          /\ Slug(id) \in DOMAIN tenants
  BY StillPaid DEF PaymentsStay, Slug, Reported
<1>2. \A t \in DOMAIN tenants :
          tenants'[t].user = tenants[t].user /\ tenants'[t].org = tenants[t].org
  BY OwnersStay
<1>3. SameOwner(tenants'[Slug(a)], tenants'[Slug(b)])
  BY <1>1, <1>2 DEF SameOwner
<1>4. QED
  BY <1>1, <1>3 DEF OneCheckoutEach, Slug, SameOwner

-----------------------------------------------------------------------------
(* Steps of the account.                                                   *)

\* What remains of a queue nobody touched.
LEMMA QuietQueue ==
    ASSUME UNCHANGED <<subscriptions, events>>
    PROVE  /\ InQueue => InQueue'
           /\ \A id : /\ Pending(id)' = Pending(id)
                      /\ Told(id)' <=> Told(id)
                      /\ Over(id)' <=> Over(id)
  BY DEF InQueue, Pending, Told, Over

LEMMA AccountSynced ==
    ASSUME Rows, Reported, Synced, UNCHANGED <<subscriptions, events>>,
           OneCheckoutEach' => OneCheckoutEach,
           \A u \in DOMAIN tenants' :
               \/ tenants'[u].stripe_subscription_id = NoSubscription
               \/ \E v \in DOMAIN tenants :
                     /\ tenants'[u].stripe_subscription_id = tenants[v].stripe_subscription_id
                     /\ tenants'[u].subscription_status = tenants[v].subscription_status,
           \A id \in DOMAIN subscriptions :
               Told(id) /\ ~ Over(id) /\ BoughtBy(id, Slug(id)) /\ tenants'[Slug(id)].is_active =>
                   /\ tenants[Slug(id)].is_active
                   /\ SamePlan(tenants'[Slug(id)], tenants[Slug(id)])
    PROVE  Synced'
<1>1. InQueue'
  BY QuietQueue DEF Synced
<1>2. RowsLive'
  <2> SUFFICES ASSUME NEW u \in DOMAIN tenants',
                      tenants'[u].stripe_subscription_id # NoSubscription,
                      ~ Over(tenants[u].stripe_subscription_id)'
               PROVE  tenants'[u].subscription_status \in Live
    BY DEF RowsLive
  <2>1. PICK v \in DOMAIN tenants :
            /\ tenants'[u].stripe_subscription_id = tenants[v].stripe_subscription_id
            /\ tenants'[u].subscription_status = tenants[v].subscription_status
    OBVIOUS
  <2>2. ~ Over(tenants[v].stripe_subscription_id)
    BY <2>1 DEF Over, Pending
  <2>3. QED
    BY <2>1, <2>2 DEF Synced, RowsLive
<1>3. ASSUME OneCheckoutEach, NEW id \in DOMAIN subscriptions
      PROVE  BoughtBy(id, Slug(id))'
  <2>1. BoughtBy(id, Slug(id))
    BY <1>3 DEF Synced, Bought
  <2>2. CASE Over(id)
    <3>1. Over(id)' /\ subscriptions'[id].status # "active"
      BY <2>2, QuietQueue DEF Over
    <3>2. QED
      BY <3>1 DEF BoughtBy
  <2>3. CASE ~ Told(id)
    <3>1. ~ Told(id)'
      BY <2>3, QuietQueue
    <3>2. QED
      BY <3>1 DEF BoughtBy
  <2>4. CASE ~ Over(id) /\ Told(id)
    <3>1. subscriptions'[id].metadata.tenant_slug = Slug(id)
      BY DEF Slug
    <3>2. tenants'[Slug(id)].is_active =>
              /\ tenants[Slug(id)].is_active
              /\ SamePlan(tenants'[Slug(id)], tenants[Slug(id)])
      BY <2>1, <2>4
    <3>3. QED
      BY <2>1, <2>4, <3>1, <3>2, QuietQueue DEF BoughtBy, SamePlan, Slug
  <2>5. QED
    BY <2>2, <2>3, <2>4
<1>4. OneCheckoutEach' => Bought'
  BY <1>3 DEF Bought
<1>5. QED
  BY <1>1, <1>2, <1>4 DEF Synced

LEMMA OnboardSynced ==
    ASSUME Rows, Reported, Synced, NEW p \in Principals, NEW t \in Tenants, Onboard(p, t),
           OneCheckoutEach' => OneCheckoutEach
    PROVE  Synced'
<1>1. /\ t \notin DOMAIN tenants
      /\ DOMAIN tenants' = DOMAIN tenants \cup {t}
      /\ \A u \in DOMAIN tenants : tenants'[u] = tenants[u]
      /\ UNCHANGED <<subscriptions, events>>
  BY OnboardStep DEF Onboard
<1>2. \/ tenants'[t].stripe_subscription_id = NoSubscription
      \/ \E v \in DOMAIN tenants :
            /\ tenants'[t].stripe_subscription_id = tenants[v].stripe_subscription_id
            /\ tenants'[t].subscription_status = tenants[v].subscription_status
  <2>1. CASE tenants'[t] = Fresh(p)
    BY <2>1 DEF Fresh
  <2>2. ASSUME NEW v \in QuotaSource(p), tenants'[t] = Taking(Fresh(p), tenants[v])
        PROVE  /\ v \in DOMAIN tenants
               /\ tenants'[t].stripe_subscription_id = tenants[v].stripe_subscription_id
               /\ tenants'[t].subscription_status = tenants[v].subscription_status
    <3>1. v \in DOMAIN tenants
      BY AccountOf DEF QuotaSource, AccountBilled, Active
    <3>2. QED
      BY <2>2, <3>1 DEF Fresh, Taking
  <2>3. QED
    BY <2>1, <2>2, OnboardStep
<1>3. \A u \in DOMAIN tenants' :
          \/ tenants'[u].stripe_subscription_id = NoSubscription
          \/ \E v \in DOMAIN tenants :
                /\ tenants'[u].stripe_subscription_id = tenants[v].stripe_subscription_id
                /\ tenants'[u].subscription_status = tenants[v].subscription_status
  BY <1>1, <1>2
<1>4. \A id \in DOMAIN subscriptions : tenants'[Slug(id)] = tenants[Slug(id)]
  BY <1>1 DEF Reported, Slug
<1>5. QED
  BY <1>1, <1>3, <1>4, AccountSynced DEF SamePlan

LEMMA DeleteSynced ==
    ASSUME Apart, Rows, Reported, RowsOwned, SharedAgree, Synced, NEW p \in Principals,
           NEW t \in Tenants, Delete(p, t), OneCheckoutEach' => OneCheckoutEach
    PROVE  Synced'
<1> DEFINE shared == AccountBilled(tenants, list_tenants_by_clerk_owner(tenants, p))
           from   == tenants[quota_owner(tenants, shared)]
<1>1. /\ Keeps /\ t \in DOMAIN tenants
      /\ UNCHANGED <<subscriptions, events>>
      /\ \A u \in DOMAIN tenants : tenants[u] \in Row
  BY DeleteStep DEF Delete, Owned, OfOrg, OfUser, Active, Rows, TypeOK
<1>2. tenants'[t] = [tenants[t] EXCEPT !.is_active = FALSE]
  BY DeleteStep
<1>3. /\ ~ tenants'[t].is_active
      /\ tenants'[t].stripe_subscription_id = tenants[t].stripe_subscription_id
      /\ tenants'[t].subscription_status = tenants[t].subscription_status
  BY <1>1, <1>2 DEF Row
<1>4. ASSUME NEW u \in DOMAIN tenants \ {t}, tenants'[u] # tenants[u]
      PROVE  /\ quota_owner(tenants, shared) \in DOMAIN tenants
             /\ tenants'[u].stripe_subscription_id = from.stripe_subscription_id
             /\ tenants'[u].subscription_status = from.subscription_status
             /\ SamePlan(tenants'[u], tenants[u])
             /\ tenants'[u].is_active = tenants[u].is_active
  <2>1. /\ u \in shared /\ quota_owner(tenants, shared) \in shared
        /\ tenants'[u] = Inherit(tenants[u], from)
    BY <1>4, DeleteStep
  <2>2. quota_owner(tenants, shared) \in DOMAIN tenants
    BY <2>1, AccountOf DEF AccountBilled, Active
  <2>3. SamePlan(tenants[u], from)
    BY <2>1, SharedOfOne
  <2> HIDE DEF from, shared
  <2>4. /\ tenants'[u].monthly_quota = from.monthly_quota
        /\ tenants'[u].is_active = tenants[u].is_active
        /\ tenants'[u].stripe_subscription_id
              \in {tenants[u].stripe_subscription_id, from.stripe_subscription_id}
        /\ tenants'[u].subscription_status = from.subscription_status
    BY <1>1, <2>1, InheritColumns
  <2>5. QED
    BY <2>2, <2>3, <2>4 DEF SamePlan
<1> HIDE DEF from
<1>5. ASSUME NEW u \in DOMAIN tenants
      PROVE  \E v \in DOMAIN tenants :
                /\ tenants'[u].stripe_subscription_id = tenants[v].stripe_subscription_id
                /\ tenants'[u].subscription_status = tenants[v].subscription_status
  <2>1. CASE u = t
    BY <1>3, <2>1
  <2>2. CASE tenants'[u] = tenants[u]
    BY <2>2
  <2>3. CASE u # t /\ tenants'[u] # tenants[u]
    BY <1>4, <2>3 DEF from
  <2>4. QED
    BY <2>1, <2>2, <2>3
<1>6. ASSUME NEW id \in DOMAIN subscriptions, tenants'[Slug(id)].is_active
      PROVE  tenants[Slug(id)].is_active /\ SamePlan(tenants'[Slug(id)], tenants[Slug(id)])
  <2>1. Slug(id) \in DOMAIN tenants \ {t}
    BY <1>3, <1>6 DEF Reported, Slug
  <2>2. QED
    BY <1>4, <1>6, <2>1 DEF SamePlan
<1>7. DOMAIN tenants' = DOMAIN tenants
  BY <1>1 DEF Keeps
<1>8. QED
  BY <1>1, <1>5, <1>6, <1>7, AccountSynced

LEMMA ShareSynced ==
    ASSUME Apart, Rows, Reported, RowsOwned, SharedAgree, Synced, NEW t \in DOMAIN tenants,
           ShareBilling(t), OneCheckoutEach' => OneCheckoutEach
    PROVE  Synced'
<1> DEFINE others == active_account_scope_tenants(tenants, t) \ {t}
           shared == [tenants[t] EXCEPT !.billing_scope = "account"]
<1>1. /\ DOMAIN tenants' = DOMAIN tenants
      /\ \A u \in DOMAIN tenants \ {t} : tenants'[u] = tenants[u]
      /\ UNCHANGED <<subscriptions, events>>
      /\ tenants[t] \in Row /\ tenants[t].is_active
  BY ShareStep DEF ShareBilling, Keeps, Active, Rows, TypeOK
<1>2. \/ tenants'[t] = shared
      \/ \E w \in others : tenants'[t] = Taking(shared, tenants[w])
  BY ShareStep
<1>3. CASE tenants'[t] = shared
  <2>1. /\ SamePlan(tenants'[t], tenants[t])
        /\ tenants'[t].stripe_subscription_id = tenants[t].stripe_subscription_id
        /\ tenants'[t].subscription_status = tenants[t].subscription_status
    BY <1>1, <1>3 DEF SamePlan, Row
  <2>2. \A u \in DOMAIN tenants' :
            \E v \in DOMAIN tenants :
                /\ tenants'[u].stripe_subscription_id = tenants[v].stripe_subscription_id
                /\ tenants'[u].subscription_status = tenants[v].subscription_status
    BY <1>1, <2>1
  <2>3. \A id \in DOMAIN subscriptions : tenants'[Slug(id)].is_active =>
            tenants[Slug(id)].is_active /\ SamePlan(tenants'[Slug(id)], tenants[Slug(id)])
    BY <1>1, <2>1 DEF Reported, Slug, SamePlan
  <2>4. QED
    BY <1>1, <2>2, <2>3, AccountSynced
<1>4. ASSUME NEW w \in others, tenants'[t] = Taking(shared, tenants[w])
      PROVE  Synced'
  <2>1. /\ tenants'[t].stripe_subscription_id = tenants[w].stripe_subscription_id
        /\ tenants'[t].subscription_status = tenants[w].subscription_status
        /\ SamePlan(tenants'[t], tenants[w])
    BY <1>1, <1>4 DEF Taking, Row, SamePlan
  <2>2. /\ w \in SharedBilling(tenants) /\ SameOwner(tenants[t], tenants[w])
        /\ w \in DOMAIN tenants
    BY PoolOf DEF SharedBilling
  <2>3. \A u \in DOMAIN tenants' :
            \E v \in DOMAIN tenants :
                /\ tenants'[u].stripe_subscription_id = tenants[v].stripe_subscription_id
                /\ tenants'[u].subscription_status = tenants[v].subscription_status
    BY <1>1, <2>1, <2>2
  <2>4. ASSUME NEW id \in DOMAIN subscriptions, Slug(id) = t,
               Told(id), ~ Over(id), BoughtBy(id, t)
        PROVE  SamePlan(tenants'[t], tenants[t])
    <3>1. CASE tenants[t].billing_scope = "account"
      <4>1. t \in SharedBilling(tenants)
        BY <1>1, <3>1 DEF SharedBilling
      <4>2. SamePlan(tenants[t], tenants[w])
        BY <2>2, <4>1 DEF SharedAgree
      <4>3. QED
        BY <2>1, <4>2 DEF SamePlan
    <3>2. CASE tenants[t].billing_scope = "workspace"
      <4>1. tenants[t].stripe_subscription_id = id
        BY <1>1, <2>4 DEF BoughtBy
      <4>2. id # NoSubscription
        BY WorkspacesAssumption DEF Rows, TypeOK
      <4>3. tenants[t].subscription_status \in Live
        BY <2>4, <4>1, <4>2 DEF Synced, RowsLive
      <4>4. QED
        BY <3>2, <4>1, <4>2, <4>3 DEF ShareBilling, Live
    <3>3. QED
      BY <1>1, <3>1, <3>2 DEF Row, BillingScopes
  <2>5. \A id \in DOMAIN subscriptions :
            Told(id) /\ ~ Over(id) /\ BoughtBy(id, Slug(id)) /\ tenants'[Slug(id)].is_active =>
                /\ tenants[Slug(id)].is_active
                /\ SamePlan(tenants'[Slug(id)], tenants[Slug(id)])
    <3> TAKE id \in DOMAIN subscriptions
    <3>1. CASE Slug(id) = t
      BY <1>1, <2>4, <3>1
    <3>2. CASE Slug(id) # t
      BY <1>1, <3>2 DEF Reported, Slug, SamePlan
    <3>3. QED
      BY <3>1, <3>2
  <2>6. QED
    BY <1>1, <2>3, <2>5, AccountSynced
<1>5. QED
  BY <1>2, <1>3, <1>4

-----------------------------------------------------------------------------
(* Steps of Stripe.                                                        *)

\* Stripe reports a new status of a subscription.
LEMMA SendSynced ==
    ASSUME Rows, Reported, AllPaid, Synced, UNCHANGED tenants,
           NEW id \in DOMAIN subscriptions, NEW status \in Statuses, NEW type,
           subscriptions' = [subscriptions EXCEPT ![id].status = status],
           Send(type, id, status),
           subscriptions[id].status # "canceled",
           \/ type = "completed" /\ Pending(id) = {}
           \/ type = "changed" /\ subscriptions[id].status # "open",
           OneCheckoutEach' => OneCheckoutEach
    PROVE  Synced'
<1> DEFINE e == [type |-> type, id |-> id, status |-> status,
                 metadata |-> subscriptions[id].metadata]
           n == Len(events)
<1>1. /\ events \in Seq(Events) /\ n \in Nat
      /\ DOMAIN events = 1..n
      /\ \A x \in DOMAIN subscriptions :
            subscriptions[x] \in [status : Statuses \cup {"open"}, metadata : Metadata]
  BY DEF Rows, TypeOK
<1>2. events' = Append(events, e)
  BY DEF Send
<1>3. e.type = type /\ e.id = id /\ e.status = status
  OBVIOUS
<1> HIDE DEF e
<1>4. /\ DOMAIN events' = 1..(n + 1)
      /\ events'[n + 1] = e
      /\ \A i \in 1..n : events'[i] = events[i]
  BY <1>1, <1>2
<1> HIDE DEF n
<1>5. /\ DOMAIN subscriptions' = DOMAIN subscriptions
      /\ subscriptions'[id].status = status
      /\ \A x \in DOMAIN subscriptions :
            /\ subscriptions'[x].metadata = subscriptions[x].metadata
            /\ x # id => subscriptions'[x] = subscriptions[x]
  BY <1>1
<1>6. \A x : Pending(x)' = IF x = id THEN Pending(id) \cup {n + 1} ELSE Pending(x)
  BY <1>1, <1>3, <1>4 DEF Pending
<1>7. \A i \in 1..n : events[i].id \in DOMAIN subscriptions /\ i \in Pending(events[i].id)
  BY <1>1 DEF Reported, Pending
<1>8. \A x : Pending(x) \subseteq 1..n
  BY <1>1 DEF Pending
<1>9. InQueue'
  <2> SUFFICES ASSUME NEW x \in DOMAIN subscriptions, NEW i \in Pending(x)'
               PROVE  Placed(events'[i], i, Pending(x)', subscriptions'[x].status)
    BY <1>5 DEF InQueue
  <2>1. CASE x # id
    <3>1. Pending(x)' = Pending(x) /\ subscriptions'[x] = subscriptions[x]
      BY <1>5, <1>6, <2>1
    <3>2. events'[i] = events[i] /\ i \in Pending(x)
      BY <1>4, <1>8, <3>1
    <3>3. Placed(events[i], i, Pending(x), subscriptions[x].status)
      BY <3>2 DEF Synced, InQueue
    <3>4. QED
      BY <3>1, <3>2, <3>3
  <2>2. CASE x = id /\ i = n + 1
    <3>1. \A j \in Pending(id)' : j <= i
      BY <1>1, <1>6, <1>8, <2>2
    <3>2. type = "completed" => \A j \in Pending(id)' : i <= j
      BY <1>1, <1>6, <2>2
    <3>3. QED
      BY <1>3, <1>4, <1>5, <2>2, <3>1, <3>2 DEF Placed
  <2>3. CASE x = id /\ i \in Pending(id)
    <3>1. /\ events'[i] = events[i] /\ i \in 1..n
          /\ n + 1 \in Pending(id)' /\ ~ (n + 1 <= i) /\ i <= n + 1
      BY <1>1, <1>4, <1>6, <1>8, <2>3
    <3>2. Placed(events[i], i, Pending(id), subscriptions[id].status)
      BY <2>3 DEF Synced, InQueue
    <3>3. events[i].status # "canceled"
      BY <3>2 DEF Placed
    <3>4. events[i].type = "completed" => \A j \in Pending(id)' : i <= j
      BY <1>6, <3>1, <3>2 DEF Placed
    <3>5. QED
      BY <2>3, <3>1, <3>3, <3>4 DEF Placed
  <2>4. QED
    BY <1>6, <2>1, <2>2, <2>3
<1>10. \A x \in DOMAIN subscriptions : ~ Over(x)' => ~ Over(x)
  <2> TAKE x \in DOMAIN subscriptions
  <2>1. CASE x = id
    BY <2>1 DEF Over
  <2>2. CASE x # id
    BY <1>5, <1>6, <2>2 DEF Over
  <2>3. QED
    BY <2>1, <2>2
<1>11. RowsLive'
  <2> SUFFICES ASSUME NEW u \in DOMAIN tenants,
                      tenants[u].stripe_subscription_id # NoSubscription,
                      ~ Over(tenants[u].stripe_subscription_id)'
               PROVE  tenants[u].subscription_status \in Live
    BY DEF RowsLive
  <2>1. tenants[u].stripe_subscription_id \in DOMAIN subscriptions
    BY DEF AllPaid, KnownRow
  <2>2. ~ Over(tenants[u].stripe_subscription_id)
    BY <1>10, <2>1 DEF Over, Pending
  <2>3. QED
    BY <2>2 DEF Synced, RowsLive
<1>12. ASSUME OneCheckoutEach, NEW x \in DOMAIN subscriptions
       PROVE  BoughtBy(x, Slug(x))'
  <2>1. BoughtBy(x, Slug(x)) /\ Slug(x)' = Slug(x)
    BY <1>5, <1>12 DEF Synced, Bought, Slug
  <2>2. CASE x # id
    <3>1. /\ Pending(x)' = Pending(x) /\ subscriptions'[x] = subscriptions[x]
      BY <1>5, <1>6, <2>2
    <3>2. \A i \in Pending(x) : events'[i] = events[i]
      BY <1>4, <1>8
    <3>3. Told(x)' => Told(x)
      BY <3>1, <3>2 DEF Told
    <3>4. Over(x) => Over(x)'
      BY <3>1 DEF Over
    <3>5. QED
      BY <2>1, <3>1, <3>3, <3>4 DEF BoughtBy
  <2>3. CASE x = id
    <3>1. n + 1 \in Pending(x)'
      BY <1>6, <2>3
    <3>2. CASE type = "completed"
      <4>1. ~ Told(x)'
        BY <1>3, <1>4, <3>1, <3>2 DEF Told
      <4>2. QED
        BY <4>1 DEF BoughtBy
    <3>3. CASE type = "changed"
      <4>1. \A i \in Pending(x) : events'[i] = events[i] /\ i \in Pending(x)'
        BY <1>4, <1>6, <1>8, <2>3
      <4>2. Told(x)' => Told(x)
        BY <2>3, <3>3, <4>1 DEF Told
      <4>3. ~ Over(x)
        BY <2>3 DEF Over
      <4>4. Pending(x)' # {}
        BY <3>1
      <4>5. QED
        BY <2>1, <4>2, <4>3, <4>4 DEF BoughtBy
    <3>4. QED
      BY <3>2, <3>3
  <2>4. QED
    BY <2>2, <2>3
<1>13. OneCheckoutEach' => Bought'
  BY <1>5, <1>12 DEF Bought
<1>14. QED
  BY <1>9, <1>11, <1>13 DEF Synced

LEMMA OpenSynced ==
    ASSUME Rows, Reported, AllPaid, Synced, NEW t \in DOMAIN tenants, NEW plan, NEW scope,
           NEW id \in Subscriptions, OpenCheckout(t, plan, scope, id),
           OneCheckoutEach' => OneCheckoutEach
    PROVE  Synced'
<1> DEFINE opened == [status |-> "open",
               metadata |-> [tenant_slug |-> t, plan_name |-> plan, billing_scope |-> scope]]
<1>1. /\ id \notin DOMAIN subscriptions
      /\ subscriptions' = Extend(subscriptions, id, opened)
      /\ UNCHANGED <<tenants, used, events>>
  BY DEF OpenCheckout
<1>2. opened.status = "open"
  OBVIOUS
<1> HIDE DEF opened
<1>3. /\ DOMAIN subscriptions' = DOMAIN subscriptions \cup {id}
      /\ subscriptions'[id].status = "open"
      /\ \A x \in DOMAIN subscriptions : subscriptions'[x] = subscriptions[x]
  BY <1>1, <1>2 DEF Extend
<1>4. \A i \in DOMAIN events : events[i].id \in DOMAIN subscriptions
  BY DEF Reported
<1>5. InQueue'
  BY <1>1, <1>3, <1>4 DEF Synced, InQueue, Pending
<1>6. \A x \in DOMAIN subscriptions : /\ Pending(x)' = Pending(x)
                                      /\ Told(x)' <=> Told(x)
                                      /\ Over(x)' <=> Over(x)
                                      /\ Slug(x)' = Slug(x)
  BY <1>1, <1>3 DEF Pending, Told, Over, Slug
<1>7. RowsLive'
  <2> SUFFICES ASSUME NEW u \in DOMAIN tenants,
                      tenants[u].stripe_subscription_id # NoSubscription,
                      ~ Over(tenants[u].stripe_subscription_id)'
               PROVE  tenants[u].subscription_status \in Live
    BY <1>1 DEF RowsLive
  <2>1. tenants[u].stripe_subscription_id \in DOMAIN subscriptions
    BY DEF AllPaid, KnownRow
  <2>2. ~ Over(tenants[u].stripe_subscription_id)
    BY <1>1, <1>3, <2>1 DEF Over, Pending
  <2>3. QED
    BY <2>2 DEF Synced, RowsLive
<1>8. ASSUME OneCheckoutEach, NEW x \in DOMAIN subscriptions'
      PROVE  BoughtBy(x, Slug(x))'
  <2>1. CASE x = id
    BY <1>3, <2>1 DEF BoughtBy, Told
  <2>2. CASE x \in DOMAIN subscriptions
    <3>1. BoughtBy(x, Slug(x))
      BY <1>8, <2>2 DEF Synced, Bought
    <3>2. QED
      BY <1>1, <1>3, <1>6, <2>2, <3>1 DEF BoughtBy
  <2>3. QED
    BY <1>3, <2>1, <2>2
<1>9. OneCheckoutEach' => Bought'
  BY <1>8 DEF Bought
<1>10. QED
  BY <1>5, <1>7, <1>9 DEF Synced

-----------------------------------------------------------------------------
(* Webhooks.                                                               *)

\* What is under way once the first event of its subscription is accepted.
LEMMA QueueAccepted ==
    ASSUME Rows, Reported, InOrder, InQueue, NEW i \in DOMAIN events, Accept(i)
    PROVE  /\ InQueue'
           /\ i \in Pending(events[i].id)
           /\ \A j \in Pending(events[i].id) : i <= j
           /\ \A x : Pending(x)' = {} <=> Pending(x) \subseteq {i}
           /\ \A x \in DOMAIN subscriptions : x # events[i].id => (Told(x)' <=> Told(x))
<1> DEFINE at(j) == IF j < i THEN j ELSE j + 1
           n == Len(events)
<1>1. /\ events \in Seq(Events) /\ n \in Nat
      /\ DOMAIN events = 1..n /\ i \in 1..n
  BY DEF Rows, TypeOK
<1>2. events' = RemoveAt(events, i) /\ UNCHANGED subscriptions
  BY DEF Accept
<1>3. /\ DOMAIN events' = 1..(n - 1)
      /\ \A j \in 1..(n - 1) : events'[j] = events[at(j)]
  BY <1>1, <1>2, Removal
<1> HIDE DEF n
<1>4. /\ \A j \in 1..(n - 1) : at(j) \in 1..n /\ at(j) # i
      /\ \A j, k \in 1..(n - 1) : at(j) <= at(k) <=> j <= k
      /\ \A k \in 1..n : k # i => \E j \in 1..(n - 1) : at(j) = k
  <2>1. ASSUME NEW k \in 1..n, k # i
        PROVE  \E j \in 1..(n - 1) : at(j) = k
    <3>1. CASE k < i
      BY <1>1, <3>1
    <3>2. CASE k > i
      <4>1. k - 1 \in 1..(n - 1) /\ at(k - 1) = k
        BY <1>1, <3>2
      <4>2. QED
        BY <4>1
    <3>3. QED
      BY <1>1, <2>1, <3>1, <3>2
  <2>2. QED
    BY <1>1, <2>1
<1> HIDE DEF at
<1>5. \A x : \A j : j \in Pending(x)' <=> j \in 1..(n - 1) /\ at(j) \in Pending(x)
  BY <1>1, <1>3, <1>4 DEF Pending
<1>6. \A x : Pending(x) \subseteq 1..n
  BY <1>1 DEF Pending
<1>7. i \in Pending(events[i].id) /\ \A j \in Pending(events[i].id) : i <= j
  BY <1>1 DEF Pending, Accept
<1>8. ASSUME NEW x
      PROVE  Pending(x)' = {} <=> Pending(x) \subseteq {i}
  BY <1>4, <1>5, <1>6
<1>9. ASSUME NEW x \in DOMAIN subscriptions, NEW j \in Pending(x)'
      PROVE  Placed(events'[j], j, Pending(x)', subscriptions'[x].status)
  <2>1. /\ j \in 1..(n - 1) /\ at(j) \in Pending(x)
        /\ events'[j] = events[at(j)] /\ subscriptions'[x] = subscriptions[x]
    BY <1>2, <1>3, <1>5
  <2>2. Placed(events[at(j)], at(j), Pending(x), subscriptions[x].status)
    BY <2>1 DEF InQueue
  <2>3. ASSUME \A k \in Pending(x)' : k <= j
        PROVE  \A k \in Pending(x) : k <= at(j)
    <3> TAKE k \in Pending(x)
    <3>1. CASE k = i
      <4>1. x = events[i].id
        BY <1>1, <3>1 DEF Pending
      <4>2. QED
        BY <1>7, <2>1, <3>1, <4>1
    <3>2. CASE k # i
      <4>1. PICK m \in 1..(n - 1) : at(m) = k
        BY <1>4, <1>6, <3>2
      <4>2. m \in Pending(x)'
        BY <1>5, <4>1
      <4>3. QED
        BY <1>4, <2>1, <2>3, <4>1, <4>2
    <3>3. QED
      BY <3>1, <3>2
  <2>4. ASSUME \A k \in Pending(x) : k <= at(j)
        PROVE  \A k \in Pending(x)' : k <= j
    BY <1>4, <1>5, <2>1, <2>4
  <2>5. ASSUME \A k \in Pending(x) : at(j) <= k
        PROVE  \A k \in Pending(x)' : j <= k
    BY <1>4, <1>5, <2>1, <2>5
  <2>6. QED
    BY <2>1, <2>2, <2>3, <2>4, <2>5 DEF Placed
<1>10. InQueue'
  BY <1>2, <1>9 DEF InQueue
<1>11. ASSUME NEW x \in DOMAIN subscriptions, x # events[i].id
       PROVE  Told(x)' <=> Told(x)
  <2>1. i \notin Pending(x)
    BY <1>1, <1>11 DEF Pending
  <2>2. \A k \in Pending(x) : \E m \in Pending(x)' : events'[m] = events[k]
    BY <1>3, <1>4, <1>5, <1>6, <2>1
  <2>3. \A m \in Pending(x)' : \E k \in Pending(x) : events'[m] = events[k]
    BY <1>3, <1>5
  <2>4. QED
    BY <1>2, <2>2, <2>3 DEF Told
<1>12. QED
  BY <1>7, <1>8, <1>10, <1>11

LEMMA PairHasTwo ==
    ASSUME NEW x, NEW y, x # y
    PROVE  Cardinality({x, y}) = 2
<1>1. IsFiniteSet({x}) /\ Cardinality({x}) = 1
  BY FS_Singleton
<1>2. Cardinality({x} \cup {y}) = Cardinality({x}) + 1
  BY <1>1, FS_AddElement
<1>3. {x} \cup {y} = {x, y}
  OBVIOUS
<1>4. QED
  BY <1>1, <1>2, <1>3

\* Which workspace a webhook replans, and with what.
LEMMA AcceptTarget ==
    ASSUME Rows, Reported, AllPaid, NEW i \in DOMAIN events, Accept(i)
    PROVE  \E t \in DOMAIN tenants, status \in Statuses, quota \in Quotas :
              LET e == events[i]
                  paid == PlanQuotas[e.metadata.plan_name]
              IN  /\ SameOwner(tenants[t], tenants[Slug(e.id)])
                  /\ Replan(t, e, status, quota)
                  /\ \/ /\ e.type = "completed" /\ t = Slug(e.id)
                        /\ status = "active" /\ quota = paid
                     \/ /\ e.type = "changed"
                        /\ tenants[Slug(e.id)].stripe_subscription_id = e.id => t = Slug(e.id)
                        /\ status = e.status
                        /\ quota = IF e.status \in Lapsed THEN 0 ELSE paid
<1> DEFINE e == events[i]
           paid == PlanQuotas[e.metadata.plan_name]
           slug == Slug(e.id)
           on == OnSubscription(e.id)
<1>1. /\ e \in Events /\ e.status \in Statuses /\ paid \in Quotas /\ 0 \in Quotas
      /\ e.id # NoSubscription
      /\ slug = e.metadata.tenant_slug /\ slug \in DOMAIN tenants
  <2>1. e \in Events
    BY DEF Rows, TypeOK
  <2>2. e.id \in DOMAIN subscriptions /\ e.metadata = subscriptions[e.id].metadata
    BY DEF Reported
  <2>3. slug = e.metadata.tenant_slug /\ slug \in DOMAIN tenants
    BY <2>2 DEF Slug, Reported
  <2>4. QED
    BY <2>1, <2>3, WorkspacesAssumption DEF Events, Metadata, Quotas
<1>2. CASE CheckoutCompleted(e)
  <2>1. e.type = "completed" /\ Replan(slug, e, "active", paid)
    BY <1>1, <1>2 DEF CheckoutCompleted
  <2>2. "active" \in Statuses /\ SameOwner(tenants[slug], tenants[slug])
    BY DEF Statuses, SameOwner
  <2> HIDE DEF e, paid, slug
  <2>3. QED
    BY <1>1, <2>1, <2>2 DEF e, paid, slug
<1>3. CASE SubscriptionChanged(e)
  <2> DEFINE t == IF on = {} THEN slug ELSE CHOOSE u \in on : TRUE
             quota == IF e.status \in Lapsed THEN 0 ELSE paid
  <2>1. e.type = "changed" /\ Cardinality(on) <= 1 /\ Replan(t, e, e.status, quota)
    BY <1>1, <1>3 DEF SubscriptionChanged
  <2>2. /\ on \subseteq DOMAIN tenants
        /\ \A u \in DOMAIN tenants : u \in on <=> tenants[u].stripe_subscription_id = e.id
    BY DEF OnSubscription
  <2>3. t \in DOMAIN tenants /\ (on # {} => t \in on)
    BY <1>1, <2>2
  <2>4. SameOwner(tenants[t], tenants[slug])
    <3>1. CASE on = {}
      BY <3>1 DEF SameOwner
    <3>2. CASE on # {}
      <4>1. tenants[t].stripe_subscription_id = e.id
        BY <2>2, <2>3, <3>2
      <4>2. KnownRow(tenants[t])
        BY <2>3 DEF AllPaid
      <4>3. QED
        BY <1>1, <4>1, <4>2 DEF KnownRow, Slug
    <3>3. QED
      BY <3>1, <3>2
  <2>5. tenants[slug].stripe_subscription_id = e.id => t = slug
    <3> SUFFICES ASSUME slug \in on
                 PROVE  t = slug
      BY <1>1, <2>2
    <3>1. IsFiniteSet(on)
      BY <2>2, FS_Subset DEF Rows
    <3> HIDE DEF on, t
    <3>2. {slug, t} \subseteq on
      BY <2>3
    <3>3. IsFiniteSet({slug, t}) /\ Cardinality({slug, t}) <= Cardinality(on)
      BY <3>1, <3>2, FS_Subset
    <3>4. Cardinality(on) \in Nat /\ Cardinality({slug, t}) \in Nat
      BY <3>1, <3>3, FS_CardinalityType
    <3>5. slug # t => Cardinality({slug, t}) = 2
      BY PairHasTwo
    <3>6. QED
      BY <2>1, <3>3, <3>4, <3>5
  <2>6. quota \in Quotas
    BY <1>1
  <2> HIDE DEF e, paid, slug, t, quota, on
  <2>7. QED
    BY <1>1, <2>1, <2>3, <2>4, <2>5, <2>6 DEF e, paid, slug, quota
<1>4. QED
  BY <1>2, <1>3 DEF Accept

\* The workspace a webhook replans is among those it replans.
LEMMA BillingSelf ==
    ASSUME Apart, Rows, RowsOwned, NEW t \in DOMAIN tenants, tenants[t].is_active, NEW scope
    PROVE  t \in BillingTenants(t, scope)
<1>1. CASE tenants[t].billing_scope = "workspace"
  BY <1>1 DEF BillingTenants
<1>2. CASE tenants[t].billing_scope = "account"
  <2>1. t \in SharedBilling(tenants) /\ SameOwner(tenants[t], tenants[t])
    BY <1>2 DEF SharedBilling, SameOwner
  <2>2. t \in active_account_scope_tenants(tenants, t)
    BY <2>1, PoolComplete
  <2>3. QED
    BY <2>2 DEF BillingTenants
<1>3. QED
  BY <1>1, <1>2 DEF Rows, TypeOK, Row, BillingScopes

LEMMA AcceptSynced ==
    ASSUME Apart, InOrder, \A plan \in Plans : PlanQuotas[plan] > 0,
           Rows, Reported, RowsOwned, AllPaid, Synced, NEW i \in DOMAIN events, Accept(i),
           OneCheckoutEach' => OneCheckoutEach
    PROVE  Synced'
<1>1. PICK e \in Events, id \in DOMAIN subscriptions :
          /\ e = events[i] /\ id = events[i].id
          /\ e.metadata = subscriptions[id].metadata
  BY DEF Rows, TypeOK, Reported
<1>2. /\ e.id = id /\ UNCHANGED subscriptions
      /\ subscriptions[id].status # "open" /\ e.status \in Statuses
      /\ e.metadata.plan_name \in Plans
  BY <1>1 DEF Reported, Accept, Events, Metadata
<1>3. /\ InQueue'
      /\ i \in Pending(id)
      /\ \A j \in Pending(id) : i <= j /\ i \in Int /\ j \in Int
      /\ \A x : Pending(x)' = {} <=> Pending(x) \subseteq {i}
      /\ \A x \in DOMAIN subscriptions : x # id => (Told(x)' <=> Told(x))
  <2>1. \A j \in Pending(id) : j \in Int
    BY DEF Pending, Rows, TypeOK
  <2>2. QED
    BY <1>1, <2>1, QueueAccepted DEF Synced
<1>4. Placed(e, i, Pending(id), subscriptions[id].status)
  BY <1>1, <1>3 DEF Synced, InQueue
<1>5. PICK t \in DOMAIN tenants, status \in Statuses, quota \in Quotas :
          LET paid == PlanQuotas[e.metadata.plan_name]
          IN  /\ SameOwner(tenants[t], tenants[Slug(id)])
              /\ Replan(t, e, status, quota)
              /\ \/ /\ e.type = "completed" /\ t = Slug(id)
                    /\ status = "active" /\ quota = paid
                 \/ /\ e.type = "changed"
                    /\ tenants[Slug(id)].stripe_subscription_id = id => t = Slug(id)
                    /\ status = e.status
                    /\ quota = IF e.status \in Lapsed THEN 0 ELSE paid
  BY <1>1, AcceptTarget
<1> DEFINE G == BillingTenants(t, e.metadata.billing_scope)
<1>6. /\ Keeps
      /\ \A u \in DOMAIN tenants :
            tenants'[u] = IF u \in G THEN Planned(tenants[u], e, status, quota) ELSE tenants[u]
  BY <1>5, ReplanStep
<1>7. /\ DOMAIN tenants' = DOMAIN tenants
      /\ \A u \in DOMAIN tenants : tenants[u] \in Row
  BY <1>6 DEF Keeps, Rows, TypeOK
<1>8. \A u \in DOMAIN tenants : u \in G =>
          /\ tenants'[u].stripe_subscription_id = id
          /\ tenants'[u].subscription_status = status
          /\ tenants'[u].monthly_quota = quota
          /\ tenants'[u].is_active = tenants[u].is_active
  BY <1>2, <1>6, <1>7, PlannedColumns
<1>9. \A u \in DOMAIN tenants : u \in G => SameOwner(tenants[t], tenants[u])
  BY <1>5, BillingOf
<1>10. \A u \in DOMAIN tenants : u \notin G => tenants'[u] = tenants[u]
  BY <1>6
<1> HIDE DEF G
<1>11. ~ Over(id)' => status \in Live
  <2>1. CASE status = "canceled"
    <3>1. e.type = "changed" /\ e.status = "canceled"
      BY <1>5, <2>1
    <3>2. \A j \in Pending(id) : j <= i
      BY <1>4, <3>1 DEF Placed
    <3>3. Pending(id)' = {} /\ subscriptions[id].status = "canceled"
      <4>1. Pending(id) \subseteq {i}
        BY <1>3, <3>2
      <4>2. subscriptions[id].status = "canceled"
        BY <1>4, <3>1, <3>2 DEF Placed
      <4>3. QED
        BY <1>3, <4>1, <4>2
    <3>4. QED
      BY <1>2, <3>3 DEF Over, Pending
  <2>2. CASE status # "canceled"
    BY <1>5, <2>2 DEF Statuses, Live
  <2>3. QED
    BY <2>1, <2>2
<1>12. RowsLive'
  <2> SUFFICES ASSUME NEW u \in DOMAIN tenants,
                      tenants'[u].stripe_subscription_id # NoSubscription,
                      ~ Over(tenants[u].stripe_subscription_id)'
               PROVE  tenants'[u].subscription_status \in Live
    BY <1>7 DEF RowsLive
  <2>0. PICK x : x = tenants'[u].stripe_subscription_id
    OBVIOUS
  <2>1. ~ Over(x)'
    BY <2>0 DEF Over, Pending
  <2>2. CASE u \in G
    BY <1>8, <1>11, <2>0, <2>1, <2>2
  <2>3. CASE u \notin G
    <3>1. tenants'[u] = tenants[u]
      BY <1>10, <2>3
    <3>2. ~ Over(x)
      <4>1. CASE x = id
        BY <1>3, <4>1 DEF Over
      <4>2. CASE x # id
        <5>1. i \notin Pending(x)
          BY <1>1, <4>2 DEF Pending
        <5>2. Pending(x)' = {} <=> Pending(x) = {}
          BY <1>3, <5>1
        <5>3. QED
          BY <1>2, <2>1, <5>2 DEF Over
      <4>3. QED
        BY <4>1, <4>2
    <3>3. QED
      BY <2>0, <3>1, <3>2 DEF Synced, RowsLive
  <2>4. QED
    BY <2>2, <2>3
<1>13. ASSUME OneCheckoutEach, NEW x \in DOMAIN subscriptions, x # id
       PROVE  BoughtBy(x, Slug(x))'
  <2>1. BoughtBy(x, Slug(x)) /\ Slug(x)' = Slug(x) /\ Slug(x) \in DOMAIN tenants
    BY <1>2, <1>13 DEF Synced, Bought, Slug, Reported
  <2>2. Slug(x) \notin G
    <3> SUFFICES ASSUME Slug(x) \in G
                 PROVE  FALSE
      OBVIOUS
    <3>1. Slug(id) \in DOMAIN tenants
      BY DEF Reported, Slug
    <3>2. SameOwner(tenants[t], tenants[Slug(x)]) /\ SameOwner(tenants[t], tenants[Slug(id)])
      BY <1>5, <1>9, <2>1
    <3>3. SameOwner(tenants[Slug(x)], tenants[Slug(id)])
      BY <2>1, <3>1, <3>2, OwnersApart DEF RowsOwned
    <3>4. QED
      BY <1>13, <3>3 DEF OneCheckoutEach
  <2>3. tenants'[Slug(x)] = tenants[Slug(x)]
    BY <1>10, <2>1, <2>2
  <2>4. i \notin Pending(x)
    BY <1>1, <1>13 DEF Pending
  <2>5. /\ Pending(x)' = {} <=> Pending(x) = {}
        /\ Told(x)' <=> Told(x)
    BY <1>3, <1>13, <2>4
  <2>6. Over(x)' <=> Over(x)
    BY <1>2, <2>5 DEF Over
  <2>7. QED
    BY <1>2, <2>1, <2>3, <2>5, <2>6 DEF BoughtBy
<1>14. ASSUME OneCheckoutEach
       PROVE  BoughtBy(id, Slug(id))'
  <2>0. /\ BoughtBy(id, Slug(id)) /\ Slug(id)' = Slug(id) /\ Slug(id) \in DOMAIN tenants
        /\ subscriptions' = subscriptions
    BY <1>2, <1>14 DEF Synced, Bought, Slug, Reported
  <2> SUFFICES ASSUME tenants'[Slug(id)].is_active
               PROVE  /\ tenants'[Slug(id)].stripe_subscription_id = id
                      /\ Pending(id)' = {} /\ subscriptions[id].status = "active"
                            => tenants'[Slug(id)].monthly_quota > 0
    BY <2>0 DEF BoughtBy
  <2>1. tenants[Slug(id)].is_active
    BY <1>8, <1>10, <2>0
  <2>2. t = Slug(id)
    <3>1. CASE e.type = "changed"
      <4>1. \A j \in Pending(id) : events[j].type # "completed"
        <5> SUFFICES ASSUME NEW j \in Pending(id), events[j].type = "completed"
                     PROVE  FALSE
          OBVIOUS
        <5>1. Placed(events[j], j, Pending(id), subscriptions[id].status)
          BY DEF Synced, InQueue
        <5>2. j <= i /\ i <= j
          BY <1>3, <5>1 DEF Placed
        <5>3. i = j
          BY <1>3, <5>2
        <5>4. QED
          BY <1>1, <3>1, <5>3
      <4>2. Told(id) /\ ~ Over(id)
        BY <1>2, <1>3, <4>1 DEF Told, Over
      <4>3. tenants[Slug(id)].stripe_subscription_id = id
        BY <2>0, <2>1, <4>2 DEF BoughtBy
      <4>4. QED
        BY <1>5, <3>1, <4>3
    <3>2. CASE e.type = "completed"
      BY <1>5, <3>2
    <3>3. QED
      BY <1>5, <3>1, <3>2
  <2>3. t \in G
    BY <2>1, <2>2, BillingSelf DEF G
  <2>4. /\ tenants'[Slug(id)].stripe_subscription_id = id
        /\ tenants'[Slug(id)].monthly_quota = quota
    BY <1>8, <2>2, <2>3
  <2>5. ASSUME Pending(id)' = {}, subscriptions[id].status = "active"
        PROVE  quota > 0
    <3>1. Pending(id) \subseteq {i}
      BY <1>3, <2>5
    <3>2. e.status = "active"
      BY <1>3, <1>4, <2>5, <3>1 DEF Placed
    <3>3. quota = PlanQuotas[e.metadata.plan_name]
      BY <1>5, <3>2 DEF Lapsed
    <3>4. QED
      BY <1>2, <3>3
  <2>6. QED
    BY <2>4, <2>5
<1>15. OneCheckoutEach' => Bought'
  BY <1>2, <1>13, <1>14 DEF Bought
<1>16. QED
  BY <1>3, <1>12, <1>15 DEF Synced

LEMMA SyncedStep ==
    ASSUME Apart, InOrder, \A plan \in Plans : PlanQuotas[plan] > 0,
           Rows, Reported, RowsOwned, SharedAgree, AllPaid, Synced, [Next]_vars
    PROVE  Synced'
<1>0. OneCheckoutEach' => OneCheckoutEach
  BY OneCheckoutBefore
<1>1. ASSUME NEW p \in Principals, NEW t \in Tenants, Onboard(p, t) \/ Delete(p, t)
      PROVE  Synced'
  BY <1>0, <1>1, OnboardSynced, DeleteSynced
<1>2. ASSUME NEW t \in DOMAIN tenants, ShareBilling(t) \/ Charge(t)
      PROVE  Synced'
  <2>1. CASE ShareBilling(t)
    BY <1>0, <2>1, ShareSynced
  <2>2. CASE Charge(t)
    <3>1. UNCHANGED <<tenants, subscriptions, events>>
      BY <2>2 DEF Charge
    <3>2. \A u \in DOMAIN tenants' :
              \E v \in DOMAIN tenants :
                  /\ tenants'[u].stripe_subscription_id = tenants[v].stripe_subscription_id
                  /\ tenants'[u].subscription_status = tenants[v].subscription_status
      BY <3>1
    <3>3. QED
      BY <1>0, <3>1, <3>2, AccountSynced DEF SamePlan
  <2>3. QED
    BY <1>2, <2>1, <2>2
<1>3. ASSUME NEW t \in DOMAIN tenants, NEW plan \in Plans, NEW scope \in BillingScopes,
             NEW id \in Subscriptions, OpenCheckout(t, plan, scope, id)
      PROVE  Synced'
  BY <1>0, <1>3, OpenSynced
<1>4. ASSUME NEW id \in Subscriptions, Pay(id)
      PROVE  Synced'
  <2>1. PICK status \in Statuses :
            /\ subscriptions' = [subscriptions EXCEPT ![id].status = status]
            /\ Send("completed", id, status)
    BY <1>4 DEF Pay, Statuses
  <2>2. /\ id \in DOMAIN subscriptions /\ subscriptions[id].status = "open"
        /\ UNCHANGED tenants
    BY <1>4 DEF Pay
  <2>3. Pending(id) = {}
    BY <2>2 DEF Pending, Reported
  <2>4. QED
    BY <1>0, <2>1, <2>2, <2>3, SendSynced
<1>5. ASSUME NEW id \in Subscriptions, NEW status \in {"active", "past_due", "canceled"},
             Change(id, status)
      PROVE  Synced'
  <2>1. /\ id \in DOMAIN subscriptions /\ status \in Statuses
        /\ subscriptions[id].status # "open" /\ subscriptions[id].status # "canceled"
        /\ subscriptions' = [subscriptions EXCEPT ![id].status = status]
        /\ Send("changed", id, status)
        /\ UNCHANGED tenants
    BY <1>5 DEF Change, Statuses
  <2>2. QED
    BY <1>0, <2>1, SendSynced
<1>6. ASSUME NEW i \in DOMAIN events, Accept(i)
      PROVE  Synced'
  BY <1>0, <1>6, AcceptSynced
<1>7. CASE UNCHANGED vars
  <2>1. UNCHANGED <<tenants, subscriptions, events>>
    BY <1>7 DEF vars
  <2>2. \A u \in DOMAIN tenants' :
            \E v \in DOMAIN tenants :
                /\ tenants'[u].stripe_subscription_id = tenants[v].stripe_subscription_id
                /\ tenants'[u].subscription_status = tenants[v].subscription_status
    BY <2>1
  <2>3. QED
    BY <1>0, <2>1, <2>2, AccountSynced DEF SamePlan
<1>8. QED
  BY <1>1, <1>2, <1>3, <1>4, <1>5, <1>6, <1>7 DEF Next

LEMMA SyncedInit == Init => Synced
  BY DEF Init, Synced, InQueue, RowsLive, Bought

\* When no account has a second checkout open or paid, Stripe's events of one
\* subscription arrive in order and every plan has a quota: once Stripe has
\* nothing left to report, a workspace with a paid checkout has credits, however
\* its account was shared, inherited, resumed or deleted around in between.
THEOREM PaidWorkspacesHaveQuota ==
    ASSUME Apart, InOrder, \A plan \in Plans : PlanQuotas[plan] > 0
    PROVE  Spec => [](OneCheckoutEach => PaidWorkspaceHasQuota)
<1>1. /\ Rows /\ Reported /\ RowsOwned /\ SharedAgree /\ AllPaid /\ Synced /\ [Next]_vars
      => (RowsOwned /\ SharedAgree /\ AllPaid /\ Synced)'
  BY OwnedStep, AgreeStep, PaidStep, SyncedStep
<1>2. Synced => (OneCheckoutEach => PaidWorkspaceHasQuota)
  <2> SUFFICES ASSUME Synced, OneCheckoutEach, events = <<>>,
                      NEW id \in DOMAIN subscriptions, subscriptions[id].status = "active",
                      Slug(id) \in Active(tenants)
               PROVE  tenants[Slug(id)].monthly_quota > 0
    BY DEF PaidWorkspaceHasQuota, Slug
  <2>1. Pending(id) = {}
    BY DEF Pending
  <2>2. Told(id) /\ BoughtBy(id, Slug(id))
    BY <2>1 DEF Told, Synced, Bought
  <2>3. QED
    BY <2>1, <2>2 DEF BoughtBy, Active
<1>3. QED
  BY <1>1, <1>2, AlwaysRows, AgreeInit, PaidInit, SyncedInit, PTL DEF Spec
=============================================================================
