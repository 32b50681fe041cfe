-------------------------- MODULE ModerationProofs --------------------------
(***************************************************************************)
(* For every set of workspaces, calls, payloads and quotas: types, the     *)
(* atomicity of a decision's rows, the bound on a month's charges, and the *)
(* implementation of QuotaPool by every closed pool.                       *)
(***************************************************************************)
EXTENDS Moderation, FiniteSetTheorems, TLAPS

-----------------------------------------------------------------------------
(* Sums of credits written as cardinalities: a holder x of n credits       *)
(* contributes the pairs <<x, 1>>, ..., <<x, n>>.                          *)

\* The credits of one holder number exactly its price.
LEMMA OneHolder ==
    ASSUME NEW x, NEW n \in Nat
    PROVE  /\ IsFiniteSet({x} \X (1..n))
           /\ Cardinality({x} \X (1..n)) = n
<1> DEFINE X == {x}
           I == 1..n
<1>1. IsFiniteSet(X) /\ Cardinality(X) = 1
  BY FS_Singleton
<1>2. IsFiniteSet(I) /\ Cardinality(I) = n
  BY FS_Interval
<1> HIDE DEF X, I
<1>3. IsFiniteSet(X \X I) /\ Cardinality(X \X I) = Cardinality(X) * Cardinality(I)
  BY <1>1, <1>2, FS_Product
<1>4. QED
  BY <1>1, <1>2, <1>3 DEF X, I

\* Holders of at most k credits each hold at most k times their number.
LEMMA ManyHolders ==
    ASSUME NEW S, IsFiniteSet(S), NEW k \in Nat, NEW U \in SUBSET (S \X (1..k))
    PROVE  /\ IsFiniteSet(U)
           /\ Cardinality(U) \in Nat
           /\ Cardinality(U) <= Cardinality(S) * k
<1>1. IsFiniteSet(1..k) /\ Cardinality(1..k) = k
  BY FS_Interval
<1>2. IsFiniteSet(S \X (1..k)) /\ Cardinality(S \X (1..k)) = Cardinality(S) * k
  BY <1>1, FS_Product
<1>3. QED
  BY <1>2, FS_Subset, FS_CardinalityType

\* A set of credits that adds one holder to another set is larger by at most
\* the price of that holder.
LEMMA AddHolder ==
    ASSUME NEW U, IsFiniteSet(U), NEW x, NEW n \in Nat,
           NEW V \in SUBSET (U \cup ({x} \X (1..n)))
    PROVE  /\ IsFiniteSet(V)
           /\ Cardinality(V) \in Nat
           /\ Cardinality(V) <= Cardinality(U) + n
<1> DEFINE X == {x} \X (1..n)
<1>1. IsFiniteSet(X) /\ Cardinality(X) = n
  BY OneHolder
<1>2. /\ IsFiniteSet(U \cup X)
      /\ Cardinality(U \cup X) = Cardinality(U) + Cardinality(X) - Cardinality(U \cap X)
  BY <1>1, FS_Union, Zenon
<1>3. Cardinality(U) \in Nat /\ Cardinality(U \cap X) \in Nat
  BY FS_Intersection, FS_CardinalityType
<1>4. /\ IsFiniteSet(V)
      /\ Cardinality(V) \in Nat
      /\ Cardinality(V) <= Cardinality(U \cup X)
  BY <1>2, FS_Subset, FS_CardinalityType
<1>5. Cardinality(U \cup X) \in Nat
  BY <1>2, FS_CardinalityType
<1>6. QED
  BY <1>1, <1>2, <1>3, <1>4, <1>5

\* The union of two disjoint finite sets has as many elements as both.
LEMMA DisjointUnion ==
    ASSUME NEW U, IsFiniteSet(U), NEW V, IsFiniteSet(V), U \cap V = {}
    PROVE  /\ IsFiniteSet(U \cup V)
           /\ Cardinality(U \cup V) = Cardinality(U) + Cardinality(V)
<1>1. Cardinality(U \cap V) = 0
  BY FS_EmptySet
<1>2. Cardinality(U) \in Nat /\ Cardinality(V) \in Nat
  BY FS_CardinalityType
<1>3. /\ IsFiniteSet(U \cup V)
      /\ Cardinality(U \cup V) = Cardinality(U) + Cardinality(V) - Cardinality(U \cap V)
  BY FS_Union, Zenon
<1>4. QED
  BY <1>1, <1>2, <1>3

-----------------------------------------------------------------------------
(* Types.                                                                  *)

LEMMA TypeInit == Init => TypeOK
  BY ModerationAssumption DEF Init, TypeOK, Stages, Pending, Tables

LEMMA TypeStep ==
    ASSUME TypeOK, [Next]_vars
    PROVE  TypeOK'
<1> USE DEF TypeOK, Stages, Pending, Tables
<1>1. ASSUME NEW r \in Requests, NEW t \in Tenants, NEW p \in Payloads, Authenticate(r, t, p)
      PROVE  TypeOK'
  <2> DEFINE c == [tenant |-> t, payload |-> p, credit_cost |-> 0,
                   action |-> "allow", created |-> 0]
  <2>1. c \in Calls
    BY ModerationAssumption DEF Calls, Actions
  <2>2. call' = [call EXCEPT ![r] = c] /\ stage' = [stage EXCEPT ![r] = "authenticated"]
    BY <1>1 DEF Authenticate
  <2> HIDE DEF c
  <2>3. QED
    BY <1>1, <2>1, <2>2 DEF Authenticate
<1>2. ASSUME NEW r \in Requests, RefuseUnmetered(r) PROVE TypeOK'
  BY <1>2 DEF RefuseUnmetered
<1>3. ASSUME NEW r \in Requests, Admit(r) PROVE TypeOK'
  <2>1. call[r] \in Calls
    BY <1>3 DEF Admit
  <2>2. Price(call[r].payload) \in 0..MaxCost
    BY <2>1, ModerationAssumption DEF Calls
  <2>3. [call[r] EXCEPT !.credit_cost = Price(call[r].payload)] \in Calls
    BY <2>1, <2>2 DEF Calls
  <2>4. call' = [call EXCEPT ![r] = [call[r] EXCEPT !.credit_cost = Price(call[r].payload)]]
    BY <1>3 DEF Admit
  <2>5. QED
    BY <1>3, <2>3, <2>4 DEF Admit
<1>4. ASSUME NEW r \in Requests, RefuseOverQuota(r) PROVE TypeOK'
  BY <1>4 DEF RefuseOverQuota
<1>5. ASSUME NEW r \in Requests, NEW action \in Actions, Decide(r, action) PROVE TypeOK'
  <2>1. [call[r] EXCEPT !.action = action] \in Calls
    BY <1>5 DEF Decide, Calls
  <2>2. call' = [call EXCEPT ![r] = [call[r] EXCEPT !.action = action]]
    BY <1>5 DEF Decide
  <2>3. QED
    BY <1>5, <2>1, <2>2 DEF Decide
<1>6. ASSUME NEW r \in Requests, CreateRequest(r) PROVE TypeOK'
  <2>1. month \in 0..MaxMonth
    BY ModerationAssumption
  <2>2. [call[r] EXCEPT !.created = month] \in Calls
    BY <1>6, <2>1 DEF CreateRequest, Flush, Calls
  <2>3. call' = [call EXCEPT ![r] = [call[r] EXCEPT !.created = month]]
    BY <1>6 DEF CreateRequest
  <2>4. QED
    BY <1>6, <2>2, <2>3 DEF CreateRequest, Flush
<1>7. ASSUME NEW r \in Requests, CreateResult(r) PROVE TypeOK'
  BY <1>7 DEF CreateResult, Flush
<1>8. ASSUME NEW r \in Requests, CreateCase(r) PROVE TypeOK'
  BY <1>8 DEF CreateCase, Flush
<1>9. ASSUME NEW r \in Requests, LogEvent(r) PROVE TypeOK'
  BY <1>9 DEF LogEvent, Flush
<1>10. ASSUME NEW r \in Requests, Commit(r) PROVE TypeOK'
  BY <1>10 DEF Commit
<1>11. ASSUME NEW r \in Requests, Fail(r) PROVE TypeOK'
  BY <1>11 DEF Fail
<1>12. CASE NextMonth
  BY <1>12, ModerationAssumption DEF NextMonth
<1>13. CASE UNCHANGED vars
  BY <1>13 DEF vars
<1>14. QED
  BY <1>1, <1>2, <1>3, <1>4, <1>5, <1>6, <1>7, <1>8, <1>9, <1>10, <1>11, <1>12, <1>13
     DEF Next, Handle

\* The types of the pipeline's state hold in every behaviour.
THEOREM TypeCorrect == Spec => []TypeOK
<1>1. QED
  BY TypeInit, TypeStep, PTL DEF Spec

-----------------------------------------------------------------------------
(* The rows of one decision commit together.                               *)

\* What a handler may have flushed when it stands before its next statement.
SessionInOrder(r) ==
    \/ session[r] = {}
    \/ /\ stage[r] = "decided"
       /\ \/ session[r] = {"moderation_requests"}
          \/ session[r] = {"moderation_requests", "moderation_results"}
          \/ session[r] = DecisionRows(r)
          \/ session[r] = DecisionRows(r) \cup {"audit_events"}

\* Committed rows per call: all of its decision, or none.
RowsOfCall(r) ==
    \A table \in Tables :
        r \in db[table] <=> stage[r] = "done" /\ table \in DecisionRows(r) \cup {"audit_events"}

Transactions == \A r \in Requests : SessionInOrder(r) /\ RowsOfCall(r)

LEMMA RowsAreWhole == Transactions => WholeDecisionOrNothing
  BY DEF Transactions, RowsOfCall, WholeDecisionOrNothing, DecisionRows, Tables

LEMMA TransactionsStep ==
    ASSUME TypeOK, Transactions, [Next]_vars
    PROVE  Transactions'
<1> SUFFICES ASSUME NEW q \in Requests
             PROVE  SessionInOrder(q)' /\ RowsOfCall(q)'
  BY DEF Transactions
<1> USE DEF TypeOK, Pending, SessionInOrder, RowsOfCall, DecisionRows, Tables
<1>0. SessionInOrder(q) /\ RowsOfCall(q)
  BY DEF Transactions
<1>1. ASSUME NEW r \in Requests, NEW t \in Tenants, NEW p \in Payloads, Authenticate(r, t, p)
      PROVE  SessionInOrder(q)' /\ RowsOfCall(q)'
  BY <1>0, <1>1 DEF Authenticate
<1>2. ASSUME NEW r \in Requests, RefuseUnmetered(r)
      PROVE  SessionInOrder(q)' /\ RowsOfCall(q)'
  BY <1>0, <1>2 DEF RefuseUnmetered
<1>3. ASSUME NEW r \in Requests, Admit(r)
      PROVE  SessionInOrder(q)' /\ RowsOfCall(q)'
  BY <1>0, <1>3 DEF Admit
<1>4. ASSUME NEW r \in Requests, RefuseOverQuota(r)
      PROVE  SessionInOrder(q)' /\ RowsOfCall(q)'
  BY <1>0, <1>4 DEF RefuseOverQuota
<1>5. ASSUME NEW r \in Requests, NEW action \in Actions, Decide(r, action)
      PROVE  SessionInOrder(q)' /\ RowsOfCall(q)'
  BY <1>0, <1>5 DEF Decide
<1>6. ASSUME NEW r \in Requests, CreateRequest(r)
      PROVE  SessionInOrder(q)' /\ RowsOfCall(q)'
  BY <1>0, <1>6 DEF CreateRequest, Flush
<1>7. ASSUME NEW r \in Requests, CreateResult(r)
      PROVE  SessionInOrder(q)' /\ RowsOfCall(q)'
  BY <1>0, <1>7 DEF CreateResult, Flush
<1>8. ASSUME NEW r \in Requests, CreateCase(r)
      PROVE  SessionInOrder(q)' /\ RowsOfCall(q)'
  BY <1>0, <1>8 DEF CreateCase, Flush
<1>9. ASSUME NEW r \in Requests, LogEvent(r)
      PROVE  SessionInOrder(q)' /\ RowsOfCall(q)'
  BY <1>0, <1>9 DEF LogEvent, Flush
<1>10. ASSUME NEW r \in Requests, Commit(r)
       PROVE  SessionInOrder(q)' /\ RowsOfCall(q)'
  <2>1. SessionInOrder(r)
    BY DEF Transactions
  <2>2. session[r] = DecisionRows(r) \cup {"audit_events"}
    BY <1>10, <2>1 DEF Commit
  <2>3. QED
    BY <1>0, <1>10, <2>2 DEF Commit
<1>11. ASSUME NEW r \in Requests, Fail(r)
       PROVE  SessionInOrder(q)' /\ RowsOfCall(q)'
  BY <1>0, <1>11 DEF Fail
<1>12. CASE NextMonth
  BY <1>0, <1>12 DEF NextMonth
<1>13. CASE UNCHANGED vars
  BY <1>0, <1>13 DEF vars
<1>14. QED
  BY <1>1, <1>2, <1>3, <1>4, <1>5, <1>6, <1>7, <1>8, <1>9, <1>10, <1>11, <1>12, <1>13
     DEF Next, Handle

\* A call that finished left every row of its decision, any other call none,
\* wherever it was interrupted.
THEOREM DecisionsAreWhole == Spec => []WholeDecisionOrNothing
<1>1. Init => Transactions
  BY DEF Init, Transactions, SessionInOrder, RowsOfCall
<1>2. TypeOK /\ Transactions /\ [Next]_vars => Transactions'
  BY TransactionsStep
<1>3. QED
  BY <1>1, <1>2, RowsAreWhole, TypeCorrect, PTL DEF Spec

-----------------------------------------------------------------------------
(* The bound on a month's charges.                                         *)

\* Calls that count, or may still come to count, against month m of a pool:
\* those charged to it, those whose row is already dated in it, and, for the
\* current month, those admitted.
Holders(pool, m) ==
    {r \in Requests :
        /\ stage[r] \in {"admitted", "decided", "done"}
        /\ call[r].tenant \in pool
        /\ \/ call[r].created = m
           \/ m = month /\ stage[r] # "done"}

HeldCredits(pool, m) ==
    {c \in Holders(pool, m) \X (1..MaxCost) : c[2] <= call[c[1]].credit_cost}

Slack == (MaxInFlight - 1) * MaxCost

\* The facts about single calls that the bound rests on.
Priced(r) ==
    /\ stage[r] \in Pending \cup {"done"} => call[r].tenant \in DOMAIN tenants
    /\ stage[r] = "authenticated" => call[r].created = 0
    /\ stage[r] \in {"admitted", "decided", "done"} =>
          /\ call[r].credit_cost = Price(call[r].payload)
          /\ call[r].created <= month
    /\ stage[r] \in {"admitted", "decided"} =>
          FitsQuota(tenants, call[r].tenant, call[r].credit_cost)

CallsPriced == \A r \in Requests : Priced(r)

HeldBounded ==
    \A t \in DOMAIN tenants, m \in 1..MaxMonth :
        LET pool == QuotaScope(tenants, t)
        IN  ClosedPool(tenants, pool) =>
               FitsQuota(tenants, t, Cardinality(HeldCredits(pool, m)) - Slack)

QuotaInv ==
    /\ TypeOK
    /\ Transactions
    /\ CallsPriced
    /\ Cardinality(InFlight) <= MaxInFlight
    /\ HeldBounded

\* Quotas are natural numbers and scopes hold existing workspaces.
LEMMA QuotaTypes ==
    ASSUME TypeOK, NEW t \in DOMAIN tenants
    PROVE  /\ QuotaScope(tenants, t) \subseteq DOMAIN tenants
           /\ \A u \in DOMAIN tenants : tenants[u].monthly_quota \in Nat
           /\ t \in Tenants
<1>1. PICK slugs \in SUBSET Tenants : tenants \in [slugs -> QuotaRow]
  BY ModerationAssumption DEF TypeOK
<1>2. QuotaScope(tenants, t) \subseteq DOMAIN tenants
  BY DEF QuotaScope, active_account_scope_tenants, SharedBilling
<1>3. QED
  BY <1>1, <1>2 DEF QuotaRow

\* A smaller total fits where a larger one does.
LEMMA FitsLess ==
    ASSUME TypeOK, NEW t \in DOMAIN tenants, NEW a \in Int, NEW b \in Int,
           b <= a, FitsQuota(tenants, t, a)
    PROVE  FitsQuota(tenants, t, b)
<1>1. PICK u \in QuotaScope(tenants, t) : a <= tenants[u].monthly_quota
  BY DEF FitsQuota
<1>2. tenants[u].monthly_quota \in Nat
  BY <1>1, QuotaTypes
<1>3. QED
  BY <1>1, <1>2 DEF FitsQuota

LEMMA SlackType == Slack \in Nat
  BY ModerationAssumption DEF Slack

\* Sets of calls and of the credits they hold are finite.
LEMMA CreditsFinite ==
    ASSUME NEW S \in SUBSET Requests, NEW U \in SUBSET (S \X (1..MaxCost))
    PROVE  /\ IsFiniteSet(S) /\ Cardinality(S) \in Nat
           /\ IsFiniteSet(U) /\ Cardinality(U) \in Nat
           /\ Cardinality(U) <= Cardinality(S) * MaxCost
<1>1. IsFiniteSet(S) /\ Cardinality(S) \in Nat
  BY ModerationAssumption, FS_Subset, FS_CardinalityType
<1>2. MaxCost \in Nat
  BY ModerationAssumption
<1>3. QED
  BY <1>1, <1>2, ManyHolders

LEMMA HeldFinite ==
    ASSUME NEW pool, NEW m
    PROVE  /\ IsFiniteSet(HeldCredits(pool, m))
           /\ Cardinality(HeldCredits(pool, m)) \in Nat
<1>1. /\ Holders(pool, m) \in SUBSET Requests
      /\ HeldCredits(pool, m) \in SUBSET (Holders(pool, m) \X (1..MaxCost))
  BY DEF Holders, HeldCredits
<1>2. QED
  BY <1>1, CreditsFinite

LEMMA UsedFinite ==
    ASSUME TypeOK, NEW pool, NEW m
    PROVE  UsedCredits(pool, m) \in Nat
<1> DEFINE U == {c \in Charged(pool, m) \X (1..MaxCost) : c[2] <= RecordCost(c[1])}
<1>1. Charged(pool, m) \in SUBSET Requests /\ U \in SUBSET (Charged(pool, m) \X (1..MaxCost))
  BY DEF TypeOK, Tables, Charged
<1>2. QED
  BY <1>1, CreditsFinite DEF UsedCredits

\* Charged credits are held credits.
LEMMA UsedIsHeld ==
    ASSUME QuotaInv, NEW pool, NEW m
    PROVE  /\ UsedCredits(pool, m) \in Nat
           /\ UsedCredits(pool, m) <= Cardinality(HeldCredits(pool, m))
<1> DEFINE U == {c \in Charged(pool, m) \X (1..MaxCost) : c[2] <= RecordCost(c[1])}
<1>1. \A r \in Charged(pool, m) : r \in Holders(pool, m) /\ RecordCost(r) = call[r].credit_cost
  <2> TAKE r \in Charged(pool, m)
  <2>1. r \in Requests /\ stage[r] = "done"
    BY DEF QuotaInv, TypeOK, Charged, Transactions, RowsOfCall, Tables
  <2>2. r \in Holders(pool, m)
    BY <2>1 DEF Charged, Holders
  <2>3. call[r] \in Calls /\ call[r].credit_cost = Price(call[r].payload)
    BY <2>1 DEF QuotaInv, TypeOK, CallsPriced, Priced
  <2>4. call[r].credit_cost \in 1..MaxCost
    BY <2>3, ModerationAssumption DEF Calls
  <2>5. QED
    BY <2>2, <2>4 DEF RecordCost, credits_for_record
<1>2. U \in SUBSET HeldCredits(pool, m)
  BY <1>1 DEF HeldCredits
<1>3. QED
  BY <1>2, HeldFinite, FS_Subset, FS_CardinalityType DEF UsedCredits

\* The steps of one call other than its admission, and stuttering, hold on to
\* no call that was not held before.
Unheld ==
    \/ \E r \in Requests :
          \/ \E t \in Tenants, p \in Payloads : Authenticate(r, t, p)
          \/ RefuseUnmetered(r)
          \/ RefuseOverQuota(r)
          \/ \E action \in Actions : Decide(r, action)
          \/ CreateRequest(r)
          \/ CreateResult(r)
          \/ CreateCase(r)
          \/ LogEvent(r)
          \/ Commit(r)
          \/ Fail(r)
    \/ UNCHANGED vars

LEMMA StepCases == [Next]_vars <=> Unheld \/ (\E r \in Requests : Admit(r)) \/ NextMonth
  BY DEF Next, Handle, Unheld

LEMMA TenantsFixed == [Next]_vars => tenants' = tenants
  BY DEF Next, Handle, vars, Authenticate, RefuseUnmetered, Admit, RefuseOverQuota, Decide,
         Flush, CreateRequest, CreateResult, CreateCase, LogEvent, Commit, Fail, NextMonth

LEMMA HoldersShrink ==
    ASSUME TypeOK, CallsPriced, Unheld, NEW pool, NEW m \in 1..MaxMonth
    PROVE  /\ Holders(pool, m)' \subseteq Holders(pool, m)
           /\ \A q \in Holders(pool, m)' : call'[q].credit_cost = call[q].credit_cost
<1> SUFFICES ASSUME NEW q \in Requests, q \in Holders(pool, m)'
             PROVE  q \in Holders(pool, m) /\ call'[q].credit_cost = call[q].credit_cost
  BY DEF Holders
<1> USE DEF TypeOK, Holders, Pending
<1>1. ASSUME NEW r \in Requests, NEW t \in Tenants, NEW p \in Payloads, Authenticate(r, t, p)
      PROVE  q \in Holders(pool, m) /\ call'[q].credit_cost = call[q].credit_cost
  BY <1>1 DEF Authenticate
<1>2. ASSUME NEW r \in Requests, RefuseUnmetered(r) \/ RefuseOverQuota(r) \/ Fail(r)
      PROVE  q \in Holders(pool, m) /\ call'[q].credit_cost = call[q].credit_cost
  BY <1>2 DEF RefuseUnmetered, RefuseOverQuota, Fail
<1>3. ASSUME NEW r \in Requests, NEW action \in Actions, Decide(r, action)
      PROVE  q \in Holders(pool, m) /\ call'[q].credit_cost = call[q].credit_cost
  <2>1. call[r] \in Calls
    BY <1>3 DEF Decide
  <2>2. /\ call'[q].credit_cost = call[q].credit_cost
        /\ call'[q].tenant = call[q].tenant
        /\ call'[q].created = call[q].created
    BY <1>3, <2>1 DEF Decide, Calls
  <2>3. QED
    BY <1>3, <2>2 DEF Decide
<1>4. ASSUME NEW r \in Requests, CreateRequest(r)
      PROVE  q \in Holders(pool, m) /\ call'[q].credit_cost = call[q].credit_cost
  <2>1. call[r] \in Calls
    BY <1>4 DEF CreateRequest, Flush
  <2>2. /\ call'[q].credit_cost = call[q].credit_cost
        /\ call'[q].tenant = call[q].tenant
        /\ call'[q].created = call[q].created \/ (q = r /\ call'[q].created = month)
    BY <1>4, <2>1 DEF CreateRequest, Calls
  <2>3. QED
    BY <1>4, <2>2 DEF CreateRequest, Flush
<1>5. ASSUME NEW r \in Requests, CreateResult(r) \/ CreateCase(r) \/ LogEvent(r)
      PROVE  q \in Holders(pool, m) /\ call'[q].credit_cost = call[q].credit_cost
  BY <1>5 DEF CreateResult, CreateCase, LogEvent, Flush
<1>6. ASSUME NEW r \in Requests, Commit(r)
      PROVE  q \in Holders(pool, m) /\ call'[q].credit_cost = call[q].credit_cost
  BY <1>6 DEF Commit
<1>7. CASE UNCHANGED vars
  BY <1>7 DEF vars
<1>8. QED
  BY <1>1, <1>2, <1>3, <1>4, <1>5, <1>6, <1>7 DEF Unheld

LEMMA CallsPricedStep ==
    ASSUME TypeOK, CallsPriced, [Next]_vars
    PROVE  CallsPriced'
<1>0. tenants' = tenants
  BY TenantsFixed
<1> SUFFICES ASSUME NEW q \in Requests PROVE Priced(q)'
  BY DEF CallsPriced
<1>a. Priced(q)
  BY DEF CallsPriced
<1> USE <1>0, <1>a DEF Pending, Priced
<1>1. ASSUME NEW r \in Requests, NEW t \in Tenants, NEW p \in Payloads, Authenticate(r, t, p)
      PROVE  Priced(q)'
  BY <1>1 DEF TypeOK, Authenticate
<1>2. ASSUME NEW r \in Requests, RefuseUnmetered(r) \/ RefuseOverQuota(r) \/ Fail(r)
      PROVE  Priced(q)'
  BY <1>2 DEF TypeOK, RefuseUnmetered, RefuseOverQuota, Fail
<1>3. ASSUME NEW r \in Requests, Admit(r) PROVE Priced(q)'
  <2>1. CASE q # r
    BY <1>3, <2>1 DEF TypeOK, Admit
  <2>2. CASE q = r
    <3> DEFINE t == call[r].tenant
               cost == Price(call[r].payload)
    <3>1. stage[r] = "authenticated" /\ call[r] \in Calls /\ t \in DOMAIN tenants
      BY <1>3, <2>2 DEF TypeOK, Admit
    <3>2. cost \in Nat /\ month \in Nat
      BY <3>1, ModerationAssumption DEF Calls, TypeOK
    <3>3. UsedCredits(QuotaScope(tenants, t), month) \in Nat
      BY UsedFinite
    <3>4. FitsQuota(tenants, t, UsedCredits(QuotaScope(tenants, t), month) + cost)
      BY <1>3 DEF Admit, HasCredits
    <3> HIDE DEF cost
    <3>5. FitsQuota(tenants, t, cost)
      BY <3>1, <3>2, <3>3, <3>4, FitsLess
    <3>6. /\ call'[q] = [call[r] EXCEPT !.credit_cost = cost]
          /\ stage'[q] = "admitted"
          /\ month' = month
      BY <1>3, <2>2 DEF TypeOK, Admit, cost
    <3>7. /\ call'[q].credit_cost = cost
          /\ call'[q].payload = call[r].payload
          /\ call'[q].tenant = t
          /\ call'[q].created = 0
      BY <2>2, <3>1, <3>6 DEF Calls
    <3>8. QED
      BY <3>1, <3>2, <3>5, <3>6, <3>7 DEF cost
  <2>3. QED
    BY <2>1, <2>2
<1>4. ASSUME NEW r \in Requests, NEW action \in Actions, Decide(r, action)
      PROVE  Priced(q)'
  <2>1. call[r] \in Calls
    BY <1>4 DEF TypeOK, Decide
  <2>2. /\ call'[q].credit_cost = call[q].credit_cost
        /\ call'[q].tenant = call[q].tenant
        /\ call'[q].payload = call[q].payload
        /\ call'[q].created = call[q].created
    BY <1>4, <2>1 DEF TypeOK, Decide, Calls
  <2>3. QED
    BY <1>4, <2>2 DEF TypeOK, Decide
<1>5. ASSUME NEW r \in Requests, CreateRequest(r) PROVE Priced(q)'
  <2>1. call[r] \in Calls /\ month \in Int
    BY <1>5, ModerationAssumption DEF TypeOK, CreateRequest, Flush
  <2>2. /\ call'[q].credit_cost = call[q].credit_cost
        /\ call'[q].tenant = call[q].tenant
        /\ call'[q].payload = call[q].payload
        /\ call'[q].created = call[q].created \/ (q = r /\ call'[q].created = month)
    BY <1>5, <2>1 DEF TypeOK, CreateRequest, Calls
  <2>3. QED
    BY <1>5, <2>1, <2>2 DEF TypeOK, CreateRequest, Flush
<1>6. ASSUME NEW r \in Requests, CreateResult(r) \/ CreateCase(r) \/ LogEvent(r)
      PROVE  Priced(q)'
  BY <1>6 DEF CreateResult, CreateCase, LogEvent, Flush
<1>7. ASSUME NEW r \in Requests, Commit(r) PROVE Priced(q)'
  BY <1>7 DEF TypeOK, Commit
<1>8. CASE NextMonth
  <2>1. stage[q] \in {"admitted", "decided", "done"} => call[q].created \in Int
    BY DEF TypeOK, Calls
  <2>2. month \in Int /\ month' = month + 1 /\ stage' = stage /\ call' = call
    BY <1>8, ModerationAssumption DEF TypeOK, NextMonth
  <2>3. QED
    BY <2>1, <2>2
<1>9. CASE UNCHANGED vars
  BY <1>9 DEF vars
<1>10. QED
  BY <1>1, <1>2, <1>3, <1>4, <1>5, <1>6, <1>7, <1>8, <1>9 DEF Next, Handle

\* Calls enter the pipeline while there is room.
LEMMA InFlightStep ==
    ASSUME TypeOK, Cardinality(InFlight) <= MaxInFlight, [Next]_vars
    PROVE  Cardinality(InFlight') <= MaxInFlight
<1>1. IsFiniteSet(InFlight) /\ Cardinality(InFlight) \in Nat /\ MaxInFlight \in Nat
  BY CreditsFinite, ModerationAssumption, FS_Subset, FS_CardinalityType DEF InFlight
<1>2. ASSUME NEW r \in Requests, NEW t \in Tenants, NEW p \in Payloads, Authenticate(r, t, p)
      PROVE  Cardinality(InFlight') <= MaxInFlight
  <2>1. InFlight' = InFlight \cup {r} /\ r \notin InFlight
    BY <1>2 DEF TypeOK, Authenticate, InFlight, Pending
  <2>2. Cardinality(InFlight') = Cardinality(InFlight) + 1
    BY <1>1, <2>1, FS_AddElement
  <2>3. Cardinality(InFlight) < MaxInFlight
    BY <1>2 DEF Authenticate
  <2>4. QED
    BY <1>1, <2>2, <2>3
<1>3. CASE InFlight' \subseteq InFlight
  BY <1>1, <1>3, FS_Subset, FS_CardinalityType
<1>4. (\E r \in Requests : Handle(r) \/ Fail(r)) => InFlight' \subseteq InFlight
  BY DEF TypeOK, InFlight, Pending, Handle, RefuseUnmetered, Admit, RefuseOverQuota, Decide,
         Flush, CreateRequest, CreateResult, CreateCase, LogEvent, Commit, Fail
<1>5. NextMonth \/ UNCHANGED vars => InFlight' \subseteq InFlight
  BY DEF NextMonth, vars, InFlight
<1>6. QED
  BY <1>2, <1>3, <1>4, <1>5 DEF Next

\* The other calls in flight hold at most the slack.
LEMMA OthersHoldSlack ==
    ASSUME TypeOK, Cardinality(InFlight) <= MaxInFlight, NEW r \in InFlight,
           NEW B \in SUBSET ((InFlight \ {r}) \X (1..MaxCost))
    PROVE  IsFiniteSet(B) /\ Cardinality(B) \in Nat /\ Cardinality(B) <= Slack
<1> DEFINE S == InFlight \ {r}
<1>1. S \in SUBSET Requests /\ IsFiniteSet(InFlight) /\ r \in Requests
  BY ModerationAssumption, FS_Subset DEF InFlight
<1>2. Cardinality(S) = Cardinality(InFlight) - 1
  BY <1>1, FS_RemoveElement
<1>3. Cardinality(InFlight) \in Nat /\ MaxInFlight \in Nat /\ MaxCost \in Nat
  BY <1>1, FS_CardinalityType, ModerationAssumption
<1> HIDE DEF S
<1>4. IsFiniteSet(B) /\ Cardinality(B) \in Nat /\ Cardinality(B) <= Cardinality(S) * MaxCost
  BY <1>1, CreditsFinite DEF S
<1>5. Cardinality(S) \in Nat /\ Cardinality(S) <= MaxInFlight - 1
  <2>1. Cardinality(S) \in Nat
    BY <1>1, FS_Subset, FS_CardinalityType DEF S
  <2>2. QED
    BY <1>2, <1>3, <2>1
<1>6. Cardinality(S) * MaxCost <= (MaxInFlight - 1) * MaxCost
  BY <1>3, <1>5, SMT
<1>7. QED
  BY <1>3, <1>4, <1>5, <1>6, SMT DEF Slack

\* A total that fits one workspace of a closed pool fits every other.
LEMMA PoolFits ==
    ASSUME NEW t \in DOMAIN tenants, NEW pool, pool = QuotaScope(tenants, t),
           ClosedPool(tenants, pool), NEW u \in pool, NEW a, FitsQuota(tenants, u, a)
    PROVE  FitsQuota(tenants, t, a)
  BY DEF ClosedPool, FitsQuota

\* A step after which no more is held than before.
LEMMA ShrinkFits ==
    ASSUME TypeOK, NEW t \in DOMAIN tenants, NEW pool, NEW m,
           FitsQuota(tenants, t, Cardinality(HeldCredits(pool, m)) - Slack),
           Holders(pool, m)' \subseteq Holders(pool, m),
           \A q \in Holders(pool, m)' : call'[q].credit_cost = call[q].credit_cost
    PROVE  FitsQuota(tenants, t, Cardinality(HeldCredits(pool, m)') - Slack)
<1> DEFINE H == HeldCredits(pool, m)
           K == HeldCredits(pool, m)'
<1>1. K \subseteq H
  BY DEF HeldCredits
<1>2. IsFiniteSet(H) /\ Cardinality(H) \in Nat
  BY HeldFinite
<1> HIDE DEF H, K
<1>3. Cardinality(K) \in Nat /\ Cardinality(K) <= Cardinality(H)
  BY <1>1, <1>2, FS_Subset, FS_CardinalityType
<1> DEFINE a == Cardinality(H) - Slack
           b == Cardinality(K) - Slack
<1>4. a \in Int /\ b \in Int /\ b <= a
  BY <1>2, <1>3, SlackType
<1>5. FitsQuota(tenants, t, a)
  BY DEF H
<1> HIDE DEF a, b
<1>6. FitsQuota(tenants, t, b)
  BY <1>4, <1>5, FitsLess
<1>7. QED
  BY <1>6 DEF b, K

\* The step that takes credits: the quota check saw what is charged, and what
\* it did not see is held by the other calls in flight.
LEMMA AdmitFits ==
    ASSUME QuotaInv, NEW r \in Requests, Admit(r),
           NEW t \in DOMAIN tenants, NEW pool, pool = QuotaScope(tenants, t),
           ClosedPool(tenants, pool), call[r].tenant \in pool
    PROVE  FitsQuota(tenants, t, Cardinality(HeldCredits(pool, month)') - Slack)
<1> DEFINE cost == Price(call[r].payload)
           used == UsedCredits(pool, month)
           A == {c \in Charged(pool, month) \X (1..MaxCost) : c[2] <= RecordCost(c[1])}
           B == {c \in (InFlight \ {r}) \X (1..MaxCost) : c[2] <= call[c[1]].credit_cost}
           K == HeldCredits(pool, month)'
<1>1. /\ TypeOK
      /\ stage[r] = "authenticated"
      /\ call[r] \in Calls
      /\ r \in InFlight
      /\ cost \in Nat
  <2>1. stage[r] = "authenticated" /\ call[r] \in Calls
    BY DEF QuotaInv, TypeOK, Admit, Pending
  <2>2. QED
    BY <2>1, ModerationAssumption DEF QuotaInv, InFlight, Pending, Calls
<1>2. QuotaScope(tenants, call[r].tenant) = pool
  BY DEF ClosedPool
<1>3. FitsQuota(tenants, call[r].tenant, used + cost)
  BY <1>2 DEF Admit, HasCredits
<1>4. FitsQuota(tenants, t, used + cost)
  BY <1>3, PoolFits
<1>5. ASSUME NEW q \in Requests, q # r, q \in Holders(pool, month)'
      PROVE  /\ call'[q] = call[q]
             /\ \/ q \in Charged(pool, month) /\ RecordCost(q) = call[q].credit_cost
                \/ q \in InFlight
  <2>1. call'[q] = call[q] /\ stage'[q] = stage[q] /\ month' = month
    BY <1>1, <1>5 DEF TypeOK, Admit
  <2>2. CASE stage[q] = "done"
    <3>1. q \in Charged(pool, month)
      BY <1>5, <2>1, <2>2 DEF QuotaInv, Transactions, RowsOfCall, Charged, Holders,
                              DecisionRows, Tables
    <3>2. call[q] \in Calls /\ call[q].credit_cost = Price(call[q].payload)
      BY <1>1, <2>2 DEF QuotaInv, TypeOK, CallsPriced, Priced
    <3>3. call[q].credit_cost \in 1..MaxCost
      BY <3>2, ModerationAssumption DEF Calls
    <3>4. QED
      BY <2>1, <3>1, <3>3 DEF RecordCost, credits_for_record
  <2>3. CASE stage[q] # "done"
    BY <1>5, <2>1, <2>3 DEF Holders, InFlight, Pending
  <2>4. QED
    BY <2>2, <2>3
<1>6. call'[r].credit_cost = cost
  <2>1. call'[r] = [call[r] EXCEPT !.credit_cost = cost]
    BY <1>1 DEF TypeOK, Admit
  <2> HIDE DEF cost
  <2>2. QED
    BY <1>1, <2>1 DEF Calls
<1>7. K \subseteq (A \cup B) \cup ({r} \X (1..cost))
  <2> SUFFICES ASSUME NEW c \in K PROVE c \in (A \cup B) \cup ({r} \X (1..cost))
    OBVIOUS
  <2>1. PICK q \in Holders(pool, month)', i \in 1..MaxCost :
            c = <<q, i>> /\ i <= call'[q].credit_cost
    BY DEF HeldCredits
  <2>2. q \in Requests
    BY <2>1 DEF Holders
  <2>3. CASE q = r
    <3> HIDE DEF cost
    <3>1. i \in 1..cost
      BY <1>1, <1>6, <2>1, <2>3
    <3>2. QED
      BY <2>1, <2>3, <3>1
  <2>4. CASE q # r
    BY <1>5, <2>1, <2>2, <2>4
  <2>5. QED
    BY <2>3, <2>4
<1>8. IsFiniteSet(A) /\ Cardinality(A) = used /\ used \in Nat
  <2>1. Charged(pool, month) \in SUBSET Requests /\ A \in SUBSET (Charged(pool, month) \X (1..MaxCost))
    BY <1>1 DEF TypeOK, Tables, Charged
  <2>2. QED
    BY <2>1, CreditsFinite DEF UsedCredits
<1>9. IsFiniteSet(B) /\ Cardinality(B) \in Nat /\ Cardinality(B) <= Slack
  BY <1>1, OthersHoldSlack DEF QuotaInv
<1> HIDE DEF A, B, K, cost, used
<1>10. IsFiniteSet(A \cup B) /\ Cardinality(A \cup B) \in Nat /\ Cardinality(A \cup B) <= used + Slack
  <2>1. /\ IsFiniteSet(A \cup B)
        /\ Cardinality(A \cup B) = Cardinality(A) + Cardinality(B) - Cardinality(A \cap B)
    BY <1>8, <1>9, FS_Union, Zenon
  <2>2. Cardinality(A \cap B) \in Nat /\ Cardinality(A \cup B) \in Nat
    BY <1>8, <2>1, FS_Intersection, FS_CardinalityType
  <2>3. QED
    BY <1>8, <1>9, <2>1, <2>2, SlackType
<1>11. Cardinality(K) \in Nat /\ Cardinality(K) <= Cardinality(A \cup B) + cost
  BY <1>1, <1>7, <1>10, AddHolder
<1> DEFINE a == used + cost
           b == Cardinality(K) - Slack
<1>12. a \in Int /\ b \in Int /\ b <= a
  BY <1>1, <1>8, <1>10, <1>11, SlackType
<1>13. FitsQuota(tenants, t, a)
  BY <1>4
<1> HIDE DEF a, b
<1>14. FitsQuota(tenants, t, b)
  BY <1>1, <1>12, <1>13, FitsLess
<1>15. QED
  BY <1>14 DEF b, K

\* In a new month nothing is charged yet: only the calls in flight are held,
\* each of which fitted the quota alone.
LEMMA NewMonthFits ==
    ASSUME QuotaInv, NextMonth,
           NEW t \in DOMAIN tenants, NEW pool, pool = QuotaScope(tenants, t),
           ClosedPool(tenants, pool), NEW m \in Nat, m = month + 1
    PROVE  FitsQuota(tenants, t, Cardinality(HeldCredits(pool, m)') - Slack)
<1> DEFINE K == HeldCredits(pool, m)'
<1>0. TypeOK /\ month \in Nat
  BY ModerationAssumption DEF QuotaInv, TypeOK
<1>1. /\ call' = call
      /\ stage' = stage
      /\ month' = month + 1
      /\ tenants' = tenants
  BY DEF NextMonth
<1>2. ASSUME NEW q \in Requests, q \in Holders(pool, m)'
      PROVE  stage[q] \in {"admitted", "decided"} /\ call[q].tenant \in pool /\ q \in InFlight
  <2>1. stage[q] \in {"admitted", "decided", "done"} =>
            call[q].created \in Nat /\ call[q].created <= month
    BY <1>0 DEF QuotaInv, CallsPriced, Priced, TypeOK, Calls, Pending
  <2>2. QED
    BY <1>0, <1>1, <1>2, <2>1 DEF Holders, InFlight, Pending
<1>3. CASE K = {}
  <2>1. Cardinality(K) = 0
    BY <1>3, FS_EmptySet
  <2>2. t \in pool \/ pool # {}
    BY DEF ClosedPool
  <2>3. PICK u \in pool : tenants[u].monthly_quota \in Nat
    BY <1>0, <2>2, QuotaTypes
  <2>4. 0 - Slack <= tenants[u].monthly_quota
    BY <2>3, SlackType
  <2>5. QED
    BY <2>1, <2>3, <2>4 DEF FitsQuota
<1>4. CASE K # {}
  <2>1. PICK s \in Requests : s \in Holders(pool, m)'
    BY <1>4 DEF HeldCredits, Holders
  <2> DEFINE cost == call[s].credit_cost
             B == {c \in (InFlight \ {s}) \X (1..MaxCost) : c[2] <= call[c[1]].credit_cost}
  <2>2. stage[s] \in {"admitted", "decided"} /\ call[s].tenant \in pool /\ s \in InFlight
    BY <1>2, <2>1
  <2>3. cost \in Nat
    BY <1>0, <2>2, ModerationAssumption DEF TypeOK, Calls, Pending
  <2>4. FitsQuota(tenants, t, cost)
    <3>1. FitsQuota(tenants, call[s].tenant, cost)
      BY <2>2 DEF QuotaInv, CallsPriced, Priced
    <3> HIDE DEF cost
    <3>2. QED
      BY <2>2, <3>1, PoolFits
  <2>5. K \subseteq B \cup ({s} \X (1..cost))
    <3> SUFFICES ASSUME NEW c \in K PROVE c \in B \cup ({s} \X (1..cost))
      OBVIOUS
    <3>1. PICK q \in Holders(pool, m)', i \in 1..MaxCost :
              c = <<q, i>> /\ i <= call[q].credit_cost
      BY <1>1 DEF HeldCredits
    <3>2. q \in Requests
      BY <3>1 DEF Holders
    <3>3. q \in InFlight
      BY <1>2, <3>1, <3>2
    <3>4. CASE q = s
      <4>1. i \in 1..cost
        BY <2>3, <3>1, <3>4
      <4>2. QED
        BY <3>1, <3>4, <4>1
    <3>5. CASE q # s
      BY <3>1, <3>3, <3>5
    <3>6. QED
      BY <3>4, <3>5
  <2>6. IsFiniteSet(B) /\ Cardinality(B) \in Nat /\ Cardinality(B) <= Slack
    BY <1>0, <2>2, OthersHoldSlack DEF QuotaInv
  <2> HIDE DEF B, cost, K
  <2>7. Cardinality(K) \in Nat /\ Cardinality(K) <= Cardinality(B) + cost
    BY <2>3, <2>5, <2>6, AddHolder
  <2> DEFINE b == Cardinality(K) - Slack
  <2>8. b \in Int /\ b <= cost /\ cost \in Int
    BY <2>3, <2>6, <2>7, SlackType
  <2> HIDE DEF b
  <2>9. FitsQuota(tenants, t, b)
    BY <1>0, <2>4, <2>8, FitsLess
  <2>10. QED
    BY <2>9 DEF b, K
<1>5. QED
  BY <1>3, <1>4

LEMMA HeldBoundedStep ==
    ASSUME QuotaInv, [Next]_vars
    PROVE  HeldBounded'
<1>0. TypeOK /\ tenants' = tenants
  BY TenantsFixed DEF QuotaInv
<1> SUFFICES ASSUME NEW t \in DOMAIN tenants, NEW m \in 1..MaxMonth,
                    NEW pool, pool = QuotaScope(tenants, t), ClosedPool(tenants, pool)
             PROVE  FitsQuota(tenants, t, Cardinality(HeldCredits(pool, m)') - Slack)
  BY <1>0 DEF HeldBounded, Slack
<1>1. FitsQuota(tenants, t, Cardinality(HeldCredits(pool, m)) - Slack)
  BY DEF QuotaInv, HeldBounded
<1>2. CASE Unheld
  BY <1>0, <1>1, <1>2, HoldersShrink, ShrinkFits DEF QuotaInv
<1>3. ASSUME NEW r \in Requests, Admit(r)
      PROVE  FitsQuota(tenants, t, Cardinality(HeldCredits(pool, m)') - Slack)
  <2>1. month' = month /\ m \in Nat /\ m > 0
    BY <1>3, ModerationAssumption DEF Admit
  <2>2. CASE m = month /\ call[r].tenant \in pool
    <3>1. FitsQuota(tenants, t, Cardinality(HeldCredits(pool, month)') - Slack)
      BY <1>3, <2>2, AdmitFits
    <3>2. HeldCredits(pool, month)' = HeldCredits(pool, m)'
      BY <2>1, <2>2
    <3>3. QED
      BY <3>1, <3>2
  <2>3. CASE ~ (m = month /\ call[r].tenant \in pool)
    <3>1. stage[r] = "authenticated" /\ call[r] \in Calls /\ call[r].created = 0
      BY <1>0, <1>3 DEF QuotaInv, TypeOK, CallsPriced, Priced, Admit, Pending
    <3>2. /\ call' = [call EXCEPT ![r] = [call[r] EXCEPT !.credit_cost = Price(call[r].payload)]]
          /\ stage' = [stage EXCEPT ![r] = "admitted"]
      BY <1>3 DEF Admit
    <3>3. call'[r].tenant = call[r].tenant /\ call'[r].created = 0
      BY <1>0, <3>1, <3>2 DEF TypeOK, Calls
    <3>4. \A q \in Requests : q # r => call'[q] = call[q] /\ stage'[q] = stage[q]
      BY <1>0, <3>2 DEF TypeOK
    <3>5. r \notin Holders(pool, m)'
      BY <2>1, <2>3, <3>3 DEF Holders
    <3>6. /\ Holders(pool, m)' \subseteq Holders(pool, m)
          /\ \A q \in Holders(pool, m)' : call'[q].credit_cost = call[q].credit_cost
      BY <2>1, <3>4, <3>5 DEF Holders
    <3>7. QED
      BY <1>0, <1>1, <3>6, ShrinkFits
  <2>4. QED
    BY <2>2, <2>3
<1>4. CASE NextMonth
  <2>1. month \in Nat /\ m \in Nat
    BY <1>0, ModerationAssumption DEF TypeOK
  <2>2. CASE m = month + 1
    BY <1>4, <2>1, <2>2, NewMonthFits
  <2>3. CASE m # month + 1
    <3>1. month' = month + 1 /\ call' = call /\ stage' = stage
      BY <1>4 DEF NextMonth
    <3>2. /\ Holders(pool, m)' \subseteq Holders(pool, m)
          /\ \A q \in Holders(pool, m)' : call'[q].credit_cost = call[q].credit_cost
      BY <2>3, <3>1 DEF Holders
    <3>3. QED
      BY <1>0, <1>1, <3>2, ShrinkFits
  <2>4. QED
    BY <2>2, <2>3
<1>5. QED
  BY <1>2, <1>3, <1>4, StepCases

LEMMA QuotaInit == Init => QuotaInv
<1> SUFFICES ASSUME Init PROVE QuotaInv
  OBVIOUS
<1>1. TypeOK
  BY TypeInit
<1>2. Transactions /\ CallsPriced
  BY DEF Init, Transactions, SessionInOrder, RowsOfCall, CallsPriced, Priced, Pending
<1>3. InFlight = {}
  BY DEF Init, InFlight, Pending
<1>4. Cardinality(InFlight) <= MaxInFlight
  BY <1>3, FS_EmptySet, ModerationAssumption
<1>5. ASSUME NEW t \in DOMAIN tenants, NEW m \in 1..MaxMonth,
             NEW pool, pool = QuotaScope(tenants, t), ClosedPool(tenants, pool)
      PROVE  FitsQuota(tenants, t, Cardinality(HeldCredits(pool, m)) - Slack)
  <2>1. HeldCredits(pool, m) = {}
    BY DEF Init, HeldCredits, Holders
  <2>2. Cardinality(HeldCredits(pool, m)) = 0
    BY <2>1, FS_EmptySet
  <2>3. PICK u \in pool : tenants[u].monthly_quota \in Nat
    BY <1>1, <1>5, QuotaTypes DEF ClosedPool
  <2>4. 0 - Slack <= tenants[u].monthly_quota
    BY <2>3, SlackType
  <2>5. QED
    BY <1>5, <2>2, <2>3, <2>4 DEF FitsQuota
<1>6. QED
  BY <1>1, <1>2, <1>4, <1>5 DEF QuotaInv, HeldBounded

LEMMA QuotaStep == QuotaInv /\ [Next]_vars => QuotaInv'
<1> SUFFICES ASSUME QuotaInv, [Next]_vars PROVE QuotaInv'
  OBVIOUS
<1>1. TypeOK'
  BY TypeStep DEF QuotaInv
<1>2. Transactions'
  BY TransactionsStep DEF QuotaInv
<1>3. CallsPriced'
  BY CallsPricedStep DEF QuotaInv
<1>4. (Cardinality(InFlight) <= MaxInFlight)'
  BY InFlightStep DEF QuotaInv
<1>5. HeldBounded'
  BY HeldBoundedStep
<1>6. QED
  BY <1>1, <1>2, <1>3, <1>4, <1>5 DEF QuotaInv

LEMMA QuotaBound == QuotaInv => OvershootBounded
<1> SUFFICES ASSUME QuotaInv,
                    NEW t \in DOMAIN tenants, NEW m \in 1..MaxMonth,
                    NEW pool, pool = QuotaScope(tenants, t), ClosedPool(tenants, pool)
             PROVE  FitsQuota(tenants, t, UsedCredits(pool, m) - Slack)
  BY DEF OvershootBounded, Slack
<1> DEFINE a == Cardinality(HeldCredits(pool, m)) - Slack
           b == UsedCredits(pool, m) - Slack
<1>1. a \in Int /\ b \in Int /\ b <= a
  BY UsedIsHeld, HeldFinite, SlackType
<1>2. FitsQuota(tenants, t, a)
  BY DEF QuotaInv, HeldBounded
<1> HIDE DEF a, b
<1>3. FitsQuota(tenants, t, b)
  BY <1>1, <1>2, FitsLess DEF QuotaInv
<1>4. QED
  BY <1>3 DEF b

\* However the checks and commits of concurrent calls interleave, and whenever
\* the month turns, the charges of a closed pool stay within its quota plus
\* the price of the other calls in flight.
THEOREM ChargesAreBounded == Spec => []OvershootBounded
<1>1. QED
  BY QuotaInit, QuotaStep, QuotaBound, PTL DEF Spec

-----------------------------------------------------------------------------
(* Any closed pool of credits implements QuotaPool.                        *)

CONSTANTS
    members,   \* the workspaces of one pool
    allowance  \* the largest quota of a row in it

\* The pool is one in every table the pipeline may start with.
IsPool ==
    /\ allowance \in Nat
    /\ \A table \in InitialTables :
          /\ ClosedPool(table, members)
          /\ members \subseteq DOMAIN table
          /\ \A t \in members : table[t].monthly_quota <= allowance

Settled == UsedCredits(members, month)
Granted == Grants(members)

Pool == INSTANCE QuotaPool WITH
    Slots <- Requests, MaxQuota <- allowance, quota <- allowance,
    settled <- Settled, granted <- Granted

\* QuotaPool counts as this module does.
LEMMA SameCardinality == \A S : Pool!Cardinality(S) = Cardinality(S)
  BY DEF Cardinality, Pool!Cardinality

Holds(r) == stage[r] \in {"admitted", "decided"} /\ call[r].tenant \in members

\* The credits charged this month, one by one.
SettledCredits == {c \in Charged(members, month) \X (1..MaxCost) : c[2] <= RecordCost(c[1])}

LEMMA GrantedIs ==
    \A r \in Requests : Granted[r] = IF Holds(r) THEN call[r].credit_cost ELSE 0
  BY DEF Granted, Grants, Holds

\* What a call holds is its price.
LEMMA HoldsItsPrice ==
    ASSUME QuotaInv, NEW r \in Requests, Holds(r)
    PROVE  /\ r \in InFlight
           /\ call[r] \in Calls
           /\ call[r].credit_cost = Price(call[r].payload)
           /\ call[r].credit_cost \in 1..MaxCost
           /\ Granted[r] = call[r].credit_cost
<1>1. r \in InFlight /\ call[r] \in Calls /\ call[r].credit_cost = Price(call[r].payload)
  BY DEF QuotaInv, TypeOK, CallsPriced, Priced, Holds, InFlight, Pending
<1>2. QED
  BY <1>1, GrantedIs, ModerationAssumption DEF Calls

\* A step that leaves every grant as it is leaves the function as it is.
LEMMA GrantedKept ==
    ASSUME \A q \in Requests : Granted'[q] = Granted[q]
    PROVE  Granted' = Granted
  BY DEF Granted, Grants

LEMMA GrantedReplaced ==
    ASSUME NEW r \in Requests, NEW n, Granted'[r] = n,
           \A q \in Requests : q # r => Granted'[q] = Granted[q]
    PROVE  Granted' = [Granted EXCEPT ![r] = n]
  BY DEF Granted, Grants

\* Charges depend on the committed rows, their calls and the month only.
LEMMA SettledKept ==
    ASSUME Charged(members, month)' = Charged(members, month),
           \A q \in Charged(members, month) : call'[q] = call[q]
    PROVE  Settled' = Settled
<1>1. \A q \in Charged(members, month) : RecordCost(q)' = RecordCost(q)
  BY DEF RecordCost
<1>2. SettledCredits' = SettledCredits
  BY <1>1 DEF SettledCredits
<1>3. QED
  BY <1>2 DEF Settled, UsedCredits, SettledCredits

\* A call in its handler is not stored, a stored one is done.
LEMMA ChargedAreDone ==
    ASSUME QuotaInv, NEW r \in Charged(members, month)
    PROVE  r \in Requests /\ stage[r] = "done"
  BY DEF QuotaInv, TypeOK, Charged, Transactions, RowsOfCall, Tables

\* A handler that does not commit changes no charge.
LEMMA SettledUntouched ==
    ASSUME QuotaInv, NEW r \in Requests, stage[r] # "done", db' = db, month' = month,
           \A q \in Requests : q # r => call'[q] = call[q]
    PROVE  Settled' = Settled
<1>1. \A q \in Charged(members, month) : call'[q] = call[q]
  BY ChargedAreDone
<1>2. r \notin db["moderation_requests"] /\ db["moderation_requests"] \subseteq Requests
  BY DEF QuotaInv, TypeOK, Transactions, RowsOfCall, Tables
<1>3. Charged(members, month)' = Charged(members, month)
  BY <1>2 DEF Charged
<1>4. QED
  BY <1>1, <1>3, SettledKept

\* The quota check that a call of the pool passes is the pool's.
LEMMA AdmitGrants ==
    ASSUME IsPool, QuotaInv, NEW r \in Requests, Admit(r), call[r].tenant \in members
    PROVE  Pool!Grant(r)
<1> DEFINE cost == Price(call[r].payload)
<1>1. /\ stage[r] = "authenticated" /\ call[r] \in Calls /\ r \in InFlight
      /\ tenants \in InitialTables /\ MaxInFlight \in Nat
  BY ModerationAssumption DEF QuotaInv, TypeOK, Admit, Pending, InFlight
<1>2. cost \in 1..MaxCost
  BY <1>1, ModerationAssumption DEF Calls
<1>3. Granted[r] = 0
  BY <1>1, GrantedIs DEF Holds
<1>4. Cardinality(Pool!Busy) < MaxInFlight
  <2>1. Pool!Busy \subseteq InFlight \ {r}
    BY <1>1, GrantedIs DEF Pool!Busy, Holds, InFlight, Pending
  <2>2. IsFiniteSet(InFlight)
    BY ModerationAssumption, FS_Subset DEF InFlight
  <2>3. /\ IsFiniteSet(InFlight \ {r})
        /\ Cardinality(InFlight \ {r}) = Cardinality(InFlight) - 1
    BY <1>1, <2>2, FS_RemoveElement
  <2>4. Cardinality(Pool!Busy) \in Nat /\ Cardinality(Pool!Busy) <= Cardinality(InFlight \ {r})
    BY <2>1, <2>3, FS_Subset, FS_CardinalityType
  <2>5. Cardinality(InFlight) \in Nat /\ Cardinality(InFlight) <= MaxInFlight
    BY <2>2, FS_CardinalityType DEF QuotaInv
  <2>6. QED
    BY <1>1, <2>3, <2>4, <2>5
<1>5. Settled + cost <= allowance
  <2>1. QuotaScope(tenants, call[r].tenant) = members
    BY <1>1 DEF IsPool, ClosedPool
  <2>2. FitsQuota(tenants, call[r].tenant, Settled + cost)
    BY <2>1 DEF Admit, HasCredits, Settled
  <2> HIDE DEF cost
  <2>3. PICK u \in members : Settled + cost <= tenants[u].monthly_quota
    BY <2>1, <2>2 DEF FitsQuota
  <2>4. tenants[u].monthly_quota <= allowance /\ tenants[u].monthly_quota \in Nat
    <3>1. u \in DOMAIN tenants
      BY <1>1 DEF IsPool
    <3>2. QED
      BY <1>1, <3>1, QuotaTypes DEF IsPool, QuotaInv
  <2>5. Settled \in Nat /\ cost \in Nat /\ allowance \in Nat
    BY <1>2, UsedFinite DEF Settled, QuotaInv, IsPool
  <2>6. QED
    BY <2>3, <2>4, <2>5
<1>6. /\ call' = [call EXCEPT ![r] = [call[r] EXCEPT !.credit_cost = cost]]
      /\ stage' = [stage EXCEPT ![r] = "admitted"]
      /\ db' = db /\ month' = month
  BY DEF Admit
<1> HIDE DEF cost
<1>7. /\ call'[r].tenant = call[r].tenant /\ call'[r].credit_cost = cost
      /\ stage'[r] = "admitted"
      /\ \A q \in Requests : q # r => call'[q] = call[q] /\ stage'[q] = stage[q]
  BY <1>1, <1>6 DEF QuotaInv, TypeOK, Calls
<1>8. Granted' = [Granted EXCEPT ![r] = cost]
  <2>1. Granted'[r] = cost
    BY <1>7 DEF Granted, Grants
  <2>2. \A q \in Requests : q # r => Granted'[q] = Granted[q]
    BY <1>7 DEF Granted, Grants
  <2>3. QED
    BY <2>1, <2>2, GrantedReplaced
<1>9. Settled' = Settled
  BY <1>1, <1>6, <1>7, SettledUntouched
<1>10. QED
  BY <1>2, <1>3, <1>4, <1>5, <1>8, <1>9, SameCardinality DEF Pool!Grant

\* A handler that neither takes nor returns credits.
LEMMA QuietSteps ==
    ASSUME QuotaInv, NEW r \in Requests, stage[r] # "done", db' = db, month' = month,
           \A q \in Requests : q # r => call'[q] = call[q] /\ stage'[q] = stage[q],
           Granted'[r] = Granted[r]
    PROVE  UNCHANGED Pool!vars
<1>1. Settled' = Settled
  BY SettledUntouched
<1>2. \A q \in Requests : q # r => Granted'[q] = Granted[q]
  BY DEF Granted, Grants
<1>3. Granted' = Granted
  BY <1>2, GrantedKept
<1>4. QED
  BY <1>1, <1>3 DEF Pool!vars

\* A call that fails gives up what it holds, one that holds nothing is quiet.
LEMMA FailGivesUp ==
    ASSUME QuotaInv, NEW r \in Requests, Fail(r)
    PROVE  Pool!GiveUp(r) \/ UNCHANGED Pool!vars
<1>1. /\ stage[r] # "done" /\ stage'[r] = "failed" /\ db' = db /\ month' = month
      /\ \A q \in Requests : q # r => call'[q] = call[q] /\ stage'[q] = stage[q]
  BY DEF QuotaInv, TypeOK, Fail, Pending
<1>2. Granted'[r] = 0
  BY <1>1 DEF Granted, Grants
<1>3. CASE Holds(r)
  <2>1. Granted[r] > 0
    BY <1>3, HoldsItsPrice, ModerationAssumption
  <2>2. \A q \in Requests : q # r => Granted'[q] = Granted[q]
    BY <1>1 DEF Granted, Grants
  <2>3. Granted' = [Granted EXCEPT ![r] = 0]
    BY <1>2, <2>2, GrantedReplaced
  <2>4. Settled' = Settled
    BY <1>1, SettledUntouched
  <2>5. QED
    BY <2>1, <2>3, <2>4 DEF Pool!GiveUp
<1>4. CASE ~ Holds(r)
  <2>1. Granted[r] = 0
    BY <1>4, GrantedIs
  <2>2. QED
    BY <1>1, <1>2, <2>1, QuietSteps
<1>5. QED
  BY <1>3, <1>4

\* A commit of this month's row charges exactly what the call held.
LEMMA CommitCharges ==
    ASSUME QuotaInv, NEW r \in Requests, Commit(r), Holds(r), call[r].created = month
    PROVE  Settled' = Settled + Granted[r]
<1> DEFINE cost == call[r].credit_cost
           X == {r} \X (1..cost)
<1>1. cost \in 1..MaxCost /\ cost = Granted[r] /\ MaxCost \in Nat
  BY HoldsItsPrice, ModerationAssumption
<1>2. RecordCost(r) = cost
  BY <1>1 DEF RecordCost, credits_for_record
<1>3. r \notin Charged(members, month)
  BY ChargedAreDone DEF Commit
<1>4. Charged(members, month)' = Charged(members, month) \cup {r}
  <2>1. {"moderation_requests", "moderation_results"} \subseteq session[r]
    BY DEF QuotaInv, Transactions, SessionInOrder, DecisionRows, Commit
  <2>2. /\ db'["moderation_requests"] = db["moderation_requests"] \cup {r}
        /\ db'["moderation_results"] = db["moderation_results"] \cup {r}
    BY <2>1 DEF Commit, Tables
  <2>3. call' = call /\ month' = month
    BY DEF Commit
  <2>4. QED
    BY <2>2, <2>3 DEF Charged, Holds
<1>5. SettledCredits' = SettledCredits \cup X
  <2>1. \A q \in Requests : RecordCost(q)' = RecordCost(q)
    BY DEF Commit, RecordCost
  <2>2. SettledCredits' = {c \in (Charged(members, month) \cup {r}) \X (1..MaxCost) : c[2] <= RecordCost(c[1])}
    BY <1>4 DEF SettledCredits, Commit, RecordCost
  <2>3. {c \in {r} \X (1..MaxCost) : c[2] <= RecordCost(c[1])} = X
    <3> HIDE DEF cost
    <3>1. \A i \in 1..MaxCost : i <= cost <=> i \in 1..cost
      BY <1>1
    <3>2. 1..cost \subseteq 1..MaxCost
      BY <1>1
    <3>3. QED
      BY <1>2, <3>1, <3>2
  <2> HIDE DEF X
  <2>4. QED
    BY <2>2, <2>3 DEF SettledCredits
<1>6. IsFiniteSet(SettledCredits) /\ Cardinality(SettledCredits) = Settled
  <2>1. /\ Charged(members, month) \in SUBSET Requests
        /\ SettledCredits \in SUBSET (Charged(members, month) \X (1..MaxCost))
    BY DEF QuotaInv, TypeOK, Tables, Charged, SettledCredits
  <2>2. QED
    BY <2>1, CreditsFinite DEF Settled, UsedCredits, SettledCredits
<1>7. IsFiniteSet(X) /\ Cardinality(X) = cost
  <2>1. cost \in Nat
    BY <1>1
  <2> HIDE DEF cost
  <2>2. QED
    BY <2>1, OneHolder
<1>8. SettledCredits \cap X = {}
  BY <1>3 DEF SettledCredits
<1>9. Cardinality(SettledCredits \cup X) = Cardinality(SettledCredits) + Cardinality(X)
  <2> HIDE DEF X
  <2>1. QED
    BY <1>6, <1>7, <1>8, DisjointUnion
<1>10. Cardinality(SettledCredits)' = Settled'
  BY DEF Settled, UsedCredits, SettledCredits
<1> HIDE DEF X, cost
<1>11. QED
  BY <1>1, <1>5, <1>6, <1>7, <1>9, <1>10

\* A call settles its grant, or, when its row is dated in an earlier month
\* than the current one, gives it up.
LEMMA CommitSettles ==
    ASSUME QuotaInv, NEW r \in Requests, Commit(r)
    PROVE  Pool!Settle(r) \/ Pool!GiveUp(r) \/ UNCHANGED Pool!vars
<1>1. /\ stage[r] = "decided" /\ stage'[r] = "done" /\ call' = call /\ month' = month
      /\ \A q \in Requests : q # r => stage'[q] = stage[q]
      /\ \A q \in Requests, table \in Tables : q # r => (q \in db'[table] <=> q \in db[table])
  BY DEF QuotaInv, TypeOK, Commit
<1>2. Granted'[r] = 0
  BY <1>1 DEF Granted, Grants
<1>3. Granted' = [Granted EXCEPT ![r] = 0]
  <2>1. \A q \in Requests : q # r => Granted'[q] = Granted[q]
    BY <1>1 DEF Granted, Grants
  <2>2. QED
    BY <1>2, <2>1, GrantedReplaced
<1>4. CASE Holds(r) /\ call[r].created = month
  <2>1. Granted[r] > 0
    BY <1>4, HoldsItsPrice, ModerationAssumption
  <2>2. QED
    BY <1>3, <1>4, <2>1, CommitCharges DEF Pool!Settle
<1>5. CASE ~ (Holds(r) /\ call[r].created = month)
  <2>1. Settled' = Settled
    <3>1. r \notin Charged(members, month) /\ r \notin Charged(members, month)'
      BY <1>1, <1>5, ChargedAreDone DEF Charged, Holds
    <3>2. \A table \in Tables : db[table] \subseteq Requests /\ db'[table] \subseteq Requests
      BY DEF QuotaInv, TypeOK, Commit
    <3>3. Charged(members, month) \subseteq Requests /\ Charged(members, month)' \subseteq Requests
      BY <3>2 DEF Charged, Tables
    <3>4. \A q \in Requests : q # r =>
              (q \in Charged(members, month)' <=> q \in Charged(members, month))
      BY <1>1 DEF Charged, Tables
    <3>5. Charged(members, month)' = Charged(members, month)
      BY <3>1, <3>3, <3>4
    <3>6. QED
      BY <1>1, <3>5, SettledKept
  <2>2. CASE Holds(r)
    <3>1. Granted[r] > 0
      BY <2>2, HoldsItsPrice, ModerationAssumption
    <3>2. QED
      BY <1>3, <2>1, <3>1 DEF Pool!GiveUp
  <2>3. CASE ~ Holds(r)
    <3>1. Granted[r] = 0
      BY <2>3, GrantedIs
    <3>2. Granted' = Granted
      BY <1>3, <3>1 DEF Granted, Grants
    <3>3. QED
      BY <2>1, <3>2 DEF Pool!vars
  <2>4. QED
    BY <2>2, <2>3
<1>6. QED
  BY <1>4, <1>5

\* No row is dated in a month to come, so the next one starts with no charge.
LEMMA NextMonthRestarts ==
    ASSUME QuotaInv, NextMonth
    PROVE  Pool!NewMonth
<1>1. month' = month + 1 /\ month \in Nat /\ call' = call /\ stage' = stage /\ db' = db
  BY ModerationAssumption DEF QuotaInv, TypeOK, NextMonth
<1>2. Charged(members, month)' = {}
  <2> SUFFICES ASSUME NEW q \in Charged(members, month)' PROVE FALSE
    OBVIOUS
  <2>1. q \in Requests /\ stage[q] = "done" /\ call[q].created = month + 1
    BY <1>1 DEF Charged, QuotaInv, TypeOK, Transactions, RowsOfCall, Tables
  <2>2. call[q].created \in Nat /\ call[q].created <= month
    BY <2>1 DEF QuotaInv, TypeOK, Calls, CallsPriced, Priced
  <2>3. QED
    BY <1>1, <2>1, <2>2
<1>3. SettledCredits' = {}
  BY <1>2 DEF SettledCredits
<1>4. Settled' = 0
  <2>1. Settled' = Cardinality(SettledCredits')
    BY DEF Settled, UsedCredits, SettledCredits
  <2>2. QED
    BY <1>3, <2>1, FS_EmptySet
<1>5. Granted' = Granted
  BY <1>1 DEF Granted, Grants
<1>6. QED
  BY <1>4, <1>5 DEF Pool!NewMonth

\* The other steps of a handler neither take nor return credits.
LEMMA HandlerSteps ==
    ASSUME QuotaInv, NEW r \in Requests,
           \/ \E t \in Tenants, p \in Payloads : Authenticate(r, t, p)
           \/ RefuseUnmetered(r) \/ RefuseOverQuota(r)
           \/ Admit(r) /\ call[r].tenant \notin members
           \/ \E action \in Actions : Decide(r, action)
           \/ CreateRequest(r) \/ CreateResult(r) \/ CreateCase(r) \/ LogEvent(r)
    PROVE  UNCHANGED Pool!vars
<1>0. stage \in [Requests -> Stages] /\ call \in [Requests -> Calls \cup {NoCall}]
      /\ (stage[r] \in Pending \cup {"done"} => call[r] \in Calls)
  BY DEF QuotaInv, TypeOK
<1>1. CASE \E t \in Tenants, p \in Payloads : Authenticate(r, t, p)
  <2>1. /\ stage[r] = "new" /\ stage'[r] = "authenticated" /\ db' = db /\ month' = month
        /\ \A q \in Requests : q # r => call'[q] = call[q] /\ stage'[q] = stage[q]
    BY <1>0, <1>1 DEF Authenticate
  <2>2. Granted'[r] = 0 /\ Granted[r] = 0
    BY <2>1 DEF Granted, Grants
  <2>3. QED
    BY <2>1, <2>2, QuietSteps
<1>2. CASE RefuseUnmetered(r) \/ RefuseOverQuota(r)
  <2>1. /\ stage[r] = "authenticated" /\ stage'[r] = "refused" /\ db' = db /\ month' = month
        /\ \A q \in Requests : q # r => call'[q] = call[q] /\ stage'[q] = stage[q]
    BY <1>0, <1>2 DEF RefuseUnmetered, RefuseOverQuota
  <2>2. Granted'[r] = 0 /\ Granted[r] = 0
    BY <2>1 DEF Granted, Grants
  <2>3. QED
    BY <2>1, <2>2, QuietSteps
<1>3. CASE Admit(r) /\ call[r].tenant \notin members
  <2>1. /\ stage[r] = "authenticated" /\ stage'[r] = "admitted" /\ db' = db /\ month' = month
        /\ \A q \in Requests : q # r => call'[q] = call[q] /\ stage'[q] = stage[q]
    BY <1>0, <1>3 DEF Admit
  <2>2. call'[r].tenant = call[r].tenant
    <3>1. call[r] \in Calls
      BY <1>0, <2>1 DEF Pending
    <3>2. call'[r] = [call[r] EXCEPT !.credit_cost = Price(call[r].payload)]
      BY <1>0, <1>3 DEF Admit
    <3>3. QED
      BY <3>1, <3>2 DEF Calls
  <2>3. Granted'[r] = 0 /\ Granted[r] = 0
    BY <1>3, <2>1, <2>2 DEF Granted, Grants
  <2>4. QED
    BY <2>1, <2>3, QuietSteps
<1>4. CASE \E action \in Actions : Decide(r, action)
  <2>1. PICK action \in Actions : Decide(r, action)
    BY <1>4
  <2>2. /\ stage[r] = "admitted" /\ stage'[r] = "decided" /\ db' = db /\ month' = month
        /\ \A q \in Requests : q # r => call'[q] = call[q] /\ stage'[q] = stage[q]
        /\ call'[r] = [call[r] EXCEPT !.action = action]
    BY <1>0, <2>1 DEF Decide
  <2>3. call[r] \in Calls
    BY <1>0, <2>2 DEF Pending
  <2>4. call'[r].tenant = call[r].tenant /\ call'[r].credit_cost = call[r].credit_cost
    BY <2>2, <2>3 DEF Calls
  <2>5. Granted'[r] = Granted[r]
    BY <2>2, <2>4 DEF Granted, Grants
  <2>6. QED
    BY <2>2, <2>5, QuietSteps
<1>5. CASE CreateRequest(r)
  <2>1. /\ stage[r] = "decided" /\ stage' = stage /\ db' = db /\ month' = month
        /\ \A q \in Requests : q # r => call'[q] = call[q]
        /\ call'[r] = [call[r] EXCEPT !.created = month]
    BY <1>0, <1>5 DEF CreateRequest, Flush
  <2>2. call[r] \in Calls
    BY <1>0, <2>1 DEF Pending
  <2>3. call'[r].tenant = call[r].tenant /\ call'[r].credit_cost = call[r].credit_cost
    BY <2>1, <2>2 DEF Calls
  <2>4. Granted'[r] = Granted[r]
    BY <2>1, <2>3 DEF Granted, Grants
  <2>5. QED
    BY <2>1, <2>4, QuietSteps
<1>6. CASE CreateResult(r) \/ CreateCase(r) \/ LogEvent(r)
  <2>1. stage[r] = "decided" /\ stage' = stage /\ db' = db /\ month' = month /\ call' = call
    BY <1>6 DEF CreateResult, CreateCase, LogEvent, Flush
  <2>2. Granted'[r] = Granted[r]
    BY <2>1 DEF Granted, Grants
  <2>3. QED
    BY <2>1, <2>2, QuietSteps
<1>7. QED
  BY <1>1, <1>2, <1>3, <1>4, <1>5, <1>6

LEMMA PoolInit == IsPool /\ Init => Pool!Init
<1> SUFFICES ASSUME IsPool, Init PROVE Pool!Init
  OBVIOUS
<1>1. Granted = [r \in Requests |-> 0]
  BY DEF Init, Granted, Grants
<1>2. Charged(members, month) = {}
  BY DEF Init, Charged, Tables
<1>3. SettledCredits = {}
  BY <1>2 DEF SettledCredits
<1>4. Settled = 0
  BY <1>3, FS_EmptySet DEF Settled, UsedCredits, SettledCredits
<1>5. allowance \in 0..allowance
  BY DEF IsPool
<1>6. QED
  BY <1>1, <1>4, <1>5 DEF Pool!Init

LEMMA PoolStep == IsPool /\ QuotaInv /\ [Next]_vars => [Pool!Next]_(Pool!vars)
<1> SUFFICES ASSUME IsPool, QuotaInv, [Next]_vars PROVE Pool!Next \/ UNCHANGED Pool!vars
  OBVIOUS
<1>1. ASSUME NEW r \in Requests, Admit(r), call[r].tenant \in members
      PROVE  Pool!Next
  BY <1>1, AdmitGrants DEF Pool!Next
<1>2. ASSUME NEW r \in Requests, Commit(r) \/ Fail(r)
      PROVE  Pool!Next \/ UNCHANGED Pool!vars
  BY <1>2, CommitSettles, FailGivesUp DEF Pool!Next
<1>3. CASE NextMonth
  BY <1>3, NextMonthRestarts DEF Pool!Next
<1>4. CASE UNCHANGED vars
  <2>1. Granted' = Granted
    BY <1>4 DEF vars, Granted, Grants
  <2>2. Charged(members, month)' = Charged(members, month)
    BY <1>4 DEF vars, Charged
  <2>3. Settled' = Settled
    BY <1>4, <2>2, SettledKept DEF vars
  <2>4. QED
    BY <2>1, <2>3 DEF Pool!vars
<1>5. QED
  BY <1>1, <1>2, <1>3, <1>4, HandlerSteps DEF Next, Handle

\* Authentication, prices, months, transactions and failures of the handlers
\* come down to what QuotaPool says of one pool: a check that counts settled
\* credits, and grants that are settled in full or given up.
THEOREM PoolsImplementQuotaPool ==
    ASSUME IsPool
    PROVE  Spec => Pool!Spec
<1>1. Init => Pool!Init
  BY PoolInit
<1>2. QuotaInv /\ [Next]_vars => [Pool!Next]_(Pool!vars)
  BY PoolStep
<1>3. QED
  BY <1>1, <1>2, QuotaInit, QuotaStep, PTL DEF Spec, Pool!Spec
=============================================================================
