----------------------------- MODULE Moderation -----------------------------
(***************************************************************************)
(* The moderation pipeline (app/services/moderation_service.py): a call is *)
(* authenticated, priced and checked against the monthly quota, scored and *)
(* decided, and its rows are written in one database transaction.  Calls   *)
(* of several workspaces are in progress at once: a handler gives up its   *)
(* event loop while it awaits inference or transcription, and the API runs *)
(* as several processes over one database.  Each action is what one        *)
(* handler does between two points where another one can act.              *)
(*                                                                         *)
(* The table of workspaces is owned by the modules about billing and       *)
(* workspaces; this one reads it and leaves it unchanged.                  *)
(***************************************************************************)
EXTENDS Integers, FiniteSets, Tenancy, UsageCredits

CONSTANTS
    Requests,     \* moderation calls, each with the id its row would get
    Payloads,     \* what can be submitted: see Payload below
    CaseActions,  \* decisions that open a review case: review and block
    NoCall,       \* the local values of a handler that is not running
    InitialTables,\* the workspace tables a behaviour may start with
    MaxCost,      \* bound: price of the most expensive payload
    MaxInFlight,  \* bound: calls in progress at once, over all processes
    MaxMonth      \* bound: months the clock goes through

VARIABLES
    tenants,  \* slug -> row of the tenants table
    month,    \* the calendar month of the database server's clock
    stage,    \* how far the handler of each call is
    call,     \* its local values
    session,  \* rows it has flushed in its open transaction
    db        \* committed rows: table -> ids of the calls that have one

vars == <<tenants, month, stage, call, session, db>>

-----------------------------------------------------------------------------
Payload == [modality : Modalities, uploaded : BOOLEAN, duration : Durations]

Actions == {"allow"} \cup CaseActions

Tables == {"moderation_requests", "moderation_results", "review_cases", "audit_events"}

Stages == {"new", "authenticated", "admitted", "decided", "done", "refused", "failed"}

Pending == {"authenticated", "admitted", "decided"}

Price(p) == credits_for_usage(p.modality, p.duration)

\* An uploaded recording must state its duration, since it is billed by it.
Unmetered(p) == p.modality \in TimedModalities /\ p.uploaded /\ p.duration = NoDuration

ASSUME ModerationAssumption ==
    /\ IsFiniteSet(Requests)
    /\ "allow" \notin CaseActions
    /\ Payloads \subseteq Payload
    /\ \A table \in InitialTables :
          \E slugs \in SUBSET Tenants : table \in [slugs -> QuotaRow]
    /\ MaxCost \in Nat \ {0}
    /\ \A p \in Payloads : Price(p) \in 1..MaxCost
    /\ MaxInFlight \in Nat \ {0}
    /\ MaxMonth \in Nat \ {0}

Calls == [tenant : Tenants, payload : Payloads, credit_cost : 0..MaxCost,
          action : Actions, created : 0..MaxMonth]

TypeOK ==
    /\ tenants \in InitialTables
    /\ month \in 1..MaxMonth
    /\ stage \in [Requests -> Stages]
    /\ call \in [Requests -> Calls \cup {NoCall}]
    /\ \A r \in Requests : stage[r] \in Pending \cup {"done"} => call[r] \in Calls
    /\ session \in [Requests -> SUBSET Tables]
    /\ db \in [Tables -> SUBSET Requests]

Init ==
    /\ tenants \in InitialTables
    /\ month = 1
    /\ stage = [r \in Requests |-> "new"]
    /\ call = [r \in Requests |-> NoCall]
    /\ session = [r \in Requests |-> {}]
    /\ db = [table \in Tables |-> {}]

InFlight == {r \in Requests : stage[r] \in Pending}

-----------------------------------------------------------------------------
(* Monthly usage.                                                          *)

\* Mutant: the query does not restrict the workspaces.
ChargedToAnyone(pool, m) ==
    {r \in db["moderation_requests"] \cap db["moderation_results"] : call[r].created = m}

\* list_request_results_between_tenants: stored calls of the scope, created
\* in the month and joined with their result.
Charged(pool, m) ==
    {r \in db["moderation_requests"] \cap db["moderation_results"] :
        call[r].tenant \in pool /\ call[r].created = m}

\* What a stored row adds to the sum.
RecordCost(r) ==
    credits_for_record(call[r].payload.modality, call[r].credit_cost, call[r].payload.duration)

\* sum(credits_for_record(...)), written as the number of single credits.
UsedCredits(pool, m) ==
    Cardinality({c \in Charged(pool, m) \X (1..MaxCost) : c[2] <= RecordCost(c[1])})

-----------------------------------------------------------------------------
(* The handler of one call.                                                *)

\* get_moderation_tenant: runs in the thread pool, before the handler starts.
Authenticate(r, t, p) ==
    /\ stage[r] = "new"
    /\ Cardinality(InFlight) < MaxInFlight
    /\ t \in DOMAIN tenants
    /\ tenants[t].is_active
    /\ stage' = [stage EXCEPT ![r] = "authenticated"]
    /\ call' = [call EXCEPT ![r] = [tenant |-> t, payload |-> p, credit_cost |-> 0,
                                    action |-> "allow", created |-> 0]]
    /\ UNCHANGED <<tenants, month, session, db>>

\* 422 from moderate_audio and moderate_video.
RefuseUnmetered(r) ==
    /\ stage[r] = "authenticated"
    /\ Unmetered(call[r].payload)
    /\ stage' = [stage EXCEPT ![r] = "refused"]
    /\ call' = [call EXCEPT ![r] = NoCall]
    /\ UNCHANGED <<tenants, month, session, db>>

\* Mutant: the check compares what is used and not what would be.
HasCreditsBefore(r) ==
    LET t == call[r].tenant
    IN  FitsQuota(tenants, t, UsedCredits(QuotaScope(tenants, t), month) + 1)

\* The check of _enforce_monthly_quota, with the usage of this instant.
HasCredits(r) ==
    LET t == call[r].tenant
    IN  FitsQuota(tenants, t,
                  UsedCredits(QuotaScope(tenants, t), month) + Price(call[r].payload))

\* Mutant: the price is not kept for the row that is written later.
AdmitUnpriced(r) ==
    /\ stage[r] = "authenticated"
    /\ ~ Unmetered(call[r].payload)
    /\ HasCredits(r)
    /\ stage' = [stage EXCEPT ![r] = "admitted"]
    /\ UNCHANGED <<tenants, month, call, session, db>>

Admit(r) ==
    /\ stage[r] = "authenticated"
    /\ ~ Unmetered(call[r].payload)
    /\ HasCredits(r)
    /\ stage' = [stage EXCEPT ![r] = "admitted"]
    /\ call' = [call EXCEPT ![r].credit_cost = Price(call[r].payload)]
    /\ UNCHANGED <<tenants, month, session, db>>

\* 402 from _enforce_monthly_quota.
RefuseOverQuota(r) ==
    /\ stage[r] = "authenticated"
    /\ ~ Unmetered(call[r].payload)
    /\ ~ HasCredits(r)
    /\ stage' = [stage EXCEPT ![r] = "refused"]
    /\ call' = [call EXCEPT ![r] = NoCall]
    /\ UNCHANGED <<tenants, month, session, db>>

\* The awaited inference or scan returns and the policy gives an action; the
\* scores are data here, module Policy is about them.
Decide(r, action) ==
    /\ stage[r] = "admitted"
    /\ stage' = [stage EXCEPT ![r] = "decided"]
    /\ call' = [call EXCEPT ![r].action = action]
    /\ UNCHANGED <<tenants, month, session, db>>

\* _persist_response: four flushes in one transaction, then the commit.
Flush(r, table, before) ==
    /\ stage[r] = "decided"
    /\ session[r] = before
    /\ session' = [session EXCEPT ![r] = @ \cup {table}]
    /\ UNCHANGED <<tenants, month, stage, db>>

\* Mutant: the row is dated in the month after.
CreateRequestLate(r) ==
    /\ Flush(r, "moderation_requests", {})
    /\ call' = [call EXCEPT ![r].created = month + 1]

\* The row is dated when it is flushed, not when its price was checked.
CreateRequest(r) ==
    /\ Flush(r, "moderation_requests", {})
    /\ call' = [call EXCEPT ![r].created = month]

CreateResult(r) ==
    /\ Flush(r, "moderation_results", {"moderation_requests"})
    /\ UNCHANGED call

\* Mutant: opening a review case commits, as other handlers of cases do.
CreateCaseCommitting(r) ==
    /\ stage[r] = "decided"
    /\ session[r] = {"moderation_requests", "moderation_results"}
    /\ call[r].action \in CaseActions
    /\ session' = [session EXCEPT ![r] = @ \cup {"review_cases"}]
    /\ db' = [table \in Tables |-> IF table \in session'[r] THEN db[table] \cup {r} ELSE db[table]]
    /\ UNCHANGED <<tenants, month, stage, call>>

CreateCase(r) ==
    /\ Flush(r, "review_cases", {"moderation_requests", "moderation_results"})
    /\ call[r].action \in CaseActions
    /\ UNCHANGED call

\* All the rows of a decided call except its audit event.
DecisionRows(r) ==
    {"moderation_requests", "moderation_results"}
        \cup (IF call[r].action \in CaseActions THEN {"review_cases"} ELSE {})

LogEvent(r) ==
    /\ Flush(r, "audit_events", DecisionRows(r))
    /\ UNCHANGED call

Commit(r) ==
    /\ stage[r] = "decided"
    /\ "audit_events" \in session[r]
    /\ db' = [table \in Tables |-> IF table \in session[r] THEN db[table] \cup {r} ELSE db[table]]
    /\ session' = [session EXCEPT ![r] = {}]
    /\ stage' = [stage EXCEPT ![r] = "done"]
    /\ UNCHANGED <<tenants, month, call>>

\* An exception, a lost database connection or the death of the process: the
\* session is closed without a commit.
Fail(r) ==
    /\ stage[r] \in Pending
    /\ stage' = [stage EXCEPT ![r] = "failed"]
    /\ call' = [call EXCEPT ![r] = NoCall]
    /\ session' = [session EXCEPT ![r] = {}]
    /\ UNCHANGED <<tenants, month, db>>

\* The calendar moves on whatever the handlers are doing.
NextMonth ==
    /\ month < MaxMonth
    /\ month' = month + 1
    /\ UNCHANGED <<tenants, stage, call, session, db>>

-----------------------------------------------------------------------------
Handle(r) ==
    \/ RefuseUnmetered(r)
    \/ Admit(r)
    \/ RefuseOverQuota(r)
    \/ \E action \in Actions : Decide(r, action)
    \/ CreateRequest(r)
    \/ CreateResult(r)
    \/ CreateCase(r)
    \/ LogEvent(r)
    \/ Commit(r)

Next ==
    \/ \E r \in Requests :
          \/ \E t \in Tenants, p \in Payloads : Authenticate(r, t, p)
          \/ Handle(r)
          \/ Fail(r)
    \/ NextMonth

Spec == Init /\ [][Next]_vars

-----------------------------------------------------------------------------
(* Properties.                                                             *)

\* No month's charges of a pool exceed its quota by more than the price of
\* the other calls in flight: the race of _enforce_monthly_quota with the
\* commit of _persist_response, and calls that cross the month boundary
\* between the two, cost at most that.
OvershootBounded ==
    \A t \in DOMAIN tenants, m \in 1..MaxMonth :
        LET pool == QuotaScope(tenants, t)
        IN  ClosedPool(tenants, pool) =>
               FitsQuota(tenants, t, UsedCredits(pool, m) - (MaxInFlight - 1) * MaxCost)

\* The documented promise (docs/production_readiness.md): requests that do
\* not fit the monthly quota are rejected, so the charges stay within it.
WithinQuota ==
    \A t \in DOMAIN tenants, m \in 1..MaxMonth :
        LET pool == QuotaScope(tenants, t)
        IN  ClosedPool(tenants, pool) => FitsQuota(tenants, t, UsedCredits(pool, m))

\* A finished call left its request, its result, its audit event and, when it
\* was not allowed, its review case; a call that was refused or failed, at
\* whichever of the flushes of _persist_response, left none and is not charged.
WholeDecisionOrNothing ==
    \A r \in Requests :
        {table \in Tables : r \in db[table]} =
            IF stage[r] = "done" THEN DecisionRows(r) \cup {"audit_events"} ELSE {}

\* What module QuotaPool calls granted: a call holds its price from its
\* admission to its commit or failure.
Grants(pool) ==
    [r \in Requests |->
        IF stage[r] \in {"admitted", "decided"} /\ call[r].tenant \in pool
        THEN call[r].credit_cost ELSE 0]
=============================================================================
