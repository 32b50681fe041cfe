---------------------------- MODULE PolicyUpdates ---------------------------
(***************************************************************************)
(* Changing a workspace's policy: PUT /policies/me (app/main.py,           *)
(* app/services/policy_service.py).  The handler reads the policy row,     *)
(* writes it back in one transaction, reads the result to answer with it,  *)
(* and logs the change in a second transaction.  Handlers of several       *)
(* processes interleave at these database calls.                           *)
(***************************************************************************)
EXTENDS Policy, DashboardHandlers

CONSTANTS
    Updates,     \* request bodies sent
    InitialRows, \* policy rows a behaviour may start with
    NoUpdate     \* local values of a handler that has not started

Update == [thresholds : [Categories -> StoredOverride \cup {Keep}],
           review_enabled : BOOLEAN \cup {Keep}, protected_mode : BOOLEAN \cup {Keep}]

\* Rows go back to validated overrides, some from before the lower limit.
ASSUME UpdatesAssumption ==
    /\ Updates \subseteq Update
    /\ InitialRows \subseteq PolicyRow
    /\ \A r \in InitialRows, c \in Categories : InOrder(r.thresholds[c])

VARIABLES
    row,     \* the committed row of tenant_policies
    stage,   \* how far each handler is
    update,  \* the request body it handles
    loaded,  \* the row as its session read it
    audit    \* handlers with a policy.updated event

vars == <<row, stage, update, loaded, audit>>

Stages == {"new", "loaded", "stored", "answering", "done", "refused", "failed", "died"}

TypeOK ==
    /\ row \in PolicyRow
    /\ stage \in [Handlers -> Stages]
    /\ update \in [Handlers -> Updates \cup {NoUpdate}]
    /\ loaded \in [Handlers -> PolicyRow \cup {NoUpdate}]
    /\ \A h \in Handlers : stage[h] = "loaded" => update[h] \in Update /\ loaded[h] \in PolicyRow
    /\ audit \subseteq Handlers

Init ==
    /\ row \in InitialRows
    /\ stage = [h \in Handlers |-> "new"]
    /\ update = [h \in Handlers |-> NoUpdate]
    /\ loaded = [h \in Handlers |-> NoUpdate]
    /\ audit = {}

\* Mutant: the order of the two thresholds is not validated.
AcceptsUnordered(u) ==
    \A c \in Categories : u.thresholds[c] # Keep =>
        \A level \in Levels : u.thresholds[c][level] \in (MinThreshold..Top) \cup {Unset}

\* The request body passes the schemas TenantPolicyUpdate and PolicyOverride.
Accepts(u) == \A c \in Categories : u.thresholds[c] \in Override \cup {Keep}

\* Mutant: categories the update does not name are overwritten too.
MergedUnnamed(thresholds, u) == u.thresholds

\* The whole override of a category is replaced: a threshold the update does
\* not state falls back to the default.
Merged(thresholds, u) ==
    [c \in Categories |-> IF u.thresholds[c] = Keep THEN thresholds[c] ELSE u.thresholds[c]]

\* 422 from the schema.
Refuse(h, u) ==
    /\ stage[h] = "new"
    /\ ~ Accepts(u)
    /\ stage' = [stage EXCEPT ![h] = "refused"]
    /\ UNCHANGED <<row, update, loaded, audit>>

Load(h, u) ==
    /\ stage[h] = "new"
    /\ Accepts(u)
    /\ stage' = [stage EXCEPT ![h] = "loaded"]
    /\ update' = [update EXCEPT ![h] = u]
    /\ loaded' = [loaded EXCEPT ![h] = row]
    /\ UNCHANGED <<row, audit>>

\* The row the handler assigns to the object it loaded.
Requested(before, u) ==
    LET flag(old, asked) == IF asked = Keep THEN old ELSE asked
    IN  [thresholds |-> Merged(before.thresholds, u),
         review_enabled |-> flag(before.review_enabled, u.review_enabled),
         protected_mode |-> flag(before.protected_mode, u.protected_mode)]

\* Mutant: the session writes back every column.
ColumnAlways(current, before, after) == after

\* The column an UPDATE leaves behind: the session writes only the columns
\* whose value differs from the one it loaded.
Column(current, before, after) == IF after # before THEN after ELSE current

Store(h) ==
    /\ stage[h] = "loaded"
    /\ LET after == Requested(loaded[h], update[h])
       IN  row' = [column \in DOMAIN row |-> Column(row[column], loaded[h][column], after[column])]
    /\ stage' = [stage EXCEPT ![h] = "stored"]
    /\ UNCHANGED <<update, loaded, audit>>

\* refresh and get_policy_for_tenant, for the answer.
Reload(h) ==
    /\ stage[h] = "stored"
    /\ Loadable(row)
    /\ stage' = [stage EXCEPT ![h] = "answering"]
    /\ UNCHANGED <<row, update, loaded, audit>>

\* 500: the stored policy does not validate when it is read back.
ReloadFails(h) ==
    /\ stage[h] = "stored"
    /\ ~ Loadable(row)
    /\ stage' = [stage EXCEPT ![h] = "failed"]
    /\ UNCHANGED <<row, update, loaded, audit>>

LogEvent(h) ==
    /\ stage[h] = "answering"
    /\ audit' = audit \cup {h}
    /\ stage' = [stage EXCEPT ![h] = "done"]
    /\ UNCHANGED <<row, update, loaded>>

\* The process dies or loses its database; what is committed stays.
Die(h) ==
    /\ stage[h] \in {"loaded", "stored", "answering"}
    /\ stage' = [stage EXCEPT ![h] = "died"]
    /\ UNCHANGED <<row, update, loaded, audit>>

Next ==
    \E h \in Handlers :
        \/ \E u \in Updates : Refuse(h, u) \/ Load(h, u)
        \/ Store(h)
        \/ Reload(h)
        \/ ReloadFails(h)
        \/ LogEvent(h)
        \/ Die(h)

Spec == Init /\ [][Next]_vars

-----------------------------------------------------------------------------
(* Properties.                                                             *)

\* A policy that clients have stored can be read back, so that no call of the
\* workspace fails on it, unless a category has one threshold and leaves the
\* other to its default: only then do the schemas of PUT /policies/me and
\* get_policy_for_tenant's disagree about the order of the two.
StoredPolicyLoadable ==
    (\A c \in Categories :
        (row.thresholds[c]["review"] = Unset) = (row.thresholds[c]["block"] = Unset))
    => Loadable(row)

\* In every policy that can be stored, protected mode makes no decision more
\* lenient than the same policy without it.
ProtectedModeStricter ==
    \A scores \in [Categories -> 0..Top] :
        LET action(mode) == evaluate_policy(scores, [row EXCEPT !.protected_mode = mode])
        IN  Severity[action(FALSE)] <= Severity[action(TRUE)]

\* A policy that sends content to review when one score is as high as this
\* one never lets it pass when the scores are higher.
HigherScoresNeverSofter ==
    \A low, high \in [Categories -> 0..Top] :
        (\A c \in Categories : low[c] <= high[c]) =>
            Severity[evaluate_policy(low, row)] <= Severity[evaluate_policy(high, row)]

\* An update that does not mention a flag leaves its stored value alone, even
\* if another handler changed it after this one read the row: a session writes
\* only what it changed.
OthersFlagsKept ==
    [][\A h \in Handlers : Store(h) =>
          /\ update[h].review_enabled = Keep => row'.review_enabled = row.review_enabled
          /\ update[h].protected_mode = Keep => row'.protected_mode = row.protected_mode]_vars

\* docs/production_readiness.md: "Policy updates are written to the audit log."
\* Once its request is answered, a stored change has its event.
UpdatesAudited ==
    \A h \in Handlers :
        stage[h] \in {"done", "failed"} /\ Requested(loaded[h], update[h]) # loaded[h]
            => h \in audit
=============================================================================
