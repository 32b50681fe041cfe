------------------------------ MODULE ApiKeys -------------------------------
(***************************************************************************)
(* The API keys and dashboard sessions of one workspace (app/auth.py,      *)
(* app/main.py, app/repositories/tenants.py) and what a restart does to    *)
(* them (app/bootstrap.py).  A call is authenticated in a thread and a     *)
(* transaction of its own; its handler then reads the keys and commits its *)
(* changes.  Calls of several threads and processes interleave at these    *)
(* points.  A row of api_keys is named by its raw key: key_hash is unique. *)
(***************************************************************************)
EXTENDS Integers, FiniteSets

CONSTANTS
    Keys,        \* raw keys
    BootScopes,  \* raw keys of bootstrap_default_keys and _admin_keys -> scopes
    Calls,       \* management calls, each handled once
    Limit,       \* max_active_api_keys_per_workspace, 0 for none
    MaxInFlight, \* bound: calls in progress at once, over all processes
    NoKey        \* no key: local values of a call that has none yet

Scopes == {"moderation", "dashboard", "policy:write"}

\* What get_policy_admin_tenant requires of the key or the session.
AdminScopes == {"dashboard", "policy:write"}

\* validate_scopes
Grantable == {s \in SUBSET Scopes : s # {} /\ ("policy:write" \in s => "dashboard" \in s)}

\* The id that sessions opened through Clerk have in place of a key's.
Clerk == "clerk"

ASSUME ApiKeysAssumption ==
    /\ IsFiniteSet(Keys) /\ IsFiniteSet(Calls)
    /\ DOMAIN BootScopes \subseteq Keys /\ Cardinality(DOMAIN BootScopes) <= 2
    /\ \A k \in DOMAIN BootScopes : BootScopes[k] \in Grantable
    /\ Limit \in Nat
    /\ MaxInFlight \in Nat \ {0}

VARIABLES
    keys,      \* rows of api_keys: raw key -> scopes, is_active, last_used_at set
    workspace, \* tenants.is_active
    sessions,  \* api_key_id of the session tokens that have not expired
    up,        \* the service has started
    stage,     \* how far each call is
    caller,    \* api_key_id of the call
    target,    \* the key a call is about
    loaded,    \* what the handler's session read of it, or of the caller's
    boot,      \* the workspace is one of the bootstrap defaults
    surplus    \* history: rotations that replaced a key already inactive

vars == <<keys, workspace, sessions, up, stage, caller, target, loaded, boot, surplus>>

KeyRow == [scopes : Grantable, is_active : BOOLEAN, used : BOOLEAN]

Stages == {"new", "authenticating", "authenticated", "creating", "deactivating",
           "rotating", "done", "refused", "died"}

TypeOK ==
    /\ DOMAIN keys \subseteq Keys
    /\ \A k \in DOMAIN keys : keys[k] \in KeyRow
    /\ workspace \in BOOLEAN /\ up \in BOOLEAN /\ boot \in BOOLEAN
    /\ sessions \subseteq Keys \cup {Clerk}
    /\ stage \in [Calls -> Stages]
    /\ caller \in [Calls -> Keys \cup {Clerk, NoKey}]
    /\ target \in [Calls -> Keys \cup {NoKey}]
    /\ loaded \in [Calls -> KeyRow \cup {NoKey}]
    /\ surplus \in Nat

ActiveKeys == {k \in DOMAIN keys : keys[k].is_active}

InFlight == {c \in Calls : stage[c] \notin {"new", "done", "refused", "died"}}

\* A row with these scopes, by insert or over an older one.
With(table, k, scopes) ==
    [x \in DOMAIN table \cup {k} |->
        IF x = k THEN [scopes |-> scopes, is_active |-> TRUE, used |-> FALSE] ELSE table[x]]

\* The configured keys of the workspace.
BootKeys == IF boot THEN DOMAIN BootScopes ELSE {}

\* A default workspace gets its keys from the first start.  onboard_tenant
\* creates the first two keys of any other, and opens a session.
Init ==
    /\ boot \in BOOLEAN
    /\ IF boot THEN keys = [k \in {} |-> k] /\ sessions = {}
       ELSE \E admin, server \in Keys \ DOMAIN BootScopes :
               /\ admin # server
               /\ keys = With(With([k \in {} |-> k], admin, AdminScopes), server, {"moderation"})
               /\ sessions = {admin}
    /\ workspace = TRUE
    /\ up = FALSE
    /\ stage = [c \in Calls |-> "new"]
    /\ caller = [c \in Calls |-> NoKey]
    /\ target = [c \in Calls |-> NoKey]
    /\ loaded = [c \in Calls |-> NoKey]
    /\ surplus = 0

-----------------------------------------------------------------------------
(* require_authenticated_tenant                                            *)

Begin(c) ==
    /\ up
    /\ stage[c] = "new"
    /\ Cardinality(InFlight) < MaxInFlight

\* get_api_key and the checks on what it finds.
ReadKey(c, k) ==
    /\ Begin(c)
    /\ workspace
    /\ k \in ActiveKeys
    /\ AdminScopes \subseteq keys[k].scopes
    /\ stage' = [stage EXCEPT ![c] = "authenticating"]
    /\ caller' = [caller EXCEPT ![c] = k]
    /\ loaded' = [loaded EXCEPT ![c] = keys[k]]
    /\ UNCHANGED <<keys, workspace, sessions, up, target, surplus>>

\* A session token is checked against the workspace only, not its key.
ReadSession(c, s) ==
    /\ Begin(c)
    /\ workspace
    /\ s \in sessions
    /\ stage' = [stage EXCEPT ![c] = "authenticated"]
    /\ caller' = [caller EXCEPT ![c] = s]
    /\ UNCHANGED <<keys, workspace, sessions, up, target, loaded, surplus>>

\* Mutant: the session writes back the whole row it has read.
UpdateWhole(k, before, after) == keys' = [keys EXCEPT ![k] = after]

\* An UPDATE names only the columns that differ from the row as loaded.
Update(k, before, after) ==
    keys' = [keys EXCEPT ![k] =
        [column \in DOMAIN @ |-> IF after[column] # before[column] THEN after[column] ELSE @[column]]]

\* last_used_at is committed before the handler starts.
TouchKey(c) ==
    /\ stage[c] = "authenticating"
    /\ Update(caller[c], loaded[c], [loaded[c] EXCEPT !.used = TRUE])
    /\ stage' = [stage EXCEPT ![c] = "authenticated"]
    /\ UNCHANGED <<workspace, sessions, up, caller, target, loaded, surplus>>

-----------------------------------------------------------------------------
(* The handlers.                                                           *)

\* Mutant: the session is opened for the key of the path, not the caller's.
OpenSessionOfTarget(c) ==
    /\ stage[c] = "authenticated"
    /\ sessions' = sessions \cup {target[c]}
    /\ stage' = [stage EXCEPT ![c] = "done"]
    /\ UNCHANGED <<keys, workspace, up, caller, target, loaded, surplus>>

\* create_dashboard_session
OpenSession(c) ==
    /\ stage[c] = "authenticated"
    /\ sessions' = sessions \cup {caller[c]}
    /\ stage' = [stage EXCEPT ![c] = "done"]
    /\ UNCHANGED <<keys, workspace, up, caller, target, loaded, surplus>>

\* Mutant: off by one.
HasRoomAtLimit == Limit > 0 => Cardinality(ActiveKeys) <= Limit

HasRoom == Limit > 0 => Cardinality(ActiveKeys) < Limit

\* create_api_key of app/main.py: 409 when there is no room.
CountKeys(c) ==
    /\ stage[c] = "authenticated"
    /\ stage' = [stage EXCEPT ![c] = IF HasRoom THEN "creating" ELSE "refused"]
    /\ UNCHANGED <<keys, workspace, sessions, up, caller, target, loaded, surplus>>

CreateKey(c, k, scopes) ==
    /\ stage[c] = "creating"
    /\ k \notin DOMAIN keys \cup DOMAIN BootScopes
    /\ keys' = With(keys, k, scopes)
    /\ stage' = [stage EXCEPT ![c] = "done"]
    /\ UNCHANGED <<workspace, sessions, up, caller, target, loaded, surplus>>

\* deactivate_api_key and rotate_api_key find the row, active or not; 400 for
\* the key of the call itself.
FindKey(c, k, next) ==
    /\ stage[c] = "authenticated"
    /\ k \in DOMAIN keys
    /\ k # caller[c]
    /\ stage' = [stage EXCEPT ![c] = next]
    /\ target' = [target EXCEPT ![c] = k]
    /\ loaded' = [loaded EXCEPT ![c] = keys[k]]
    /\ UNCHANGED <<keys, workspace, sessions, up, caller, surplus>>

RefuseOwnKey(c) ==
    /\ stage[c] = "authenticated"
    /\ caller[c] \in DOMAIN keys
    /\ stage' = [stage EXCEPT ![c] = "refused"]
    /\ UNCHANGED <<keys, workspace, sessions, up, caller, target, loaded, surplus>>

DeactivateKey(c) ==
    /\ stage[c] = "deactivating"
    /\ Update(target[c], loaded[c], [loaded[c] EXCEPT !.is_active = FALSE])
    /\ stage' = [stage EXCEPT ![c] = "done"]
    /\ UNCHANGED <<workspace, sessions, up, caller, target, loaded, surplus>>

\* The key goes and a new one with its scopes comes, in one commit.
RotateKey(c, k) ==
    /\ stage[c] = "rotating"
    /\ k \notin DOMAIN keys \cup DOMAIN BootScopes
    /\ keys' = With([keys EXCEPT ![target[c]].is_active = FALSE], k, loaded[c].scopes)
    /\ surplus' = IF target[c] \in ActiveKeys THEN surplus ELSE surplus + 1
    /\ stage' = [stage EXCEPT ![c] = "done"]
    /\ UNCHANGED <<workspace, sessions, up, caller, target, loaded>>

-----------------------------------------------------------------------------
(* Around them.                                                            *)

\* create_clerk_dashboard_session: the owner needs no key.  The default
\* workspaces have no owner.
OpenClerkSession ==
    /\ up /\ ~ boot
    /\ workspace
    /\ sessions' = sessions \cup {Clerk}
    /\ UNCHANGED <<keys, workspace, up, stage, caller, target, loaded, surplus>>

Expire(s) ==
    /\ s \in sessions
    /\ sessions' = sessions \ {s}
    /\ UNCHANGED <<keys, workspace, up, stage, caller, target, loaded, surplus>>

\* delete_clerk_workspace and deactivate_workspace.
DeleteWorkspace ==
    /\ up /\ ~ boot
    /\ workspace
    /\ workspace' = FALSE
    /\ keys' = [k \in DOMAIN keys |-> [keys[k] EXCEPT !.is_active = FALSE]]
    /\ UNCHANGED <<sessions, up, stage, caller, target, loaded, surplus>>

\* The process dies; open transactions are rolled back.
Crash ==
    /\ up
    /\ up' = FALSE
    /\ stage' = [c \in Calls |-> IF c \in InFlight THEN "died" ELSE stage[c]]
    /\ UNCHANGED <<keys, workspace, sessions, caller, target, loaded, surplus>>

\* Bootstrap keys with a row that get_api_key no longer finds: inserting one
\* again violates the unique index on key_hash.
BootBlocked == {k \in BootKeys \cap DOMAIN keys : ~ keys[k].is_active}

\* lifespan: bootstrap_defaults creates or refreshes its keys in one commit,
\* or the service does not start.
Start ==
    /\ ~ up
    /\ BootBlocked = {}
    /\ keys' = [k \in DOMAIN keys \cup BootKeys |->
           IF k \notin BootKeys THEN keys[k]
           ELSE [scopes |-> BootScopes[k], is_active |-> TRUE,
                 used |-> k \in DOMAIN keys /\ keys[k].used]]
    /\ up' = TRUE
    /\ UNCHANGED <<workspace, sessions, stage, caller, target, loaded, surplus>>

-----------------------------------------------------------------------------
Handle(c) ==
    \/ TouchKey(c)
    \/ OpenSession(c)
    \/ CountKeys(c)
    \/ \E k \in Keys, scopes \in {AdminScopes, {"moderation"}} : CreateKey(c, k, scopes)
    \/ \E k \in Keys, next \in {"deactivating", "rotating"} : FindKey(c, k, next)
    \/ RefuseOwnKey(c)
    \/ DeactivateKey(c)
    \/ \E k \in Keys : RotateKey(c, k)

Next ==
    /\ \/ \E c \in Calls :
             \/ \E k \in Keys : ReadKey(c, k)
             \/ \E s \in sessions : ReadSession(c, s)
             \/ Handle(c)
       \/ OpenClerkSession
       \/ \E s \in sessions : Expire(s)
       \/ DeleteWorkspace
       \/ Crash
       \/ Start
    /\ UNCHANGED boot

Spec == Init /\ [][Next]_vars

-----------------------------------------------------------------------------
(* Properties.                                                             *)

\* A key that was deactivated, rotated or deleted with its workspace never
\* works again: not by the last_used_at of a call that was being
\* authenticated, not by a handler that read it before, not by a restart.
DeactivatedStaysOff ==
    [][\A k \in DOMAIN keys : ~ keys[k].is_active => ~ keys'[k].is_active]_vars

\* The limit on active keys is passed only by what create_api_key does not
\* see: creations of other calls in flight, and rotations of a key that was
\* inactive already, each of which leaves one key more.
KeysBounded ==
    Limit > 0 =>
        Cardinality(ActiveKeys)
            <= (IF Limit > 2 THEN Limit ELSE 2) + (MaxInFlight - 1) + surplus
=============================================================================
