------------------------------ MODULE ClerkKeys ------------------------------
(***************************************************************************)
(* The signing keys that Clerk tokens are verified with: a set fetched     *)
(* from Clerk and cached per process (_get_jwks in app/clerk_auth.py).     *)
(* Requests verify their tokens in threads: each looks into the cache, may *)
(* fetch a set, and stores what it fetched, and others do so in between.   *)
(***************************************************************************)
EXTENDS ClientRequests

CONSTANTS
    Sets,  \* so many key sets Clerk publishes, one after the other
    TTL    \* clerk_jwks_cache_ttl_seconds, in ticks of the clock

ASSUME ClerkKeysAssumption == Sets \in Nat \ {0} /\ TTL \in Nat

VARIABLES
    replaced,  \* the time at which each set was replaced by the next
    cache,     \* per process, _JWKS_CACHE: a set and when it expires
    thread     \* per request, what its verification holds

keysVars == <<clock, replaced, cache, thread>>

\* No set.
Nothing == 0

\* The set Clerk answers with.
Current == Len(replaced) + 1

Uncached == [set |-> Nothing, expires |-> 0]
Cached == [set : 0..Sets, expires : 0..(MaxTime + TTL)]

Idle == [step |-> "idle", now |-> 0, set |-> Nothing, failed |-> FALSE]

KeysTypeOK ==
    /\ clock \in 0..MaxTime
    /\ replaced \in Seq(0..MaxTime) /\ Current <= Sets
    /\ cache \in [Processes -> Cached]
    /\ thread \in [Requests ->
            [step : {"idle", "fetching", "storing", "answered"}, now : 0..MaxTime,
             set : 0..Sets, failed : BOOLEAN]]

KeysInit ==
    /\ clock = 0
    /\ replaced = <<>>
    /\ cache = [p \in Processes |-> Uncached]
    /\ thread = [r \in Requests |-> Idle]

-----------------------------------------------------------------------------
(* Steps.                                                                  *)

\* Clerk's, not ours.
Rotate ==
    /\ Current < Sets
    /\ replaced' = Append(replaced, clock)
    /\ UNCHANGED <<clock, cache, thread>>

\* _JWKS_CACHE.get and time(), next to each other: a set that another thread
\* stores between them could as well have been stored after them.
Look(r) ==
    LET cached == cache[process[r]]
    IN  /\ thread[r].step = "idle"
        /\ thread' = [thread EXCEPT ![r] =
                [step |-> IF cached.set # Nothing /\ cached.expires > clock THEN "answered"
                          ELSE "fetching",
                 now |-> clock, set |-> cached.set, failed |-> FALSE]]
        /\ UNCHANGED <<clock, replaced, cache>>

\* Clerk answers with its current set.
Fetch(r) ==
    /\ thread[r].step = "fetching"
    /\ thread' = [thread EXCEPT ![r].step = "storing", ![r].set = Current]
    /\ UNCHANGED <<clock, replaced, cache>>

\* No answer in time, or a bad one: the expired set that was seen is better
\* than none, and without any the request is answered 503.
FetchFails(r) ==
    /\ thread[r].step = "fetching"
    /\ thread' = [thread EXCEPT ![r].step = "answered", ![r].failed = TRUE]
    /\ UNCHANGED <<clock, replaced, cache>>

\* Mutant: the lifetime counts from the store, however old the answer is.
StoreForLonger(r) ==
    /\ thread[r].step = "storing"
    /\ cache' = [cache EXCEPT ![process[r]] = [set |-> thread[r].set, expires |-> clock + TTL]]
    /\ thread' = [thread EXCEPT ![r].step = "answered"]
    /\ UNCHANGED <<clock, replaced>>

\* The lifetime counts from before the fetch; a late store replaces any other.
Store(r) ==
    /\ thread[r].step = "storing"
    /\ cache' = [cache EXCEPT ![process[r]] = [set |-> thread[r].set,
                                               expires |-> thread[r].now + TTL]]
    /\ thread' = [thread EXCEPT ![r].step = "answered"]
    /\ UNCHANGED <<clock, replaced>>

\* The request goes on with the set, and may come back.
Leave(r) ==
    /\ thread[r].step = "answered"
    /\ thread' = [thread EXCEPT ![r] = Idle]
    /\ UNCHANGED <<clock, replaced, cache>>

GetKeys(r) == Look(r) \/ Fetch(r) \/ FetchFails(r) \/ Store(r)

KeysTick ==
    /\ clock < MaxTime
    /\ clock' = clock + 1
    /\ UNCHANGED <<replaced, cache, thread>>

KeysNext ==
    \/ KeysTick
    \/ Rotate
    \/ \E r \in Requests : GetKeys(r) \/ Leave(r)

KeysSpec == KeysInit /\ [][KeysNext]_keysVars

-----------------------------------------------------------------------------
(* Properties.                                                             *)

\* Clerk had not yet replaced the set at that time.
PublishedSince(set, time) ==
    set = Current \/ (set \in 1..Len(replaced) /\ replaced[set] >= time)

\* Unless its own fetch failed, a request verifies with a set that Clerk still
\* published TTL before the request looked at the clock, whichever thread
\* stored it and however late.  So a key that Clerk withdrew is accepted for no
\* more than TTL, and one that it added is unknown for no more than TTL.
KeysAreRecent ==
    \A r \in Requests :
        thread[r].step = "answered" /\ ~ thread[r].failed =>
            /\ thread[r].set # Nothing
            /\ PublishedSince(thread[r].set, IF thread[r].now >= TTL THEN thread[r].now - TTL ELSE 0)
=============================================================================
