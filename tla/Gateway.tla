------------------------------ MODULE Gateway ------------------------------
(***************************************************************************)
(* The way of a request to its handler: the rate limit, and for a request  *)
(* with a Clerk token the keys to verify it with.  The verification is     *)
(* part of what the rate limit calls, so that it happens again when the    *)
(* handler is called again.                                                *)
(***************************************************************************)
EXTENDS RateLimiter, ClerkKeys

CONSTANT Dashboard  \* requests with a Clerk token

ASSUME GatewayAssumption == Dashboard \subseteq Requests

gatewayVars == <<limiterVars, replaced, cache, thread>>

TypeOK == LimiterTypeOK /\ KeysTypeOK

GatewayInit == LimiterInit /\ KeysInit

\* The middleware of a request takes a step; nobody verifies.
Limits(r) ==
    /\ Arrive(r) \/ Count(r) \/ CountFails(r)
    /\ UNCHANGED <<replaced, cache, thread>>

\* require_clerk_principal, before the handler.
Verifies(r) ==
    /\ r \in Dashboard
    /\ request[r].stage = "handling"
    /\ GetKeys(r)
    /\ UNCHANGED <<counts, buckets, request>>

\* With an answer, be it 401 or 503, or an exception.
Ends(r) ==
    /\ HandlerReturns(r) \/ HandlerRaises(r)
    /\ IF r \in Dashboard THEN Leave(r) ELSE UNCHANGED <<replaced, cache, thread>>

Step(r) == Limits(r) \/ Verifies(r) \/ Ends(r)

Passes == Tick /\ UNCHANGED <<replaced, cache, thread>>

Rotates == Rotate /\ UNCHANGED <<counts, buckets, request>>

GatewayNext ==
    \/ Passes
    \/ Rotates
    \/ \E r \in Requests : Step(r)

GatewaySpec == GatewayInit /\ [][GatewayNext]_gatewayVars
=============================================================================
