--------------------------- MODULE ClientRequests ---------------------------
(***************************************************************************)
(* What the gateway's parts share: requests, the processes that serve them *)
(* and the time.                                                           *)
(***************************************************************************)
EXTENDS Naturals, FiniteSets, Sequences

CONSTANTS
    Requests,   \* of one client, on limited paths
    Processes,
    process,    \* where each request arrives
    MaxTime     \* bound of the clock

ASSUME RequestsAssumption ==
    IsFiniteSet(Requests) /\ process \in [Requests -> Processes] /\ MaxTime \in Nat

VARIABLE clock
=============================================================================
