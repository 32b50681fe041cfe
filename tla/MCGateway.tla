----------------------------- MODULE MCGateway -----------------------------
(***************************************************************************)
(* Three requests with an API key at one process, or one of them at        *)
(* another, or two requests of the dashboard at one process.               *)
(***************************************************************************)
EXTENDS Gateway, TLC

CONSTANTS a1, a2, a3, a4, d1, d2, p1, p2

Api == {a1, a2, a3, a4}
MCDashboard == {d1, d2}
MCRequests == Api \cup MCDashboard
MCProcess == (a4 :> p2) @@ [r \in MCRequests |-> p1]
MCArriving == {{a1, a2, a3}, {a1, a3, a4}, MCDashboard}

\* Two requests of one process, without a body.
Symmetry == Permutations({a1, a3})
=============================================================================
