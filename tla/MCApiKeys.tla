----------------------------- MODULE MCApiKeys ------------------------------
(***************************************************************************)
(* Small instances of ApiKeys: a default workspace with its two bootstrap  *)
(* keys, and one that was onboarded.                                       *)
(***************************************************************************)
EXTENDS ApiKeys, TLC

CONSTANTS bootAdmin, bootServer

MCBootScopes ==
    [k \in {bootAdmin, bootServer} |-> IF k = bootAdmin THEN AdminScopes ELSE {"moderation"}]

Symmetry == Permutations(Keys \ {bootAdmin, bootServer}) \cup Permutations(Calls)
=============================================================================
