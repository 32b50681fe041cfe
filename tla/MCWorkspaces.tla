---------------------------- MODULE MCWorkspaces ----------------------------
(***************************************************************************)
(* Small instances of Workspaces: a user alone, or also one who acts for   *)
(* an organisation; the trial, and a plan that is larger.                  *)
(***************************************************************************)
EXTENDS Workspaces, TLC

CONSTANTS user, other, member, org

MCQuotas == [plan \in {"starter", "growth"} |-> IF plan = "starter" THEN 1 ELSE 2]

MCAlone == {[user |-> user, org |-> NoOwner]}

\* Two users alone, and one who acts for an organisation only.
MCApart == MCAlone \cup {[user |-> other, org |-> NoOwner], [user |-> member, org |-> org]}

\* Slugs are interchangeable: ties between workspaces go by created_at.
Symmetry == Permutations(Tenants)
=============================================================================
