---------------------------- MODULE MCModeration ----------------------------
(***************************************************************************)
(* Small instances of Moderation: two workspaces of one user on shared     *)
(* account billing, a third one with its own plan.  Prices are the real    *)
(* ones (1 and 10 credits); quotas are small enough to run out.            *)
(***************************************************************************)
EXTENDS Moderation, TLC

CONSTANTS alpha, beta, gamma,  \* workspaces
          user                 \* the Clerk user who owns them

Row(scope, quota) ==
    [user |-> user, org |-> NoOwner, is_active |-> TRUE,
     billing_scope |-> scope, monthly_quota |-> quota]

Text  == [modality |-> "text", uploaded |-> FALSE, duration |-> NoDuration]
\* Exactly one minute, the last second before the price doubles.
Audio == [modality |-> "audio", uploaded |-> TRUE, duration |-> 60]
\* An upload without the duration it is billed by.
Unstated == [modality |-> "audio", uploaded |-> TRUE, duration |-> NoDuration]

\* The shared quota takes a recording and a text, the other one a text.
MCTables ==
    {[t \in {alpha, beta, gamma} |->
        CASE t = alpha -> Row("account", 11)
          [] t = beta  -> Row("account", 5)
          [] t = gamma -> Row("workspace", 1)]}

MCPayloads == {Text, Audio, Unstated}

Symmetry == Permutations(Requests) \cup Permutations(CaseActions)

\* One pool of MCTables as module QuotaPool sees it: the settled credits are
\* the charges of the current month.
SharedPool == INSTANCE QuotaPool WITH
    Slots <- Requests, MaxQuota <- 11, quota <- 11,
    settled <- UsedCredits({alpha, beta}, month), granted <- Grants({alpha, beta})

OwnPool == INSTANCE QuotaPool WITH
    Slots <- Requests, MaxQuota <- 1, quota <- 1,
    settled <- UsedCredits({gamma}, month), granted <- Grants({gamma})

\* Quota enforcement and persistence of the shared account implement the
\* promise of QuotaPool, step by step.
SharedPoolImplementsQuotaPool == SharedPool!Spec

\* So do they for a workspace billed on its own.
OwnPoolImplementsQuotaPool == OwnPool!Spec
=============================================================================
