----------------------------- MODULE QuotaPool ------------------------------
(***************************************************************************)
(* What quota enforcement promises for one pool of credits, with no        *)
(* tenants, no database and no stages: a check grants a cost while the     *)
(* credits already settled leave room for it, several grants may be open   *)
(* at once, and a grant is settled at its full cost or given up.           *)
(* Moderation implements it.                                               *)
(***************************************************************************)
EXTENDS Naturals, FiniteSets

CONSTANTS
    Slots,        \* identities of the calls that may hold a grant
    MaxCost,      \* price of the most expensive call
    MaxInFlight,  \* calls in progress at the same time, over all processes
    MaxQuota      \* largest quota of a plan

VARIABLES
    quota,    \* credits per month of the plan in force
    settled,  \* credits charged this month
    granted   \* granted[s]: price of the open grant of s, 0 when it has none

vars == <<quota, settled, granted>>

Busy == {s \in Slots : granted[s] > 0}

TypeOK ==
    /\ quota \in 0..MaxQuota
    /\ settled \in Nat
    /\ granted \in [Slots -> 0..MaxCost]

Init ==
    /\ quota \in 0..MaxQuota
    /\ settled = 0
    /\ granted = [s \in Slots |-> 0]

\* The check counts what is settled, not what other calls hold open.
Grant(s) ==
    /\ granted[s] = 0
    /\ Cardinality(Busy) < MaxInFlight
    /\ \E cost \in 1..MaxCost :
          /\ settled + cost <= quota
          /\ granted' = [granted EXCEPT ![s] = cost]
    /\ UNCHANGED <<quota, settled>>

Settle(s) ==
    /\ granted[s] > 0
    /\ settled' = settled + granted[s]
    /\ granted' = [granted EXCEPT ![s] = 0]
    /\ UNCHANGED quota

GiveUp(s) ==
    /\ granted[s] > 0
    /\ granted' = [granted EXCEPT ![s] = 0]
    /\ UNCHANGED <<quota, settled>>

\* A plan change replaces the quota while grants stay open.
Replan ==
    /\ quota' \in 0..MaxQuota
    /\ UNCHANGED <<settled, granted>>

\* The sum restarts with the calendar month; open grants cross the boundary.
NewMonth ==
    /\ settled' = 0
    /\ UNCHANGED <<quota, granted>>

Next ==
    \/ \E s \in Slots : Grant(s) \/ Settle(s) \/ GiveUp(s)
    \/ Replan
    \/ NewMonth

Spec == Init /\ [][Next]_vars
=============================================================================
