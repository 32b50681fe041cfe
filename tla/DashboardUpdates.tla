-------------------------- MODULE DashboardUpdates --------------------------
(***************************************************************************)
(* Handlers of the dashboard's updates: each changes the policy or a case  *)
(* of the workspace.                                                       *)
(***************************************************************************)
EXTENDS PolicyUpdates, ReviewCases

dashboardVars == <<vars, caseVars>>

DashboardTypeOK == TypeOK /\ CaseTypeOK

DashboardInit == Init /\ CaseInit

UpdatesPolicy(h) ==
    /\ caseStage[h] = "new"
    /\ \/ \E u \in Updates : Refuse(h, u) \/ Load(h, u)
       \/ Store(h) \/ Reload(h) \/ ReloadFails(h) \/ LogEvent(h) \/ Die(h)
    /\ UNCHANGED caseVars

UpdatesCase(h) ==
    /\ stage[h] = "new"
    /\ CaseStep(h)
    /\ UNCHANGED vars

DashboardNext == \E h \in Handlers : UpdatesPolicy(h) \/ UpdatesCase(h)

DashboardSpec == DashboardInit /\ [][DashboardNext]_dashboardVars
=============================================================================
