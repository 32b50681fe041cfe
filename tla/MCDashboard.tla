---------------------------- MODULE MCDashboard -----------------------------
(***************************************************************************)
(* The updates of MCPolicy beside three updates of a case, two of which    *)
(* annotate it.                                                            *)
(***************************************************************************)
EXTENDS MCPolicy, DashboardUpdates

CONSTANT moderator

Asked(status, assignee, note) == [status |-> status, assignee |-> assignee, note |-> note]

MCCaseUpdates ==
    {Asked("in_review", moderator, TRUE), Asked("resolved", Keep, FALSE), Asked(Keep, Nobody, TRUE)}
=============================================================================
