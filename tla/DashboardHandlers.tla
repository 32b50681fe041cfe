------------------------- MODULE DashboardHandlers -------------------------
(***************************************************************************)
(* Requests of the dashboard that change something, each handled once.     *)
(***************************************************************************)
CONSTANTS
    Handlers,
    Keep       \* None, or no entry: the update leaves this column alone
=============================================================================
