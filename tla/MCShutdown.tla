----------------------------- MODULE MCShutdown -----------------------------
(* The registrations of manage_application_resources with their budgets in  *)
(* seconds.                                                                 *)
EXTENDS Shutdown

MCBudget == <<5, 10, 5, 5>>
=============================================================================
