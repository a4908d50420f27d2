-------------------------------- MODULE MCTasks --------------------------------
(* Scheduled tasks on a small instance. *)
EXTENDS Tasks
=============================================================================
