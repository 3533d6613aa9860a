---------------------------- MODULE MCSchedCore ----------------------------
(* SchedCore with three tasks and the idle task; see MCSchedCore.cfg. *)
EXTENDS SchedCore

=============================================================================
