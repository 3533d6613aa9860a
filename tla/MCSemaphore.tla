---------------------------- MODULE MCSemaphore ----------------------------
(* The semaphore with three tasks; see MCSemaphore.cfg. *)
EXTENDS Semaphore

=============================================================================
