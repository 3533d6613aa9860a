------------------------------ MODULE MCMutex ------------------------------
(* The mutex with three tasks; see MCMutex.cfg. *)
EXTENDS Mutex

=============================================================================
