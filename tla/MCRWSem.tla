------------------------------ MODULE MCRWSem ------------------------------
(* The reader/writer semaphore with three tasks; see the two .cfg files. *)
EXTENDS RWSem

TaskSymmetry == Permutations(Tasks)

=============================================================================
