------------------------------ MODULE MCLdsem ------------------------------
(* Three tasks and a timeout of one jiffy or none; see MCLdsem.cfg. *)
EXTENDS Ldsem

=============================================================================
