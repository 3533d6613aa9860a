----------------------------- MODULE MCRcuTiny -----------------------------
(* Tiny RCU with four callbacks; see MCRcuTiny.cfg. *)
EXTENDS RcuTiny

=============================================================================
