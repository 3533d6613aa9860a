---------------------------- MODULE MCFolioLock ----------------------------
(* Three tasks and two folios of one hash bucket; see MCFolioLock.cfg. *)
EXTENDS FolioLock

=============================================================================
