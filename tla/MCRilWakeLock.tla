--------------------------- MODULE MCRilWakeLock ---------------------------
(* TLC instances of RilWakeLock. *)
EXTENDS RilWakeLock
=============================================================================
