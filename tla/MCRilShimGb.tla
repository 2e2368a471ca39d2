---------------------------- MODULE MCRilShimGb ----------------------------
(* TLC instances of RilShimGb. *)
EXTENDS RilShimGb
=============================================================================
