------------------------------ MODULE MCFbPost ------------------------------
(* TLC instances of FbPost. *)
EXTENDS FbPost
=============================================================================
