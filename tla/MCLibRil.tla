------------------------------ MODULE MCLibRil ------------------------------
(* TLC instances of LibRil. *)
EXTENDS LibRil
=============================================================================
