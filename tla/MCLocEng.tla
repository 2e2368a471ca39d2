------------------------------ MODULE MCLocEng ------------------------------
(* TLC instance of LocEng. *)
EXTENDS LocEng
=============================================================================
