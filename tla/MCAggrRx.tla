------------------------------ MODULE MCAggrRx ------------------------------
(* TLC instances of AggrRx: one busy TID and one that only keeps the       *)
(* shared timer company.                                                   *)
EXTENDS AggrRx, TLC

MCLastFrame == [be |-> 17, vo |-> FirstFrame + 1]
=============================================================================
