----------------------------- MODULE MCLocSync -----------------------------
(* Three calls: two of one ioctl type and one of another.                  *)
EXTENDS LocSync, TLC

CONSTANTS c1, c2, c3

MCTypeOf == [c \in Call |-> IF c = c3 THEN "B" ELSE "A"]
Symmetry == Permutations({c1, c2})
=============================================================================
