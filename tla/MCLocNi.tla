------------------------------ MODULE MCLocNi ------------------------------
EXTENDS LocNi, TLC

Symmetry == Permutations(Req)
=============================================================================
