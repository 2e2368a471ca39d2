----------------------------- MODULE MCRilShim -----------------------------
(* TLC instances of RilShim. *)
EXTENDS RilShim, TLC

(* Tokens, blocks, AIDs and blob threads are interchangeable.              *)
Symmetry == Permutations(Token) \cup Permutations(Block)
                \cup Permutations(Aid) \cup Permutations(Worker)
=============================================================================
