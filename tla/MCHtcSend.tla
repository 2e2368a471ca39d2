----------------------------- MODULE MCHtcSend -----------------------------
(* Two threads send three VI packets and a BE packet.  VI takes credits   *)
(* from both low-priority endpoints; its queue can be full.               *)
EXTENDS HtcSend, TLC

MCMaxPkts == [CTRL |-> 0, VO |-> 0, VI |-> 3, BE |-> 1, BK |-> 0]
Symmetry == Permutations(Thread)
=============================================================================
