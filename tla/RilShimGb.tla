------------------------------ MODULE RilShimGb ------------------------------
(***************************************************************************)
(* The shim and the v6 blob behind it, seen from libril, are a             *)
(* Gingerbread RIL (GbRil), as long as s_pending never overflows.          *)
(***************************************************************************)
EXTENDS RilShim

NoReply == "none"

(* The stage of a request follows from who has its token.                  *)
Stage ==
    [t \in Token |->
        IF pri[t] = NoRequest THEN "idle"
        ELSE IF ev.t = t THEN "issued"
        ELSE IF t \in held THEN "accepted"
        ELSE "answered"]

Answering(w, t) == wk[w].pc \in {"aid", "forward"} /\ wk[w].t = t

(* The answer libril will get, once a blob thread has taken the slot.      *)
Reply ==
    [t \in Token |->
        IF \E w \in Worker : Answering(w, t)
        THEN LET w == CHOOSE w \in Worker : Answering(w, t)
             IN  Forwarded(wk[w].request, wk[w].answer)
        ELSE NoReply]

Gb == INSTANCE GbRil WITH Request <- Issued, req <- pri, stage <- Stage, reply <- Reply

(* shimOnRequest and shimOnRequestComplete together behave like a RIL in   *)
(* libril's own dialect: each request reaches the blob once, each answer   *)
(* libril once, in the layout libril reads (safety and liveness).          *)
ImplementsGbRil == Gb!Spec
=============================================================================
