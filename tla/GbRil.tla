-------------------------------- MODULE GbRil --------------------------------
(***************************************************************************)
(* What CM7's libril expects of a vendor RIL: a RIL that speaks its own,   *)
(* Gingerbread, dialect.  Each request it issues is accepted once, worked  *)
(* on, and answered once, with nothing, with a structure in libril's own   *)
(* layout, or with one whose size libril will reject ("odd").              *)
(***************************************************************************)
CONSTANTS Token, Request, NoRequest, NoReply

VARIABLES
    req,    \* req[t]: the request outstanding under token t, or NoRequest
    stage,  \* stage[t]: how far it has got
    reply   \* reply[t]: the answer on its way to libril, or NoReply

vars == <<req, stage, reply>>

Replies == {"null", "gb", "odd"}

Init ==
    /\ req = [t \in Token |-> NoRequest]
    /\ stage = [t \in Token |-> "idle"]
    /\ reply = [t \in Token |-> NoReply]

Issue(t, r) ==
    /\ stage[t] = "idle"
    /\ req' = [req EXCEPT ![t] = r]
    /\ stage' = [stage EXCEPT ![t] = "issued"]
    /\ UNCHANGED reply

Accept(t) ==
    /\ stage[t] = "issued"
    /\ stage' = [stage EXCEPT ![t] = "accepted"]
    /\ UNCHANGED <<req, reply>>

Answer(t, a) ==
    /\ stage[t] = "accepted"
    /\ stage' = [stage EXCEPT ![t] = "answered"]
    /\ reply' = [reply EXCEPT ![t] = a]
    /\ UNCHANGED req

(* libril takes the answer and releases the token.                         *)
Deliver(t) ==
    /\ stage[t] = "answered"
    /\ req' = [req EXCEPT ![t] = NoRequest]
    /\ stage' = [stage EXCEPT ![t] = "idle"]
    /\ reply' = [reply EXCEPT ![t] = NoReply]

Next ==
    \E t \in Token :
        \/ \E r \in Request : Issue(t, r)
        \/ Accept(t)
        \/ \E a \in Replies : Answer(t, a)
        \/ Deliver(t)

(* What was issued is accepted and what was answered is delivered; when    *)
(* to answer is up to the modem.                                           *)
Fairness == \A t \in Token : WF_vars(Accept(t)) /\ WF_vars(Deliver(t))

SafeSpec == Init /\ [][Next]_vars

Spec == SafeSpec /\ Fairness
=============================================================================
