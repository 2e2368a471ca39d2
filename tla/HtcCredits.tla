----------------------------- MODULE HtcCredits -----------------------------
(***************************************************************************)
(* Credit distribution of the AR6000 host driver,                          *)
(* wifi/AR6kSDK/host/miscdrv/credit_dist.c.                                *)
(*                                                                         *)
(* The target has TotalCredits buffers; a message costs as many credits as *)
(* buffers it fills.  credit_dist.c shares the credits out between the     *)
(* endpoints; every function here runs under HTC's transmit lock and maps  *)
(* the credit state c to the next one:                                     *)
(*   c.tx[e]        TxCredits, what endpoint e may send now;               *)
(*   c.assigned[e]  TxCreditsAssigned, the limit it is held to;            *)
(*   c.free         CurrentFreeCredits.                                    *)
(***************************************************************************)
EXTENDS Integers

CONSTANTS TotalCredits,  \* TotalAvailableCredits, reported by the target
          PerMaxMsg      \* TxCreditsPerMaxMsg, the same for every endpoint

(* The five services in the priority order of ar6000_setup_credit_dist,    *)
(* highest first.                                                          *)
Svc == <<"CTRL", "VO", "VI", "BE", "BK">>
Ep == {"CTRL", "VO", "VI", "BE", "BK"}
Rank == [CTRL |-> 1, VO |-> 2, VI |-> 3, BE |-> 4, BK |-> 5]
LowPriority == {"BE", "BK"}

(* Enough credits that ar6000_credit_init's own assertion holds.           *)
ASSUME CreditAssumption ==
    /\ PerMaxMsg \in Nat \ {0}
    /\ TotalCredits \in Nat /\ TotalCredits > 4 /\ TotalCredits > 3 * PerMaxMsg

Total(f) == f["CTRL"] + f["VO"] + f["VI"] + f["BE"] + f["BK"]

CreditState == [tx : [Ep -> Int], assigned : [Ep -> Int], free : Int]

(* The credits the host has in its hands, and nobody being overdrawn.      *)
Owned(c) == c.free + Total(c.tx)
InCredit(c) == c.free >= 0 /\ \A e \in Ep : c.tx[e] >= 0

(* What ar6000_credit_init hands out: the control service and, with more   *)
(* than four credits, the two low-priority services get one message each.  *)
TxCreditsMin == PerMaxMsg
InitialShare == [e \in Ep |-> IF e \in LowPriority \cup {"CTRL"} THEN TxCreditsMin ELSE 0]
CreditInit ==
    [tx |-> InitialShare, assigned |-> InitialShare, free |-> TotalCredits - 3 * TxCreditsMin]
TxCreditsNorm ==
    LET count == ((((TotalCredits - 3 * TxCreditsMin) \div PerMaxMsg) * PerMaxMsg) * 3) \div 4
    IN  [e \in Ep |-> IF e = "CTRL" \/ count < PerMaxMsg THEN PerMaxMsg ELSE count]
ActiveAtInit == LowPriority \cup {"CTRL"}
-----------------------------------------------------------------------------
(* Mutant: the credits taken away do not reach the pool.                   *)
ReduceAndForget(c, e, limit) ==
    [c EXCEPT !.assigned[e] = limit, !.tx[e] = IF @ <= limit THEN @ ELSE limit]

ReduceCredits(c, e, limit) ==
    [tx |-> [c.tx EXCEPT ![e] = IF @ <= limit THEN @ ELSE limit],
     assigned |-> [c.assigned EXCEPT ![e] = limit],
     free |-> IF c.tx[e] <= limit THEN c.free ELSE c.free + (c.tx[e] - limit)]

GiveCredits(c, e, n) ==
    [tx |-> [c.tx EXCEPT ![e] = @ + n],
     assigned |-> [c.assigned EXCEPT ![e] = @ + n],
     free |-> c.free - n]

(* One endpoint of HTC_CREDIT_DIST_SEND_COMPLETE: n credits come back; the *)
(* endpoint keeps them within its limit, within its normal share, and only *)
(* while it is active or has packets waiting.                              *)
TrimTo(c, e, limit) == IF c.tx[e] > limit THEN ReduceCredits(c, e, limit) ELSE c
Returned(c, e, n) == [c EXCEPT !.tx[e] = @ + n]
SendCompleteOne(c, e, n, idle) ==
    IF n <= 0 THEN c
    ELSE LET c1 == TrimTo(Returned(c, e, n), e, c.assigned[e])
             c2 == TrimTo(c1, e, TxCreditsNorm[e])
         IN  IF idle THEN ReduceCredits(c2, e, 0) ELSE c2

(* The whole distribution list; toDist[e] is TxCreditsToDist, idle the     *)
(* inactive endpoints whose last noted queue depth is 0.                   *)
SendComplete(c, toDist, idle) ==
    LET One(s, e) == SendCompleteOne(s, e, toDist[e], e \in idle)
    IN  One(One(One(One(One(c, "CTRL"), "VO"), "VI"), "BE"), "BK")

(* RedistributeCredits: an inactive endpoint drops to nothing, or to one   *)
(* message if it had packets waiting.                                      *)
RedistributeOne(c, e, inactive, idle) ==
    IF e = "CTRL" \/ e \notin inactive THEN c
    ELSE ReduceCredits(c, e, IF e \in idle THEN 0 ELSE TxCreditsMin)
Redistribute(c, inactive, idle) ==
    LET One(s, e) == RedistributeOne(s, e, inactive, idle)
    IN  One(One(One(One(One(c, "CTRL"), "VO"), "VI"), "BE"), "BK")

(* One step of SeekCredits' walk up from the lowest priority: take what    *)
(* endpoint e still needs from low, unless that would leave low less than  *)
(* its minimum.  The walk ends at e, or once the pool covers the need.     *)
(* Mutant: the minimum is not respected.                                   *)
MayTakeAll(c, low, need) == c.assigned[low] - need >= 0
MayTake(c, low, need) == c.assigned[low] - need >= TxCreditsMin
TakeFrom(c, e, seek, low) ==
    IF Rank[low] > Rank[e] /\ c.free < seek /\ MayTake(c, low, seek - c.free)
    THEN ReduceCredits(c, low, c.assigned[low] - (seek - c.free)) ELSE c
TakeBelow(c, e, seek) ==
    LET One(s, low) == TakeFrom(s, e, seek, low)
    IN  One(One(One(One(c, "BK"), "BE"), "VI"), "VO")

(* SeekCredits: never for the control service, for VO and VI only up to    *)
(* their normal share.                                                     *)
MaySeek(c, e) == e # "CTRL" /\ (e \in {"VO", "VI"} => c.assigned[e] < TxCreditsNorm[e])
GiveUpTo(c, e, seek) == GiveCredits(c, e, IF c.free < seek THEN c.free ELSE seek)
SeekCredits(c, e, seek) == IF MaySeek(c, e) THEN GiveUpTo(TakeBelow(c, e, seek), e, seek) ELSE c
=============================================================================
