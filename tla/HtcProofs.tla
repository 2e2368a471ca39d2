----------------------------- MODULE HtcProofs -----------------------------
(***************************************************************************)
(* Proofs about the credit distribution of HtcCredits and its use in       *)
(* HtcSend, for every number of credits, message size and set of threads.  *)
(***************************************************************************)
EXTENDS HtcSend, TLAPS

(* What every function of credit_dist.c keeps: nobody is overdrawn, no     *)
(* limit is negative, and BE and BK are assigned the minimum.              *)
Sound(c) ==
    /\ c \in CreditState
    /\ InCredit(c)
    /\ \A e \in Ep : c.assigned[e] >= 0
    /\ \A e \in LowPriority : c.assigned[e] >= TxCreditsMin

(* The normal share is a number of credits and covers one message.         *)
LEMMA NormCoversMin ==
    /\ TxCreditsMin \in Nat
    /\ \A e \in Ep : TxCreditsNorm[e] \in Nat /\ TxCreditsNorm[e] >= TxCreditsMin
<1> DEFINE count == ((((TotalCredits - 3 * PerMaxMsg) \div PerMaxMsg) * PerMaxMsg) * 3) \div 4
<1>1. PerMaxMsg \in Nat /\ PerMaxMsg > 0 /\ TotalCredits \in Nat
  BY CreditAssumption
<1>2. (TotalCredits - 3 * PerMaxMsg) \in Int
  BY <1>1
<1>3. ((TotalCredits - 3 * PerMaxMsg) \div PerMaxMsg) \in Int
  BY <1>1, <1>2
<1>4. ((((TotalCredits - 3 * PerMaxMsg) \div PerMaxMsg) * PerMaxMsg) * 3) \in Int
  BY <1>1, <1>3
<1>5. count \in Int
  BY <1>4
<1>6. TxCreditsNorm = [e \in Ep |-> IF e = "CTRL" \/ count < PerMaxMsg THEN PerMaxMsg ELSE count]
  BY DEF TxCreditsNorm, TxCreditsMin
<1> QED
  <2> HIDE DEF count
  <2> QED BY <1>1, <1>5, <1>6 DEF TxCreditsMin

(* ReduceCredits moves credits to the pool and loses none.                 *)
LEMMA ReduceKeeps ==
    ASSUME NEW c, Sound(c), NEW e \in Ep, NEW limit \in Nat,
           e \in LowPriority => limit >= TxCreditsMin
    PROVE  /\ Sound(ReduceCredits(c, e, limit))
           /\ Owned(ReduceCredits(c, e, limit)) = Owned(c)
<1> DEFINE d == ReduceCredits(c, e, limit)
<1>1. c \in CreditState /\ c.tx \in [Ep -> Int] /\ c.assigned \in [Ep -> Int] /\ c.free \in Int
  BY DEF Sound, CreditState
<1>2. d.tx = [c.tx EXCEPT ![e] = IF @ <= limit THEN @ ELSE limit]
  BY DEF ReduceCredits
<1>3. d.assigned = [c.assigned EXCEPT ![e] = limit]
  BY DEF ReduceCredits
<1>4. d.free = IF c.tx[e] <= limit THEN c.free ELSE c.free + (c.tx[e] - limit)
  BY DEF ReduceCredits
<1>5. d \in CreditState
  BY <1>1 DEF CreditState, ReduceCredits
<1>6. Sound(d)
  <2> HIDE DEF d
  <2> QED BY <1>1, <1>2, <1>3, <1>4, <1>5, NormCoversMin DEF Sound, InCredit, LowPriority
<1>7. Owned(d) = Owned(c)
  <2> HIDE DEF d
  <2>1. \A x \in Ep : x # e => d.tx[x] = c.tx[x]
    BY <1>1, <1>2
  <2>2. d.free + d.tx[e] = c.free + c.tx[e]
    BY <1>1, <1>2, <1>4
  <2>3. \A x \in Ep : d.tx[x] \in Int /\ c.tx[x] \in Int
    BY <1>1, <1>5 DEF CreditState
  <2> QED BY <1>1, <1>4, <2>1, <2>2, <2>3 DEF Owned, Total, Ep
<1> QED BY <1>6, <1>7

(* GiveCredits takes from the pool at most what is there.                  *)
LEMMA GiveKeeps ==
    ASSUME NEW c, Sound(c), NEW e \in Ep, NEW n \in Nat, n <= c.free
    PROVE  /\ Sound(GiveCredits(c, e, n))
           /\ Owned(GiveCredits(c, e, n)) = Owned(c)
<1> DEFINE d == GiveCredits(c, e, n)
<1>1. c \in CreditState /\ c.tx \in [Ep -> Int] /\ c.assigned \in [Ep -> Int] /\ c.free \in Int
  BY DEF Sound, CreditState
<1>2. d.tx = [c.tx EXCEPT ![e] = @ + n] /\ d.assigned = [c.assigned EXCEPT ![e] = @ + n]
      /\ d.free = c.free - n
  BY DEF GiveCredits
<1>3. d \in CreditState
  BY <1>1 DEF CreditState, GiveCredits
<1>4. Sound(d)
  <2> HIDE DEF d
  <2> QED BY <1>1, <1>2, <1>3, NormCoversMin DEF Sound, InCredit, LowPriority
<1>5. Owned(d) = Owned(c)
  <2> HIDE DEF d
  <2>1. \A x \in Ep : d.tx[x] \in Int /\ c.tx[x] \in Int /\ (x # e => d.tx[x] = c.tx[x])
    BY <1>1, <1>2
  <2>2. d.tx[e] = c.tx[e] + n
    BY <1>1, <1>2
  <2> QED BY <1>1, <1>2, <2>1, <2>2 DEF Owned, Total, Ep
<1> QED BY <1>4, <1>5

(* Credits come back to an endpoint: the host owns n more.                 *)
LEMMA ReturnedAdds ==
    ASSUME NEW c, Sound(c), NEW e \in Ep, NEW n \in Nat
    PROVE  /\ Sound(Returned(c, e, n))
           /\ Owned(Returned(c, e, n)) = Owned(c) + n
           /\ Returned(c, e, n).assigned = c.assigned
<1> DEFINE d == Returned(c, e, n)
<1>1. c \in CreditState /\ c.tx \in [Ep -> Int] /\ c.assigned \in [Ep -> Int] /\ c.free \in Int
  BY DEF Sound, CreditState
<1>2. d.tx = [c.tx EXCEPT ![e] = @ + n] /\ d.assigned = c.assigned /\ d.free = c.free
  BY <1>1 DEF Returned, CreditState
<1>3. d \in CreditState
  BY <1>1 DEF CreditState, Returned
<1>4. Sound(d)
  <2> HIDE DEF d
  <2> QED BY <1>1, <1>2, <1>3, NormCoversMin DEF Sound, InCredit, LowPriority
<1>5. Owned(d) = Owned(c) + n
  <2> HIDE DEF d
  <2>1. \A x \in Ep : d.tx[x] \in Int /\ c.tx[x] \in Int /\ (x # e => d.tx[x] = c.tx[x])
    BY <1>1, <1>2
  <2>2. d.tx[e] = c.tx[e] + n
    BY <1>1, <1>2
  <2> QED BY <1>1, <1>2, <2>1, <2>2 DEF Owned, Total, Ep
<1> QED BY <1>2, <1>4, <1>5

(* Trimming an endpoint to a limit loses no credit.                        *)
LEMMA TrimKeeps ==
    ASSUME NEW c, Sound(c), NEW e \in Ep, NEW limit \in Nat,
           e \in LowPriority => limit >= TxCreditsMin
    PROVE  Sound(TrimTo(c, e, limit)) /\ Owned(TrimTo(c, e, limit)) = Owned(c)
BY ReduceKeeps DEF TrimTo

(* One endpoint of HTC_CREDIT_DIST_SEND_COMPLETE.                          *)
LEMMA SendCompleteOneAdds ==
    ASSUME NEW c, Sound(c), NEW e \in Ep, NEW n \in Nat, NEW idle \in BOOLEAN,
           idle => e \notin LowPriority
    PROVE  /\ Sound(SendCompleteOne(c, e, n, idle))
           /\ Owned(SendCompleteOne(c, e, n, idle)) = Owned(c) + n
<1> DEFINE c0 == Returned(c, e, n)
           c1 == TrimTo(c0, e, c.assigned[e])
           c2 == TrimTo(c1, e, TxCreditsNorm[e])
<1>1. CASE n <= 0
  <2>1. n = 0 /\ SendCompleteOne(c, e, n, idle) = c
    BY <1>1 DEF SendCompleteOne
  <2>2. Owned(c) \in Int
    BY DEF Sound, CreditState, Owned, Total, Ep
  <2> QED BY <2>1, <2>2
<1>2. CASE ~(n <= 0)
  <2>1. Sound(c0) /\ Owned(c0) = Owned(c) + n
    BY ReturnedAdds
  <2>2. c.assigned[e] \in Nat /\ (e \in LowPriority => c.assigned[e] >= TxCreditsMin)
    BY DEF Sound, CreditState
  <2>3. Sound(c1) /\ Owned(c1) = Owned(c) + n
    <3> HIDE DEF c0
    <3> QED BY <2>1, <2>2, TrimKeeps
  <2>4. Sound(c2) /\ Owned(c2) = Owned(c) + n
    <3> HIDE DEF c1
    <3> QED BY <2>3, TrimKeeps, NormCoversMin
  <2>5. idle => Sound(ReduceCredits(c2, e, 0)) /\ Owned(ReduceCredits(c2, e, 0)) = Owned(c) + n
    <3> HIDE DEF c2
    <3> QED BY <2>4, ReduceKeeps
  <2>6. SendCompleteOne(c, e, n, idle) = IF idle THEN ReduceCredits(c2, e, 0) ELSE c2
    BY <1>2 DEF SendCompleteOne
  <2> HIDE DEF c2
  <2> QED BY <2>4, <2>5, <2>6
<1> QED BY <1>1, <1>2

(* HTC_CREDIT_DIST_SEND_COMPLETE returns every credit that came back, to   *)
(* an endpoint or to the pool: none is lost and none is made up, whatever  *)
(* the limits were when the credits were lent.                             *)
THEOREM SendCompleteAdds ==
    ASSUME NEW c, Sound(c), NEW toDist \in [Ep -> Nat], NEW idle, idle \cap LowPriority = {}
    PROVE  /\ Sound(SendComplete(c, toDist, idle))
           /\ Owned(SendComplete(c, toDist, idle)) = Owned(c) + Total(toDist)
<1> DEFINE One(s, e) == SendCompleteOne(s, e, toDist[e], e \in idle)
           c1 == One(c, "CTRL")
           c2 == One(c1, "VO")
           c3 == One(c2, "VI")
           c4 == One(c3, "BE")
           c5 == One(c4, "BK")
<1>1. ASSUME NEW s, Sound(s), NEW e \in Ep
      PROVE  Sound(One(s, e)) /\ Owned(One(s, e)) = Owned(s) + toDist[e]
  <2>1. toDist[e] \in Nat /\ (e \in idle) \in BOOLEAN /\ (e \in idle => e \notin LowPriority)
    OBVIOUS
  <2> QED BY <1>1, <2>1, SendCompleteOneAdds
<1>2. SendComplete(c, toDist, idle) = c5
  BY DEF SendComplete
<1>3. Owned(c) \in Int /\ \A e \in Ep : toDist[e] \in Int
  BY DEF Sound, CreditState, Owned, Total, Ep
<1> HIDE DEF One
<1>4. Sound(c1) /\ Owned(c1) = Owned(c) + toDist["CTRL"]
  BY <1>1 DEF Ep
<1>5. Sound(c2) /\ Owned(c2) = Owned(c1) + toDist["VO"]
  <2> HIDE DEF c1
  <2> QED BY <1>1, <1>4 DEF Ep
<1>6. Sound(c3) /\ Owned(c3) = Owned(c2) + toDist["VI"]
  <2> HIDE DEF c2
  <2> QED BY <1>1, <1>5 DEF Ep
<1>7. Sound(c4) /\ Owned(c4) = Owned(c3) + toDist["BE"]
  <2> HIDE DEF c3
  <2> QED BY <1>1, <1>6 DEF Ep
<1>8. Sound(c5) /\ Owned(c5) = Owned(c4) + toDist["BK"]
  <2> HIDE DEF c4
  <2> QED BY <1>1, <1>7 DEF Ep
<1> HIDE DEF c1, c2, c3, c4, c5
<1> QED BY <1>2, <1>3, <1>4, <1>5, <1>6, <1>7, <1>8 DEF Total, Ep

(* RedistributeCredits moves credits to the pool and loses none.           *)
THEOREM RedistributeKeeps ==
    ASSUME NEW c, Sound(c), NEW inactive, inactive \cap LowPriority = {}, NEW idle
    PROVE  /\ Sound(Redistribute(c, inactive, idle))
           /\ Owned(Redistribute(c, inactive, idle)) = Owned(c)
<1> DEFINE One(s, e) == RedistributeOne(s, e, inactive, idle)
           c1 == One(c, "CTRL")
           c2 == One(c1, "VO")
           c3 == One(c2, "VI")
           c4 == One(c3, "BE")
           c5 == One(c4, "BK")
<1>1. ASSUME NEW s, Sound(s), NEW e \in Ep
      PROVE  Sound(One(s, e)) /\ Owned(One(s, e)) = Owned(s)
  <2>1. CASE e = "CTRL" \/ e \notin inactive
    BY <1>1, <2>1 DEF RedistributeOne
  <2>2. CASE ~(e = "CTRL" \/ e \notin inactive)
    <3> DEFINE limit == IF e \in idle THEN 0 ELSE TxCreditsMin
    <3>1. limit \in Nat /\ e \notin LowPriority
      BY <2>2, NormCoversMin
    <3>2. One(s, e) = ReduceCredits(s, e, limit)
      BY <2>2 DEF RedistributeOne
    <3> HIDE DEF limit, One
    <3> QED BY <1>1, <3>1, <3>2, ReduceKeeps
  <2> QED BY <2>1, <2>2
<1>2. Redistribute(c, inactive, idle) = c5
  BY DEF Redistribute
<1> HIDE DEF One
<1>3. Sound(c1) /\ Owned(c1) = Owned(c)
  BY <1>1 DEF Ep
<1>4. Sound(c2) /\ Owned(c2) = Owned(c)
  <2> HIDE DEF c1
  <2> QED BY <1>1, <1>3 DEF Ep
<1>5. Sound(c3) /\ Owned(c3) = Owned(c)
  <2> HIDE DEF c2
  <2> QED BY <1>1, <1>4 DEF Ep
<1>6. Sound(c4) /\ Owned(c4) = Owned(c)
  <2> HIDE DEF c3
  <2> QED BY <1>1, <1>5 DEF Ep
<1>7. Sound(c5) /\ Owned(c5) = Owned(c)
  <2> HIDE DEF c4
  <2> QED BY <1>1, <1>6 DEF Ep
<1> QED BY <1>2, <1>7

(* One step of SeekCredits' walk takes from a lower priority what that can *)
(* spare.                                                                  *)
LEMMA TakeFromKeeps ==
    ASSUME NEW c, Sound(c), NEW e \in Ep, NEW seek \in Nat, NEW low \in Ep
    PROVE  /\ Sound(TakeFrom(c, e, seek, low))
           /\ Owned(TakeFrom(c, e, seek, low)) = Owned(c)
<1> DEFINE taken == Rank[low] > Rank[e] /\ c.free < seek /\ MayTake(c, low, seek - c.free)
           limit == c.assigned[low] - (seek - c.free)
<1>1. CASE taken
  <2>1. limit \in Nat /\ limit >= TxCreditsMin
    BY <1>1, NormCoversMin DEF MayTake, Sound, CreditState
  <2>2. TakeFrom(c, e, seek, low) = ReduceCredits(c, low, limit)
    BY <1>1 DEF TakeFrom
  <2> HIDE DEF limit
  <2> QED BY <2>1, <2>2, ReduceKeeps
<1>2. CASE ~taken
  BY <1>2 DEF TakeFrom
<1> QED BY <1>1, <1>2

(* Taking back from every lower-priority endpoint loses no credit.         *)
LEMMA TakeBelowKeeps ==
    ASSUME NEW c, Sound(c), NEW e \in Ep, NEW seek \in Nat
    PROVE  /\ Sound(TakeBelow(c, e, seek))
           /\ Owned(TakeBelow(c, e, seek)) = Owned(c)
<1> DEFINE One(s, low) == TakeFrom(s, e, seek, low)
           c1 == One(c, "BK")
           c2 == One(c1, "BE")
           c3 == One(c2, "VI")
           c4 == One(c3, "VO")
<1>1. ASSUME NEW s, Sound(s), NEW low \in Ep
      PROVE  Sound(One(s, low)) /\ Owned(One(s, low)) = Owned(s)
  BY <1>1, TakeFromKeeps
<1>2. TakeBelow(c, e, seek) = c4
  BY DEF TakeBelow
<1> HIDE DEF One
<1>3. Sound(c1) /\ Owned(c1) = Owned(c)
  BY <1>1 DEF Ep
<1>4. Sound(c2) /\ Owned(c2) = Owned(c)
  <2> HIDE DEF c1
  <2> QED BY <1>1, <1>3 DEF Ep
<1>5. Sound(c3) /\ Owned(c3) = Owned(c)
  <2> HIDE DEF c2
  <2> QED BY <1>1, <1>4 DEF Ep
<1>6. Sound(c4) /\ Owned(c4) = Owned(c)
  <2> HIDE DEF c3
  <2> QED BY <1>1, <1>5 DEF Ep
<1> QED BY <1>2, <1>6

(* SeekCredits moves credits between endpoints and the pool, loses none,   *)
(* overdraws nobody and leaves BE and BK their minimum, whoever seeks and  *)
(* however much.                                                           *)
THEOREM SeekKeeps ==
    ASSUME NEW c, Sound(c), NEW e \in Ep, NEW seek \in Nat
    PROVE  /\ Sound(SeekCredits(c, e, seek))
           /\ Owned(SeekCredits(c, e, seek)) = Owned(c)
<1> DEFINE d == TakeBelow(c, e, seek)
           n == IF d.free < seek THEN d.free ELSE seek
<1>1. CASE MaySeek(c, e)
  <2>1. Sound(d) /\ Owned(d) = Owned(c)
    BY TakeBelowKeeps
  <2>2. SeekCredits(c, e, seek) = GiveCredits(d, e, n)
    BY <1>1 DEF SeekCredits, GiveUpTo
  <2> HIDE DEF d
  <2>3. n \in Nat /\ n <= d.free
    BY <2>1 DEF Sound, InCredit, CreditState
  <2> HIDE DEF n
  <2> QED BY <2>1, <2>2, <2>3, GiveKeeps
<1>2. CASE ~MaySeek(c, e)
  BY <1>2 DEF SeekCredits
<1> QED BY <1>1, <1>2
-----------------------------------------------------------------------------
(* Looking for the credits of a packet, and paying for it.                 *)
LEMMA SoughtKeeps ==
    ASSUME Sound(cr), NEW e \in Ep, NEW need \in Nat
    PROVE  Sound(Sought(e, need)) /\ Owned(Sought(e, need)) = Owned(cr)
<1>1. CASE cr.tx[e] < need
  <2>1. need - cr.tx[e] \in Nat
    BY <1>1 DEF Sound, CreditState, InCredit
  <2> QED BY <1>1, <2>1, SeekKeeps DEF Sought
<1>2. CASE ~(cr.tx[e] < need)
  BY <1>2 DEF Sought
<1> QED BY <1>1, <1>2

(* Paying for a message takes its cost from the endpoint alone.            *)
LEMMA PaidKeeps ==
    ASSUME NEW c, Sound(c), NEW e \in Ep, NEW need \in Nat, c.tx[e] >= need
    PROVE  Sound(Paid(c, e, need)) /\ Owned(Paid(c, e, need)) = Owned(c) - need
<1> DEFINE d == [c EXCEPT !.tx[e] = @ - need]
<1>1. c \in CreditState /\ c.tx \in [Ep -> Int] /\ c.assigned \in [Ep -> Int] /\ c.free \in Int
  BY DEF Sound, CreditState
<1>2. d.tx = [c.tx EXCEPT ![e] = @ - need] /\ d.assigned = c.assigned /\ d.free = c.free
  BY <1>1 DEF CreditState
<1>3. d \in CreditState
  BY <1>1 DEF CreditState
<1>4. Paid(c, e, need) = IF d.tx[e] < PerMaxMsg THEN SeekCredits(d, e, PerMaxMsg - d.tx[e]) ELSE d
  BY DEF Paid
<1> HIDE DEF d
<1>5. Sound(d)
  BY <1>1, <1>2, <1>3, NormCoversMin DEF Sound, InCredit, LowPriority
<1>6. Owned(d) = Owned(c) - need
  <2>1. \A x \in Ep : d.tx[x] \in Int /\ c.tx[x] \in Int /\ (x # e => d.tx[x] = c.tx[x])
    BY <1>1, <1>2
  <2>2. d.tx[e] = c.tx[e] - need
    BY <1>1, <1>2
  <2> QED BY <1>1, <1>2, <2>1, <2>2 DEF Owned, Total, Ep
<1>7. CASE d.tx[e] < PerMaxMsg
  <2>1. PerMaxMsg - d.tx[e] \in Nat
    BY <1>3, <1>7, CreditAssumption DEF CreditState
  <2> QED BY <1>4, <1>5, <1>6, <1>7, <2>1, SeekKeeps
<1>8. CASE ~(d.tx[e] < PerMaxMsg)
  BY <1>4, <1>5, <1>6, <1>8
<1> QED BY <1>7, <1>8

(* A thread that walks over the queues is at one of the five endpoints.    *)
WalkOK(f) == \A t \in Thread : f[t].pc = "walk" => f[t].walk \in 1 .. 5

(* The inductive invariant: a low-priority endpoint is never inactive when *)
(* credits are distributed, so that its limit never drops to nothing.      *)
HtcInv ==
    /\ TypeOK
    /\ Sound(cr)
    /\ LowPriority \subseteq active
    /\ WalkOK(th)

(* ar6000_credit_init hands out a sound distribution.                      *)
LEMMA InitialCredits == Sound(CreditInit)
<1>1. PerMaxMsg \in Nat /\ TotalCredits \in Nat /\ TotalCredits > 3 * PerMaxMsg
  BY CreditAssumption
<1>2. InitialShare \in [Ep -> Nat] /\ \A e \in LowPriority : InitialShare[e] = PerMaxMsg
  BY <1>1 DEF InitialShare, TxCreditsMin, LowPriority, Ep
<1>3. CreditInit.tx = InitialShare /\ CreditInit.assigned = InitialShare
      /\ CreditInit.free = TotalCredits - 3 * PerMaxMsg
  BY DEF CreditInit, TxCreditsMin
<1>4. CreditInit \in CreditState
  BY <1>1, <1>2 DEF CreditInit, CreditState, TxCreditsMin
<1> QED BY <1>1, <1>2, <1>3, <1>4 DEF Sound, InCredit, TxCreditsMin, LowPriority, Ep

(* A thread placed by ThAt is a thread state.                              *)
LEMMA ThAtType ==
    ASSUME NEW pc \in {"idle", "enter", "get", "issue", "walk"}, NEW e \in Ep,
           NEW pkt \in Pkt \cup {NoPkt}, NEW w \in 0 .. 5
    PROVE  /\ ThAt(pc, e, pkt, w) \in ThState
           /\ ThAt(pc, e, pkt, w).pc = pc /\ ThAt(pc, e, pkt, w).walk = w
BY DEF ThAt, ThState

(* The idle thread is a thread state.                                      *)
LEMMA ThIdleType == ThIdle \in ThState /\ ThIdle.pc = "idle"
<1>1. "CTRL" \in Ep /\ 0 \in 0 .. 5
  BY DEF Ep
<1> QED BY <1>1, ThAtType DEF ThIdle

(* A walk over the endpoints is a thread state.                            *)
LEMMA WalkAtType ==
    ASSUME NEW w \in 1 .. 5 PROVE WalkAt(w) \in ThState /\ WalkAt(w).walk = w
<1>1. "CTRL" \in Ep /\ w \in 0 .. 5
  BY DEF Ep
<1> QED BY <1>1, ThAtType DEF WalkAt

(* The initial state satisfies the invariant.                              *)
LEMMA HtcInvInit == Init => HtcInv
<1> SUFFICES ASSUME Init PROVE HtcInv
  OBVIOUS
<1>1. Sound(cr) /\ cr \in CreditState
  BY InitialCredits DEF Init, Sound
<1>2. ThIdle \in ThState /\ ThIdle.pc = "idle"
  BY ThIdleType
<1>3. th \in [Thread -> ThState]
  BY <1>2 DEF Init
<1>4. active \subseteq Ep /\ busy \subseteq Ep /\ LowPriority \subseteq active
  BY DEF Init, ActiveAtInit, LowPriority, Ep
<1>5. TxQueue \in [Ep -> Seq(Pkt)] /\ dev \in [Ep -> Seq(Pkt)]
  BY DEF Init
<1>6. depth \in [Ep -> Nat] /\ given \in [Ep -> Nat] /\ SeqNo \in [Ep -> Nat]
      /\ issued \in [Ep -> Nat] /\ target \in [Ep -> Nat]
  BY DEF Init
<1>7. lock \in Thread \cup {NoThread} /\ unchecked \in BOOLEAN
  BY DEF Init
<1>8. TypeOK
  BY <1>1, <1>3, <1>4, <1>5, <1>6, <1>7 DEF TypeOK
<1>9. \A t \in Thread : th[t].pc = "idle"
  BY <1>2 DEF Init
<1> QED BY <1>1, <1>4, <1>8, <1>9 DEF HtcInv, WalkOK

(* A thread that returns, or starts the walk over the queues.              *)
LEMMA ThreadReturns ==
    ASSUME th \in [Thread -> ThState], WalkOK(th), NEW t \in Thread, Return(t) \/ StartWalk(t)
    PROVE  th' \in [Thread -> ThState] /\ WalkOK(th')
<1>3. th[t] \in ThState /\ th[t].walk \in 0 .. 5
  BY DEF ThState
<1>4. PICK r \in ThState : th' = [th EXCEPT ![t] = r] /\ (r.pc = "walk" => r.walk \in 1 .. 5)
  <2>1. CASE Return(t)
    <3>1. CASE th[t].walk = 0
      BY <2>1, <3>1, ThIdleType DEF Return
    <3>2. CASE th[t].walk # 0
      <4>1. th[t].walk \in 1 .. 5
        BY <1>3, <3>2
      <4> QED BY <2>1, <3>2, <4>1, WalkAtType DEF Return
    <3> QED BY <3>1, <3>2
  <2>2. CASE StartWalk(t)
    <3>1. 1 \in 1 .. 5
      OBVIOUS
    <3>2. WalkAt(1) \in ThState /\ WalkAt(1).walk = 1
      BY <3>1, WalkAtType
    <3>3. th' = [th EXCEPT ![t] = WalkAt(1)]
      BY <2>2 DEF StartWalk
    <3> QED BY <3>1, <3>2, <3>3
  <2> QED BY <2>1, <2>2
<1> QED BY <1>4 DEF WalkOK

(* A thread changes to a state of its type.                                *)
LEMMA ThreadMoves ==
    ASSUME th \in [Thread -> ThState], WalkOK(th), NEW t \in Thread, NEW r \in ThState,
           th' = [th EXCEPT ![t] = r], r.pc = "walk" => r.walk \in 1 .. 5
    PROVE  th' \in [Thread -> ThState] /\ WalkOK(th')
BY DEF WalkOK

(* The credit state after credits came back.                               *)
LEMMA BackKeeps ==
    ASSUME Sound(cr), LowPriority \subseteq active, NEW toDist \in [Ep -> Nat], NEW d
    PROVE  Sound(SendComplete(cr, toDist, Idle(Ep \ active, d)))
<1>1. Idle(Ep \ active, d) \cap LowPriority = {}
  BY DEF Idle
<1> QED BY <1>1, SendCompleteAdds

(* Packets are numbers; the head of a queue of packets is one.             *)
LEMMA PktType == Pkt \subseteq Nat /\ \A q \in Seq(Pkt) : q # <<>> => Head(q) \in Pkt
BY CreditAssumption DEF Pkt

(* The queue depths counted before a distribution are numbers.             *)
LEMMA DepthAfterType ==
    ASSUME TypeOK, NEW S PROVE DepthAfter(S) \in [Ep -> Nat]
BY DEF DepthAfter, TypeOK

(* HTCSendPkt keeps the invariant.                                         *)
LEMMA SendPktKeeps ==
    ASSUME HtcInv, NEW t \in Thread, NEW e \in Ep, NEW c \in 1 .. PerMaxMsg, SendPkt(t, e, c)
    PROVE  HtcInv'
<1>1. th' \in [Thread -> ThState] /\ WalkOK(th')
  <2>1. ThAt("enter", e, c, 0) \in ThState /\ ThAt("enter", e, c, 0).pc = "enter"
    <3>1. c \in Pkt \cup {NoPkt} /\ 0 \in 0 .. 5
      BY DEF Pkt
    <3> QED BY <3>1, ThAtType
  <2>2. CASE th' = [th EXCEPT ![t] = ThAt("enter", e, c, 0)]
    BY <2>1, <2>2, ThreadMoves DEF HtcInv, TypeOK
  <2>3. CASE UNCHANGED th
    BY <2>3 DEF HtcInv, TypeOK, WalkOK
  <2> QED BY <2>2, <2>3 DEF SendPkt
<1>2. given' \in [Ep -> Nat]
  BY DEF SendPkt, HtcInv, TypeOK
<1> QED BY <1>1, <1>2 DEF SendPkt, HtcInv, TypeOK

(* Entering HTCTrySend keeps the invariant.                                *)
LEMMA EnterKeeps ==
    ASSUME HtcInv, NEW t \in Thread, Enter(t)
    PROVE  HtcInv'
<1> DEFINE e == th[t].ep
<1>1. th[t] \in ThState /\ e \in Ep /\ th[t].pkt \in Pkt \cup {NoPkt}
  BY DEF HtcInv, TypeOK, ThState
<1>2. TxQueue' \in [Ep -> Seq(Pkt)]
  <2>1. CASE th[t].pkt = NoPkt
    BY <2>1 DEF Enter, HtcInv, TypeOK
  <2>2. CASE th[t].pkt # NoPkt
    <3>1. th[t].pkt \in Pkt /\ TxQueue' = [TxQueue EXCEPT ![e] = Append(@, th[t].pkt)]
      BY <1>1, <2>2 DEF Enter
    <3> QED BY <1>1, <3>1 DEF HtcInv, TypeOK
  <2> QED BY <2>1, <2>2
<1>3. th' \in [Thread -> ThState] /\ WalkOK(th') /\ busy' \subseteq Ep /\ lock' \in Thread \cup {NoThread}
  <2>1. CASE MayDrain(e)
    <3>1. busy' = busy \cup {e} /\ lock' = t /\ th' = [th EXCEPT ![t].pc = "get", ![t].pkt = NoPkt]
      BY <2>1 DEF Enter
    <3>2. th' \in [Thread -> ThState] /\ th'[t].pc = "get" /\ \A u \in Thread : u # t => th'[u] = th[u]
      BY <1>1, <3>1 DEF HtcInv, TypeOK, ThState
    <3> QED BY <1>1, <3>1, <3>2 DEF HtcInv, TypeOK, WalkOK
  <2>2. CASE ~MayDrain(e)
    BY <2>2, ThreadReturns DEF Enter, HtcInv, TypeOK
  <2> QED BY <2>1, <2>2
<1> QED BY <1>2, <1>3 DEF Enter, HtcInv, TypeOK

(* Taking a packet, with the credits paid and sought, keeps it.            *)
LEMMA GetPacketKeeps ==
    ASSUME HtcInv, NEW t \in Thread, GetPacket(t)
    PROVE  HtcInv'
<1> DEFINE e == th[t].ep
           need == Head(TxQueue[e])
<1>1. th[t] \in ThState /\ e \in Ep
  BY DEF HtcInv, TypeOK, ThState
<1>2. need \in Pkt /\ need \in Nat
  BY <1>1, PktType DEF GetPacket, HtcInv, TypeOK
<1>3. Sound(cr')
  <2>1. Sound(Sought(e, need))
    BY <1>1, <1>2, SoughtKeeps DEF HtcInv
  <2>2. Sought(e, need).tx[e] >= need /\ cr' = Paid(Sought(e, need), e, need)
    BY DEF GetPacket
  <2> HIDE DEF e, need
  <2> QED BY <1>1, <1>2, <2>1, <2>2, PaidKeeps
<1>4. TxQueue' \in [Ep -> Seq(Pkt)] /\ SeqNo' \in [Ep -> Nat]
  <2>1. TxQueue' = [TxQueue EXCEPT ![e] = Tail(@)] /\ SeqNo' = [SeqNo EXCEPT ![e] = @ + 1]
    BY DEF GetPacket
  <2>2. Tail(TxQueue[e]) \in Seq(Pkt)
    BY <1>1 DEF GetPacket, HtcInv, TypeOK
  <2> HIDE DEF e
  <2> QED BY <1>1, <2>1, <2>2 DEF HtcInv, TypeOK
<1>5. th' \in [Thread -> ThState] /\ WalkOK(th')
  <2>1. th' = [th EXCEPT ![t].q = Append(@, <<SeqNo[e] + 1, need>>)] /\ th[t].pc = "get"
    BY DEF GetPacket
  <2>2. <<SeqNo[e] + 1, need>> \in Nat \X Pkt
    BY <1>1, <1>2 DEF HtcInv, TypeOK
  <2>3. th[t].q \in Seq(Nat \X Pkt) /\ Append(th[t].q, <<SeqNo[e] + 1, need>>) \in Seq(Nat \X Pkt)
    BY <1>1, <2>2 DEF ThState
  <2> HIDE DEF e, need
  <2>4. th' \in [Thread -> ThState] /\ th'[t].pc = "get" /\ \A u \in Thread : u # t => th'[u] = th[u]
    BY <1>1, <2>1, <2>3 DEF HtcInv, TypeOK, ThState
  <2> QED BY <2>4 DEF HtcInv, WalkOK
<1>6. cr' \in CreditState
  BY <1>3 DEF Sound
<1> QED BY <1>3, <1>4, <1>5, <1>6 DEF GetPacket, HtcInv, TypeOK

(* Finding nothing to send keeps it.                                       *)
LEMMA GetDoneKeeps ==
    ASSUME HtcInv, NEW t \in Thread, GetDone(t)
    PROVE  HtcInv'
<1> DEFINE e == th[t].ep
<1>1. th[t] \in ThState /\ e \in Ep
  BY DEF HtcInv, TypeOK, ThState
<1>2. Sound(cr') /\ cr' \in CreditState
  <2>1. CASE TxQueue[e] = <<>>
    BY <2>1 DEF GetDone, HtcInv, Sound
  <2>2. CASE TxQueue[e] # <<>>
    <3>1. Head(TxQueue[e]) \in Nat
      BY <1>1, <2>2, PktType DEF HtcInv, TypeOK
    <3>2. cr' = Sought(e, Head(TxQueue[e]))
      BY <2>2 DEF GetDone
    <3> QED BY <1>1, <3>1, <3>2, SoughtKeeps DEF HtcInv, Sound
  <2> QED BY <2>1, <2>2
<1>3. th' \in [Thread -> ThState] /\ WalkOK(th') /\ busy' \subseteq Ep
  <2>1. CASE th[t].q # <<>>
    <3>1. th' = [th EXCEPT ![t].pc = "issue"] /\ busy' = busy
      BY <2>1 DEF GetDone
    <3>2. th' \in [Thread -> ThState] /\ th'[t].pc = "issue" /\ \A u \in Thread : u # t => th'[u] = th[u]
      BY <1>1, <3>1 DEF HtcInv, TypeOK, ThState
    <3> QED BY <3>1, <3>2 DEF HtcInv, TypeOK, WalkOK
  <2>2. CASE th[t].q = <<>>
    <3>1. Return(t) /\ busy' = busy \ {e}
      BY <2>2 DEF GetDone
    <3> QED BY <3>1, ThreadReturns DEF HtcInv, TypeOK
  <2> QED BY <2>1, <2>2
<1> QED BY <1>2, <1>3 DEF GetDone, HtcInv, TypeOK

(* Handing a packet to the device keeps it.                                *)
LEMMA IssueSendKeeps ==
    ASSUME HtcInv, NEW t \in Thread, IssueSend(t)
    PROVE  HtcInv'
<1> DEFINE e == th[t].ep
           pkt == Head(th[t].q)
<1>1. th[t] \in ThState /\ e \in Ep /\ th[t].q \in Seq(Nat \X Pkt) /\ th[t].q # <<>>
  BY DEF IssueSend, HtcInv, TypeOK, ThState
<1>2. pkt \in Nat \X Pkt /\ Tail(th[t].q) \in Seq(Nat \X Pkt)
  BY <1>1
<1>3. pkt[1] \in Nat /\ pkt[2] \in Pkt
  BY <1>2
<1>4. issued' = [issued EXCEPT ![e] = pkt[1]] /\ dev' = [dev EXCEPT ![e] = Append(@, pkt[2])]
  BY DEF IssueSend
<1>5. issued' \in [Ep -> Nat] /\ dev' \in [Ep -> Seq(Pkt)]
  <2> HIDE DEF e, pkt
  <2> QED BY <1>1, <1>3, <1>4 DEF HtcInv, TypeOK
<1>6. th' \in [Thread -> ThState] /\ WalkOK(th')
  <2>1. th' = [th EXCEPT ![t].q = Tail(@)] /\ th[t].pc = "issue"
    BY DEF IssueSend
  <2>2. th' \in [Thread -> ThState] /\ th'[t].pc = "issue" /\ \A u \in Thread : u # t => th'[u] = th[u]
    BY <1>1, <1>2, <2>1 DEF HtcInv, TypeOK, ThState
  <2> QED BY <2>2 DEF HtcInv, WalkOK
<1> QED BY <1>5, <1>6 DEF IssueSend, HtcInv, TypeOK

(* Going on draining keeps it.                                             *)
LEMMA DrainOnKeeps ==
    ASSUME HtcInv, NEW t \in Thread, DrainOn(t)
    PROVE  HtcInv'
<1>1. th[t] \in ThState /\ th' = [th EXCEPT ![t].pc = "get"]
  BY DEF DrainOn, HtcInv, TypeOK
<1>2. th' \in [Thread -> ThState] /\ th'[t].pc = "get" /\ \A u \in Thread : u # t => th'[u] = th[u]
  BY <1>1 DEF HtcInv, TypeOK, ThState
<1>3. WalkOK(th')
  BY <1>2 DEF HtcInv, WalkOK
<1> QED BY <1>2, <1>3 DEF DrainOn, HtcInv, TypeOK

(* A completed send keeps it.                                              *)
LEMMA SendOkKeeps ==
    ASSUME HtcInv, NEW e \in Ep, SendOk(e)
    PROVE  HtcInv'
<1>1. Head(dev[e]) \in Nat /\ Tail(dev[e]) \in Seq(Pkt)
  <2>1. dev[e] \in Seq(Pkt) /\ dev[e] # <<>>
    BY DEF SendOk, HtcInv, TypeOK
  <2>2. Tail(dev[e]) \in Seq(Pkt)
    BY <2>1
  <2>3. Head(dev[e]) \in Pkt
    BY <2>1, PktType
  <2> QED BY <2>2, <2>3, PktType
<1>2. dev' \in [Ep -> Seq(Pkt)] /\ target' \in [Ep -> Nat]
  BY <1>1 DEF SendOk, HtcInv, TypeOK
<1> QED BY <1>2 DEF SendOk, HtcInv, TypeOK

(* A failed send, which gives its credits back, keeps it.                  *)
LEMMA SendFailedKeeps ==
    ASSUME HtcInv, NEW e \in Ep, SendFailed(e)
    PROVE  HtcInv'
<1> DEFINE toDist == [x \in Ep |-> IF x = e THEN Head(dev[e]) ELSE 0]
<1>1. Head(dev[e]) \in Nat /\ Tail(dev[e]) \in Seq(Pkt)
  <2>1. dev[e] \in Seq(Pkt) /\ dev[e] # <<>>
    BY DEF SendFailed, HtcInv, TypeOK
  <2>2. Tail(dev[e]) \in Seq(Pkt)
    BY <2>1
  <2>3. Head(dev[e]) \in Pkt
    BY <2>1, PktType
  <2> QED BY <2>2, <2>3, PktType
<1>2. dev' \in [Ep -> Seq(Pkt)] /\ depth' \in [Ep -> Nat] /\ unchecked' \in BOOLEAN
  BY <1>1, DepthAfterType DEF SendFailed, HtcInv, TypeOK
<1>3. Sound(cr')
  <2>1. toDist \in [Ep -> Nat]
    BY <1>1
  <2>2. cr' = SendComplete(cr, toDist, Idle(Ep \ active, depth'))
    BY DEF SendFailed
  <2> HIDE DEF toDist
  <2> QED BY <2>1, <2>2, BackKeeps DEF HtcInv
<1>4. cr' \in CreditState
  BY <1>3 DEF Sound
<1> QED BY <1>2, <1>3, <1>4 DEF SendFailed, HtcInv, TypeOK

(* A credit report of the target keeps it.                                 *)
LEMMA ProcessCreditRptKeeps ==
    ASSUME HtcInv, NEW t \in Thread, NEW S, ProcessCreditRpt(t, S)
    PROVE  HtcInv'
<1> DEFINE toDist == [e \in Ep |-> IF e \in S THEN target[e] ELSE 0]
<1>1. target' \in [Ep -> Nat] /\ depth' \in [Ep -> Nat] /\ unchecked' \in BOOLEAN
  BY DepthAfterType DEF ProcessCreditRpt, HtcInv, TypeOK
<1>2. Sound(cr')
  <2>1. toDist \in [Ep -> Nat]
    BY DEF HtcInv, TypeOK
  <2>2. cr' = SendComplete(cr, toDist, Idle(Ep \ active, depth'))
    BY DEF ProcessCreditRpt
  <2> HIDE DEF toDist
  <2> QED BY <2>1, <2>2, BackKeeps DEF HtcInv
<1>3. cr' \in CreditState
  BY <1>2 DEF Sound
<1>4. th' \in [Thread -> ThState] /\ WalkOK(th')
  BY ThreadReturns DEF ProcessCreditRpt, HtcInv, TypeOK
<1> QED BY <1>1, <1>2, <1>3, <1>4 DEF ProcessCreditRpt, HtcInv, TypeOK

(* The walk over the endpoints keeps it.                                   *)
LEMMA CheckTxQueueKeeps ==
    ASSUME HtcInv, NEW t \in Thread, CheckTxQueue(t)
    PROVE  HtcInv'
<1> DEFINE e == Svc[th[t].walk]
           next == (th[t].walk + 1) % 6
           r == IF TxQueue[e] # <<>> THEN ThAt("enter", e, NoPkt, next)
                ELSE IF next = 0 THEN ThIdle ELSE WalkAt(next)
<1>1. th[t].walk \in 1 .. 5
  BY DEF CheckTxQueue, HtcInv, WalkOK
<1>2. e \in Ep
  BY <1>1 DEF Svc, Ep
<1>3. next \in 0 .. 5
  BY <1>1
<1>4. th' = [th EXCEPT ![t] = r]
  BY DEF CheckTxQueue
<1>5. r \in ThState /\ (r.pc = "walk" => r.walk \in 1 .. 5)
  <2> HIDE DEF e, next
  <2>1. CASE TxQueue[e] # <<>>
    BY <1>2, <1>3, <2>1, ThAtType
  <2>2. CASE TxQueue[e] = <<>> /\ next = 0
    BY <2>2, ThIdleType
  <2>3. CASE TxQueue[e] = <<>> /\ next # 0
    <3>1. next \in 1 .. 5
      BY <1>3, <2>3
    <3> QED BY <2>3, <3>1, WalkAtType
  <2> QED BY <2>1, <2>2, <2>3
<1>6. th' \in [Thread -> ThState] /\ WalkOK(th')
  <2> HIDE DEF r
  <2> QED BY <1>4, <1>5, ThreadMoves DEF HtcInv, TypeOK
<1> QED BY <1>6 DEF CheckTxQueue, HtcInv, TypeOK

(* An activity change, which redistributes, keeps it.                      *)
LEMMA ActivityChangeKeeps ==
    ASSUME HtcInv, NEW t \in Thread, NEW e \in Ep, ActivityChange(t, e)
    PROVE  HtcInv'
<1>1. active' \subseteq Ep /\ LowPriority \subseteq active'
  BY DEF ActivityChange, HtcInv, TypeOK, LowPriority, Ep
<1>2. Sound(cr')
  <2>1. (Ep \ active') \cap LowPriority = {}
    BY <1>1
  <2> QED BY <2>1, RedistributeKeeps DEF ActivityChange, HtcInv
<1>3. cr' \in CreditState
  BY <1>2 DEF Sound
<1>4. depth' \in [Ep -> Nat] /\ unchecked' \in BOOLEAN
  BY DepthAfterType DEF ActivityChange, HtcInv, TypeOK
<1>5. th' \in [Thread -> ThState] /\ WalkOK(th')
  <2>1. CASE e \in active
    BY <2>1, ThreadReturns DEF ActivityChange, HtcInv, TypeOK
  <2>2. CASE e \notin active
    BY <2>2 DEF ActivityChange, HtcInv, TypeOK, WalkOK
  <2> QED BY <2>1, <2>2
<1> QED BY <1>1, <1>2, <1>3, <1>4, <1>5 DEF ActivityChange, HtcInv, TypeOK

(* Flushing an endpoint keeps it.                                          *)
LEMMA FlushKeeps ==
    ASSUME HtcInv, NEW e \in Ep, NEW n \in 0 .. Len(TxQueue[e]) - 1,
           NEW kept \in Places(TxQueue[e], n), FlushEndpointTX(e, n, kept)
    PROVE  HtcInv'
<1> DEFINE q == [i \in 1 .. n |-> TxQueue[e][kept[i]]]
<1>1. TxQueue[e] \in Seq(Pkt) /\ n \in Nat
  BY DEF HtcInv, TypeOK
<1>2. \A i \in 1 .. n : kept[i] \in DOMAIN TxQueue[e]
  BY DEF Places
<1>3. \A i \in 1 .. n : TxQueue[e][kept[i]] \in Pkt
  BY <1>1, <1>2
<1>4. q \in Seq(Pkt)
  BY <1>1, <1>3
<1>5. TxQueue' = [TxQueue EXCEPT ![e] = q]
  BY DEF FlushEndpointTX
<1>6. TxQueue' \in [Ep -> Seq(Pkt)]
  <2> HIDE DEF q
  <2> QED BY <1>4, <1>5 DEF HtcInv, TypeOK
<1> QED BY <1>6 DEF FlushEndpointTX, HtcInv, TypeOK

(* Every step keeps the invariant.                                         *)
LEMMA HtcInvNext == HtcInv /\ [Next]_vars => HtcInv'
<1> SUFFICES ASSUME HtcInv, [Next]_vars PROVE HtcInv'
  OBVIOUS
<1>1. ASSUME NEW t \in Thread, Step(t) PROVE HtcInv'
  BY <1>1, EnterKeeps, GetPacketKeeps, GetDoneKeeps, IssueSendKeeps, DrainOnKeeps, CheckTxQueueKeeps DEF Step
<1>2. CASE UNCHANGED vars
  BY <1>2 DEF vars, HtcInv, TypeOK, WalkOK
<1> QED BY <1>1, <1>2, SendPktKeeps, ProcessCreditRptKeeps, ActivityChangeKeeps, SendOkKeeps,
           SendFailedKeeps, FlushKeeps DEF Next

(* Whatever the other endpoints seek, BE and BK keep the limit of one      *)
(* message: SeekCredits stops at the minimum and RedistributeCredits never *)
(* sees them inactive.  For every number of credits above the ones that    *)
(* ar6000_credit_init hands out, and any number of threads.                *)
THEOREM MinKeptAlways == Spec => []MinKept
<1>1. HtcInv => MinKept
  BY DEF HtcInv, MinKept, Sound
<1> QED BY <1>1, HtcInvInit, HtcInvNext, PTL DEF Spec

(* No sequence of sends, failures, reports and activity changes overdraws  *)
(* the pool or an endpoint: the second A_ASSERT of                         *)
(* ar6000_credit_distribute cannot fail.                                   *)
THEOREM NobodyOverdrawn == Spec => []InCredit(cr)
<1>1. HtcInv => InCredit(cr)
  BY DEF HtcInv, Sound
<1> QED BY <1>1, HtcInvInit, HtcInvNext, PTL DEF Spec
=============================================================================
