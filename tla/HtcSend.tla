------------------------------ MODULE HtcSend ------------------------------
(***************************************************************************)
(* The transmit half of the host-target communication layer,               *)
(* wifi/AR6kSDK/host/htc2/htc_send.c, over the credits of HtcCredits.      *)
(*                                                                         *)
(* Threads of the driver send packets, process credit reports and change   *)
(* the activity of endpoints.  A section under LOCK_HTC_TX without a loop  *)
(* is one step; GetHTCSendPackets takes one packet a step while its thread *)
(* holds the lock.  A packet is the credits it costs, and from the moment  *)
(* it is taken for sending also its SeqNo.  Endpoint 0 (set-up messages)   *)
(* has credits of its own and is left out.                                 *)
(***************************************************************************)
EXTENDS HtcCredits, Sequences, FiniteSets, SequencesExt

CONSTANTS Thread,      \* threads that call into HTC
          MaxPkts,     \* bound: packets sent on each endpoint
          MaxTxQueueDepth,
          NoThread     \* the lock is free

NoPkt == 0
Pkt == 1 .. PerMaxMsg

VARIABLES cr,        \* credits (see HtcCredits)
          depth,     \* CreditDist.TxQueueDepth, refreshed now and then
          active,    \* endpoints with HTC_EP_ACTIVE
          TxQueue,
          busy,      \* endpoints with TxProcessCount = 1
          lock,      \* holder of LOCK_HTC_TX while it drains
          th,        \* the threads
          given,     \* packets handed to HTCSendPkt so far
          SeqNo,     \* number of the last packet taken for sending
          issued,    \* number of the last packet handed to the device layer
          dev,       \* credits of packets in the device layer
          target,    \* credits of messages in the target
          unchecked  \* credits came back and no queue has been looked at since

vars == <<cr, depth, active, TxQueue, busy, lock, th, given, SeqNo, issued, dev, target, unchecked>>

ThAt(pc, e, pkt, walk) == [pc |-> pc, ep |-> e, pkt |-> pkt, q |-> <<>>, walk |-> walk]
ThIdle == ThAt("idle", "CTRL", NoPkt, 0)
WalkAt(w) == ThAt("walk", "CTRL", NoPkt, w)

ThState == [pc : {"idle", "enter", "get", "issue", "walk"}, ep : Ep, pkt : Pkt \cup {NoPkt},
            q : Seq(Nat \X Pkt), walk : 0 .. 5]

TypeOK ==
    /\ cr \in CreditState
    /\ depth \in [Ep -> Nat] /\ active \subseteq Ep /\ busy \subseteq Ep
    /\ TxQueue \in [Ep -> Seq(Pkt)]
    /\ lock \in Thread \cup {NoThread}
    /\ th \in [Thread -> ThState]
    /\ given \in [Ep -> Nat] /\ SeqNo \in [Ep -> Nat] /\ issued \in [Ep -> Nat]
    /\ dev \in [Ep -> Seq(Pkt)] /\ target \in [Ep -> Nat] /\ unchecked \in BOOLEAN

Init ==
    /\ cr = CreditInit
    /\ depth = [e \in Ep |-> 0] /\ active = ActiveAtInit
    /\ TxQueue = [e \in Ep |-> <<>>] /\ busy = {} /\ lock = NoThread
    /\ th = [t \in Thread |-> ThIdle]
    /\ given = [e \in Ep |-> 0] /\ SeqNo = given /\ issued = given
    /\ dev = TxQueue /\ target = given
    /\ unchecked = FALSE

(* The inactive endpoints credit_dist.c believes to have nothing to send,  *)
(* after the depths of the endpoints in S were refreshed.                  *)
DepthAfter(S) == [e \in Ep |-> IF e \in S THEN Len(TxQueue[e]) ELSE depth[e]]
Idle(inactive, d) == {e \in inactive : d[e] = 0}

(* HTCTrySend returns: to HTCCheckEndpointTxQueues if it was called there. *)
Return(t) == th' = [th EXCEPT ![t] = IF @.walk = 0 THEN ThIdle ELSE WalkAt(@.walk)]
(* HTCCheckEndpointTxQueues is called.  Mutant: it is not.                 *)
NoWalk(t) == UNCHANGED th
StartWalk(t) == th' = [th EXCEPT ![t] = WalkAt(1)]
-----------------------------------------------------------------------------
(* HTCSendPkt up to the lock: the overflow test reads the queue unlocked;  *)
(* the send-full callback drops or keeps the packet.                       *)
SendPkt(t, e, c) ==
    /\ th[t].pc = "idle"
    /\ given[e] < MaxPkts[e]
    /\ given' = [given EXCEPT ![e] = @ + 1]
    /\ \/ th' = [th EXCEPT ![t] = ThAt("enter", e, c, 0)]
       \/ Len(TxQueue[e]) >= MaxTxQueueDepth /\ UNCHANGED th
    /\ UNCHANGED <<cr, depth, active, TxQueue, busy, lock, SeqNo, issued, dev, target, unchecked>>

(* Under the lock: queue the packet; drain unless another thread does.     *)
(* Mutant: nobody looks whether another thread drains.                     *)
AlwaysDrain(e) == TRUE
MayDrain(e) == e \notin busy
Enter(t) ==
    /\ th[t].pc = "enter" /\ lock = NoThread
    /\ LET e == th[t].ep
       IN  /\ TxQueue' = IF th[t].pkt = NoPkt THEN TxQueue
                         ELSE [TxQueue EXCEPT ![e] = Append(@, th[t].pkt)]
           /\ \/ /\ MayDrain(e)
                 /\ busy' = busy \cup {e} /\ lock' = t
                 /\ th' = [th EXCEPT ![t].pc = "get", ![t].pkt = NoPkt]
              \/ /\ ~MayDrain(e)
                 /\ Return(t)
                 /\ UNCHANGED <<busy, lock>>
    /\ UNCHANGED <<cr, depth, active, given, SeqNo, issued, dev, target, unchecked>>

(* GetHTCSendPackets looks for credits: what the endpoint has, or more     *)
(* from the distribution function.                                         *)
Sought(e, need) == IF cr.tx[e] < need THEN SeekCredits(cr, e, need - cr.tx[e]) ELSE cr
(* Having paid, an endpoint that runs low asks for the next message.       *)
Paid(c, e, need) ==
    LET c1 == [c EXCEPT !.tx[e] = @ - need]
    IN  IF c1.tx[e] < PerMaxMsg THEN SeekCredits(c1, e, PerMaxMsg - c1.tx[e]) ELSE c1

GetPacket(t) ==
    /\ th[t].pc = "get" /\ TxQueue[th[t].ep] # <<>>
    /\ LET e == th[t].ep
           need == Head(TxQueue[e])
       IN  /\ Sought(e, need).tx[e] >= need
           /\ cr' = Paid(Sought(e, need), e, need)
           /\ TxQueue' = [TxQueue EXCEPT ![e] = Tail(@)]
           /\ SeqNo' = [SeqNo EXCEPT ![e] = @ + 1]
           /\ th' = [th EXCEPT ![t].q = Append(@, <<SeqNo[e] + 1, need>>)]
    /\ UNCHANGED <<depth, active, busy, lock, given, issued, dev, target, unchecked>>

(* The queue is empty or the credits do not suffice: send what was taken,  *)
(* or give up draining.                                                    *)
GetDone(t) ==
    /\ th[t].pc = "get"
    /\ LET e == th[t].ep
           c == IF TxQueue[e] = <<>> THEN cr ELSE Sought(e, Head(TxQueue[e]))
       IN  /\ TxQueue[e] # <<>> => c.tx[e] < Head(TxQueue[e])
           /\ cr' = c
           /\ lock' = NoThread
           /\ \/ /\ th[t].q # <<>>
                 /\ th' = [th EXCEPT ![t].pc = "issue"]
                 /\ UNCHANGED busy
              \/ /\ th[t].q = <<>>
                 /\ busy' = busy \ {e}
                 /\ Return(t)
    /\ UNCHANGED <<depth, active, TxQueue, given, SeqNo, issued, dev, target, unchecked>>

(* HTCIssueSend, or a packet of HTCIssueSendBundle: without the lock.      *)
IssueSend(t) ==
    /\ th[t].pc = "issue" /\ th[t].q # <<>>
    /\ LET e == th[t].ep
           pkt == Head(th[t].q)
       IN  /\ issued' = [issued EXCEPT ![e] = pkt[1]]
           /\ dev' = [dev EXCEPT ![e] = Append(@, pkt[2])]
    /\ th' = [th EXCEPT ![t].q = Tail(@)]
    /\ UNCHANGED <<cr, depth, active, TxQueue, busy, lock, given, SeqNo, target, unchecked>>

(* All issued: back under the lock for what was queued meanwhile.          *)
DrainOn(t) ==
    /\ th[t].pc = "issue" /\ th[t].q = <<>> /\ lock = NoThread
    /\ lock' = t
    /\ th' = [th EXCEPT ![t].pc = "get"]
    /\ UNCHANGED <<cr, depth, active, TxQueue, busy, given, SeqNo, issued, dev, target, unchecked>>
-----------------------------------------------------------------------------
(* HTCSendPktCompletionHandler after a write that worked: the packet goes  *)
(* to its owner, its credits are with the target.                          *)
SendOk(e) ==
    /\ dev[e] # <<>>
    /\ dev' = [dev EXCEPT ![e] = Tail(@)]
    /\ target' = [target EXCEPT ![e] = @ + Head(dev[e])]
    /\ UNCHANGED <<cr, depth, active, TxQueue, busy, lock, th, given, SeqNo, issued, unchecked>>

(* CompleteSentPacket after a failed write: the credits are reclaimed; the *)
(* queues are not looked at.                                               *)
SendFailed(e) ==
    /\ dev[e] # <<>> /\ lock = NoThread
    /\ dev' = [dev EXCEPT ![e] = Tail(@)]
    /\ depth' = DepthAfter({e})
    /\ cr' = SendComplete(cr, [x \in Ep |-> IF x = e THEN Head(dev[e]) ELSE 0], Idle(Ep \ active, depth'))
    /\ unchecked' = TRUE
    /\ UNCHANGED <<active, TxQueue, busy, lock, th, given, SeqNo, issued, target>>

(* HTCProcessCreditRpt: the target reports the credits of the endpoints in *)
(* S; then HTCCheckEndpointTxQueues.                                       *)
ProcessCreditRpt(t, S) ==
    /\ th[t].pc = "idle" /\ lock = NoThread
    /\ depth' = DepthAfter(S)
    /\ cr' = SendComplete(cr, [e \in Ep |-> IF e \in S THEN target[e] ELSE 0], Idle(Ep \ active, depth'))
    /\ target' = [e \in Ep |-> IF e \in S THEN 0 ELSE target[e]]
    /\ StartWalk(t)
    /\ unchecked' = FALSE
    /\ UNCHANGED <<active, TxQueue, busy, lock, given, SeqNo, issued, dev>>

(* HTCCheckEndpointTxQueues, one entry of the distribution list a step.    *)
CheckTxQueue(t) ==
    /\ th[t].pc = "walk"
    /\ LET e == Svc[th[t].walk]
           next == (th[t].walk + 1) % 6
       IN  th' = [th EXCEPT ![t] =
                     IF TxQueue[e] # <<>> THEN ThAt("enter", e, NoPkt, next)
                     ELSE IF next = 0 THEN ThIdle ELSE WalkAt(next)]
    /\ UNCHANGED <<cr, depth, active, TxQueue, busy, lock, given, SeqNo, issued, dev, target, unchecked>>

(* HTCIndicateActivityChange; RedistributeCredits forces the low-priority  *)
(* services active again.                                                  *)
ActivityChange(t, e) ==
    /\ th[t].pc = "idle" /\ lock = NoThread
    /\ depth' = DepthAfter({e})
    /\ active' = (IF e \in active THEN active \ {e} ELSE active \cup {e}) \cup LowPriority
    /\ cr' = Redistribute(cr, Ep \ active', Idle(Ep \ active', depth'))
    /\ IF e \in active THEN StartWalk(t) /\ unchecked' = FALSE
                       ELSE UNCHANGED <<th, unchecked>>
    /\ UNCHANGED <<TxQueue, busy, lock, given, SeqNo, issued, dev, target>>

(* HTCFlushEndpointTX: the packets with the tag are handed back; kept are  *)
(* the places of the others, in order.                                     *)
Places(q, n) == {f \in [1 .. n -> DOMAIN q] : \A i, j \in 1 .. n : i < j => f[i] < f[j]}
FlushEndpointTX(e, n, kept) ==
    /\ lock = NoThread
    /\ TxQueue' = [TxQueue EXCEPT ![e] = [i \in 1 .. n |-> TxQueue[e][kept[i]]]]
    /\ UNCHANGED <<cr, depth, active, busy, lock, th, given, SeqNo, issued, dev, target, unchecked>>

Step(t) == Enter(t) \/ GetPacket(t) \/ GetDone(t) \/ IssueSend(t) \/ DrainOn(t) \/ CheckTxQueue(t)

Next ==
    \/ \E t \in Thread : Step(t)
    \/ \E t \in Thread, e \in Ep, c \in 1 .. PerMaxMsg : SendPkt(t, e, c)
    \/ \E t \in Thread, S \in SUBSET {e \in Ep : target[e] > 0} : S # {} /\ ProcessCreditRpt(t, S)
    \/ \E t \in Thread, e \in Ep \ {"CTRL"} : ActivityChange(t, e)
    \/ \E e \in Ep : SendOk(e) \/ SendFailed(e)
    \/ \E e \in Ep : \E n \in 0 .. Len(TxQueue[e]) - 1 :
           \E kept \in Places(TxQueue[e], n) : FlushEndpointTX(e, n, kept)

Spec == Init /\ [][Next]_vars
-----------------------------------------------------------------------------
(* Credits of the packets that are on their way: taken by a thread, in the *)
(* device layer, or in the target.                                         *)
SumOf(q) == FoldLeft(LAMBDA n, c : n + c, 0, q)
InThreads == FoldFunction(LAMBDA r, n : n + SumOf([i \in DOMAIN r.q |-> r.q[i][2]]), 0, th)
OnTheWay == InThreads + Total([e \in Ep |-> SumOf(dev[e]) + target[e]])

(* No credit is lost or made up by sends, failed sends, reports, activity  *)
(* changes and seeks in any order, and nobody spends what is not there;    *)
(* hence the two A_ASSERTs of ar6000_credit_distribute hold.               *)
CreditsConserved ==
    /\ Owned(cr) + OnTheWay = TotalCredits
    /\ InCredit(cr)

(* Packets of an endpoint reach the device layer in the order of their     *)
(* SeqNo although HTCTrySend issues them without the lock: whatever a      *)
(* thread issues next follows the last packet issued.                      *)
IssuedInOrder ==
    \A t \in Thread : th[t].q # <<>> => Head(th[t].q)[1] = issued[th[t].ep] + 1

(* No packet is forgotten in a queue: once every thread has returned and   *)
(* the target owes nothing, the queues are empty, unless the last credits  *)
(* came back through a failed send (HTCTrySend's busy return, CompleteSent-*)
(* Packet, HTCProcessCreditRpt, HTCIndicateActivityChange).                *)
Quiet == /\ \A t \in Thread : th[t].pc = "idle"
         /\ \A e \in Ep : dev[e] = <<>> /\ target[e] = 0
NoStall == Quiet /\ ~unchecked => \A e \in Ep : TxQueue[e] = <<>>

(* "Never starve an endpoint completely": whatever the higher priorities   *)
(* seek, BE and BK keep the credits of one message (SeekCredits,           *)
(* RedistributeCredits, HTC_CREDIT_DIST_SEND_COMPLETE).                    *)
MinKept == TypeOK /\ \A e \in LowPriority : cr.assigned[e] >= TxCreditsMin
=============================================================================
