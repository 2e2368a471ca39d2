------------------------------- MODULE AggrRx -------------------------------
(***************************************************************************)
(* The receive reorder buffer of the AR6000 Wi-Fi driver,                  *)
(* wifi/AR6kSDK/host/reorder/rcv_aggr.c.                                   *)
(*                                                                         *)
(* One connection with several traffic identifiers (TIDs).  The receive    *)
(* thread runs aggr_process_recv_frm and the ADDBA, DELBA and connection   *)
(* handlers; the 400 ms timer runs aggr_timeout in a softirq that may cut  *)
(* in between any two steps of the receive thread, but not while that      *)
(* holds the TID's lock.  The phone has one core, so the softirq itself is *)
(* one step.                                                               *)
(*                                                                         *)
(* A frame is its absolute number at the sender; the driver only sees the  *)
(* number modulo SeqSpace.  A-MSDUs are not cut into subframes here.       *)
(***************************************************************************)
EXTENDS Integers, Sequences, FiniteSets, FiniteSetsExt, SequencesExt

CONSTANTS Tid,       \* traffic identifiers in use
          SeqSpace,  \* IEEE80211_MAX_SEQ_NO + 1
          WinSz,     \* win_sz of the ADDBA
          FirstFrame,     \* number of the first frame of every TID
          LastFrame       \* bound: number of the last frame, for each TID

(* TID_WINDOW_SZ: the hold queue is twice the negotiated window.           *)
HoldQSz == 2 * WinSz

ASSUME AggrAssumption ==
    /\ WinSz \in Nat \ {0} /\ FirstFrame \in Nat /\ LastFrame \in [Tid -> Nat]
    /\ SeqSpace \in Nat \ {0} /\ SeqSpace % HoldQSz = 0

NoFrame == -1
Frames(t) == FirstFrame .. LastFrame[t]
Frame == UNION {Frames(t) : t \in Tid}
MaxSeqNo == SeqSpace - 1
Seq11(n) == n % SeqSpace          \* the 802.11 sequence number of a frame
WinIdx(s) == s % HoldQSz
EmptyHold == [i \in 0 .. HoldQSz - 1 |-> NoFrame]

VARIABLES dev,             \* the connection has a net device
          aggr,            \* rxtid->aggr
          seq_next,        \* rxtid->seq_next
          hold_q,          \* rxtid->hold_q[].osbuf
          progress,        \* rxtid->progress
          timerMon,        \* rxtid->timerMon
          timerScheduled,  \* the connection's timer is pending
          rx,              \* the receive thread inside aggr_process_recv_frm
          open,            \* frames the sender may still transmit
          given,           \* frames handed to rx_fn
          late,            \* those handed up after a later frame
          excused          \* frames the sender gave up, a disconnect freed,
                           \* or a flush of the whole window overtook

tidVars == <<aggr, seq_next, hold_q, progress, timerMon>>
vars == <<dev, tidVars, timerScheduled, rx, open, given, late, excused>>

RxIdle == [pc |-> "idle", tid |-> CHOOSE t \in Tid : TRUE, frm |-> NoFrame, to |-> 0]

TypeOK ==
    /\ dev \in BOOLEAN /\ timerScheduled \in BOOLEAN
    /\ aggr \in [Tid -> BOOLEAN] /\ progress \in [Tid -> BOOLEAN] /\ timerMon \in [Tid -> BOOLEAN]
    /\ seq_next \in [Tid -> 0 .. MaxSeqNo]
    /\ hold_q \in [Tid -> [0 .. HoldQSz - 1 -> Frame \cup {NoFrame}]]
    /\ rx \in [pc : {"idle", "flush", "shift", "store", "deque", "arm"}, tid : Tid,
               frm : Frame \cup {NoFrame}, to : 0 .. MaxSeqNo]
    /\ open \in [Tid -> SUBSET Frame] /\ given \in [Tid -> SUBSET Frame]
    /\ late \in [Tid -> SUBSET Frame] /\ excused \in [Tid -> SUBSET Frame]

Init ==
    /\ dev = TRUE /\ timerScheduled = FALSE
    /\ aggr = [t \in Tid |-> FALSE] /\ progress = aggr /\ timerMon = aggr
    /\ seq_next = [t \in Tid |-> 0]
    /\ hold_q = [t \in Tid |-> EmptyHold]
    /\ rx = RxIdle
    /\ open = [t \in Tid |-> Frames(t)] /\ given = [t \in Tid |-> {}]
    /\ late = given /\ excused = given

Held(t) == {hold_q[t][i] : i \in 0 .. HoldQSz - 1} \ {NoFrame}
InHand(t) == IF rx.tid = t /\ rx.pc \in {"flush", "shift", "store"} THEN {rx.frm} ELSE {}
-----------------------------------------------------------------------------
(* aggr_deque_frms walks the ring from the window's start until it meets   *)
(* the slot of seq_no, where 0 stands for "once around".  It always takes  *)
(* one step before it compares.                                            *)
WalkEnd(t, seqNo) == WinIdx(IF seqNo # 0 THEN seqNo ELSE seq_next[t])
WalkLen(t, seqNo) ==
    Min({k \in 1 .. SeqSpace : WinIdx((seq_next[t] + k) % SeqSpace) = WalkEnd(t, seqNo)})
Slot(t, k) == WinIdx((seq_next[t] + k) % SeqSpace)

(* CONTIGUOUS_SEQNO stops at the first hole, ALL_SEQNO passes over holes.  *)
(* Mutant: holes do not stop it.                                           *)
OverHoles(t) == WalkLen(t, 0)
Contiguous(t) ==
    Max({k \in 0 .. WalkLen(t, 0) : \A i \in 0 .. k - 1 : hold_q[t][Slot(t, i)] # NoFrame})

(* The frames in the first k slots, in the order they are dispatched.      *)
Dequeued(t, k) ==
    SelectSeq([i \in 1 .. k |-> hold_q[t][Slot(t, i - 1)]], LAMBDA f : f # NoFrame)
(* Mutant: a dequeued slot keeps its frame.                                *)
HoldKept(t, k) == hold_q[t]
HoldAfter(t, k) ==
    [i \in 0 .. HoldQSz - 1 |-> IF \E j \in 0 .. k - 1 : i = Slot(t, j) THEN NoFrame ELSE hold_q[t][i]]
NextAfter(t, k) == (seq_next[t] + k) % SeqSpace

(* Frames still to come that a walk once around the ring overtakes: the    *)
(* window moves past them, or a later frame is handed up.                  *)
Overtaken(t) ==
    {m \in open[t] : \/ (Seq11(m) - seq_next[t]) % SeqSpace < HoldQSz
                    \/ \E f \in Held(t) : f > m}

(* Frames of a sequence that come after a later one.                       *)
LateIn(frames, before) ==
    {frames[i] : i \in {i \in DOMAIN frames :
        \/ \E m \in before : m > frames[i]
        \/ \E j \in 1 .. i - 1 : frames[j] > frames[i]}}

(* aggr_dispatch_frames hands out[t] to the net device, or frees it when   *)
(* there is none; passed[t] are the frames the walk overtook.              *)
Dispatch(hasDev, out, passed) ==
    /\ given' = [t \in Tid |-> given[t] \cup IF hasDev THEN ToSet(out[t]) ELSE {}]
    /\ late' = [t \in Tid |-> late[t] \cup IF hasDev THEN LateIn(out[t], given[t]) ELSE {}]
    /\ excused' = [t \in Tid |-> excused[t] \cup passed[t] \cup IF hasDev THEN {} ELSE ToSet(out[t])]

(* The same for the first k slots of TID u.                                *)
DispatchOne(u, k, passed) ==
    Dispatch(dev, [t \in Tid |-> IF t = u THEN Dequeued(t, k) ELSE <<>>],
                  [t \in Tid |-> IF t = u THEN passed ELSE {}])
-----------------------------------------------------------------------------
(* The sender: with a block-ack session any frame of its window may be the *)
(* next to arrive, without one only the oldest.  External: the access      *)
(* point and the target's firmware.                                        *)
MayArrive(t, n) ==
    n < Min(open[t]) + (IF aggr[t] THEN WinSz ELSE 1)

GiveUp(t) ==
    /\ rx.pc = "idle" /\ aggr[t] /\ open[t] # {}
    /\ LET n == Min(open[t])
       IN  /\ open' = [open EXCEPT ![t] = @ \ {n}]
           /\ excused' = [excused EXCEPT ![t] = @ \cup {n}]
    /\ UNCHANGED <<dev, tidVars, timerScheduled, rx, given, late>>

(* Window tests of aggr_process_recv_frm, spelled as in the code: from the *)
(* start (or from the end) the interval may wrap around.                   *)
Outside(cur, st, end) ==
    \/ st < end /\ (cur < st \/ cur > end)
    \/ st > end /\ cur > end /\ cur < st

(* The window start that makes cur the last frame of the window.           *)
LastInWindow(cur) ==
    IF cur >= HoldQSz - 1 THEN cur - (HoldQSz - 1) ELSE MaxSeqNo - (HoldQSz - 2 - cur)

(* aggr_process_recv_frm up to the first dequeue: where the frame falls.   *)
RecvFrm(t, n) ==
    /\ rx.pc = "idle" /\ dev
    /\ MayArrive(t, n)
    /\ open' = [open EXCEPT ![t] = @ \ {n}]
    /\ LET cur == Seq11(n)
           st  == seq_next[t]
           end == (st + HoldQSz - 1) % SeqSpace
           extended_end == (end + HoldQSz - 1) % SeqSpace
       IN  IF ~aggr[t]
           THEN /\ Dispatch(TRUE, [u \in Tid |-> IF u = t THEN <<n>> ELSE <<>>], [u \in Tid |-> {}])
                /\ UNCHANGED rx
           ELSE /\ rx' = [pc |-> IF ~Outside(cur, st, end) THEN "store"
                                 ELSE IF Outside(cur, end, extended_end) THEN "flush"
                                 ELSE "shift",
                          tid |-> t, frm |-> n, to |-> LastInWindow(cur)]
                /\ UNCHANGED <<given, late, excused>>
    /\ UNCHANGED <<dev, tidVars, timerScheduled>>

(* The frame is far off: empty the queue, then move the window.            *)
FlushWindow ==
    /\ rx.pc = "flush"
    /\ LET t == rx.tid
       IN  /\ DispatchOne(t, WalkLen(t, 0), Overtaken(t))
           /\ hold_q' = [hold_q EXCEPT ![t] = HoldAfter(t, WalkLen(t, 0))]
           /\ seq_next' = [seq_next EXCEPT ![t] = rx.to]
    /\ rx' = [rx EXCEPT !.pc = "store"]
    /\ UNCHANGED <<dev, aggr, progress, timerMon, timerScheduled, open>>

(* The frame is within a window's length ahead: dequeue up to the new      *)
(* start.  A new start of 0 is taken for "once around".                    *)
ShiftWindow ==
    /\ rx.pc = "shift"
    /\ LET t == rx.tid
           k == WalkLen(t, rx.to)
       IN  /\ DispatchOne(t, k, IF k = HoldQSz THEN Overtaken(t) ELSE {})
           /\ hold_q' = [hold_q EXCEPT ![t] = HoldAfter(t, k)]
           /\ seq_next' = [seq_next EXCEPT ![t] = NextAfter(t, k)]
    /\ rx' = [rx EXCEPT !.pc = "store"]
    /\ UNCHANGED <<dev, aggr, progress, timerMon, timerScheduled, open>>

(* Under the lock: a frame already in the slot is freed, the new one kept. *)
StoreFrame ==
    /\ rx.pc = "store"
    /\ hold_q' = [hold_q EXCEPT ![rx.tid][WinIdx(Seq11(rx.frm))] = rx.frm]
    /\ rx' = [rx EXCEPT !.pc = "deque"]
    /\ UNCHANGED <<dev, aggr, seq_next, progress, timerMon, timerScheduled, open, given, late, excused>>

DequeContiguous ==
    /\ rx.pc = "deque"
    /\ LET t == rx.tid
           k == Contiguous(t)
       IN  /\ DispatchOne(t, k, {})
           /\ hold_q' = [hold_q EXCEPT ![t] = HoldAfter(t, k)]
           /\ seq_next' = [seq_next EXCEPT ![t] = NextAfter(t, k)]
    /\ rx' = [rx EXCEPT !.pc = "arm"]
    /\ UNCHANGED <<dev, aggr, progress, timerMon, timerScheduled, open>>

(* A pending timer is told of the progress; a frame that waits starts one. *)
ArmTimer ==
    /\ rx.pc = "arm"
    /\ LET t == rx.tid
           start == ~timerScheduled /\ Held(t) # {}
       IN  /\ timerScheduled' = (timerScheduled \/ start)
           /\ progress' = [progress EXCEPT ![t] = IF timerScheduled THEN TRUE
                                                  ELSE IF start THEN FALSE ELSE @]
           /\ timerMon' = [timerMon EXCEPT ![t] = @ \/ start]
    /\ rx' = RxIdle
    /\ UNCHANGED <<dev, aggr, seq_next, hold_q, open, given, late, excused>>
-----------------------------------------------------------------------------
(* aggr_timeout: TIDs that made no progress are flushed; the timer runs on *)
(* while any frame is held.                                                *)
Stalled(t) == aggr[t] /\ timerMon[t] /\ ~progress[t]
(* The next run of the timer is asked for while a TID still holds a frame. *)
(* Mutant: only for a TID whose flush is due.                              *)
RearmWatched(t) == aggr[t] /\ timerMon[t] /\ Held(t) # {} /\ ~Stalled(t)
Rearm(t) == aggr[t] /\ ~Stalled(t) /\ Held(t) # {}
Timeout ==
    /\ timerScheduled
    /\ hold_q' = [t \in Tid |-> IF Stalled(t) THEN HoldAfter(t, WalkLen(t, 0)) ELSE hold_q[t]]
    /\ seq_next' = [t \in Tid |-> IF Stalled(t) THEN NextAfter(t, WalkLen(t, 0)) ELSE seq_next[t]]
    /\ Dispatch(dev, [t \in Tid |-> IF Stalled(t) THEN Dequeued(t, WalkLen(t, 0)) ELSE <<>>],
                     [t \in Tid |-> IF ~Stalled(t) THEN {}
                                    ELSE IF InHand(t) # {} THEN Frames(t) ELSE Overtaken(t)])
    /\ timerScheduled' = \E t \in Tid : Rearm(t)
    /\ timerMon' = [t \in Tid |-> IF aggr[t] THEN Rearm(t) ELSE timerMon[t]]
    /\ progress' = [t \in Tid |-> progress[t] /\ ~Rearm(t)]
    /\ UNCHANGED <<dev, aggr, rx, open>>
-----------------------------------------------------------------------------
(* aggr_delete_tid_state for the TIDs of S: a TID with a session hands its *)
(* frames up first.                                                        *)
DeleteTidState(S, hasDev) ==
    LET out == {t \in S : aggr[t]}
    IN  /\ Dispatch(hasDev, [t \in Tid |-> IF t \in out THEN Dequeued(t, WalkLen(t, 0)) ELSE <<>>],
                            [t \in Tid |-> IF t \in out THEN Overtaken(t) ELSE {}])
        /\ hold_q' = [t \in Tid |-> IF t \in S THEN EmptyHold ELSE hold_q[t]]
        /\ progress' = [t \in Tid |-> progress[t] /\ t \notin S]
        /\ timerMon' = [t \in Tid |-> timerMon[t] /\ t \notin S]

(* aggr_recv_addba_req_evt: a running session is ended first; the window   *)
(* starts where the sender stands.  Without memory there is no session.    *)
RecvAddba(t) ==
    /\ rx.pc = "idle" /\ dev /\ open[t] # {}
    /\ DeleteTidState(IF aggr[t] THEN {t} ELSE {}, dev)
    /\ seq_next' = [seq_next EXCEPT ![t] = Seq11(Min(open[t]))]
    /\ \E ok \in BOOLEAN : aggr' = [aggr EXCEPT ![t] = ok]
    /\ UNCHANGED <<dev, timerScheduled, rx, open>>

(* aggr_recv_delba_req_evt.                                                *)
RecvDelba(t) ==
    /\ rx.pc = "idle" /\ aggr[t]
    /\ DeleteTidState({t}, dev)
    /\ aggr' = [aggr EXCEPT ![t] = FALSE]
    /\ seq_next' = [seq_next EXCEPT ![t] = 0]
    /\ UNCHANGED <<dev, timerScheduled, rx, open>>

(* aggr_reset_state on a connect (d) or disconnect (~d) event.             *)
ResetState(d) ==
    /\ rx.pc = "idle"
    /\ dev' = d
    /\ DeleteTidState(Tid, d)
    /\ aggr' = [t \in Tid |-> FALSE]
    /\ seq_next' = [t \in Tid |-> 0]
    /\ UNCHANGED <<timerScheduled, rx, open>>

(* The rest of aggr_process_recv_frm.                                      *)
RxStep == FlushWindow \/ ShiftWindow \/ StoreFrame \/ DequeContiguous \/ ArmTimer

Next ==
    \/ \E t \in Tid : GiveUp(t) \/ RecvAddba(t) \/ RecvDelba(t)
    \/ \E t \in Tid : \E n \in open[t] : RecvFrm(t, n)
    \/ RxStep
    \/ Timeout
    \/ \E d \in BOOLEAN : ResetState(d)

Spec == Init /\ [][Next]_vars
-----------------------------------------------------------------------------
(* Whatever the order of arrival, the flushes and the session changes, a   *)
(* frame that arrived is handed up or held, and never handed up twice      *)
(* (aggr_process_recv_frm, aggr_deque_frms).  Excused are the frames of a  *)
(* TID whose timer flushed it between the window test and the store.       *)
NoFrameLost ==
    \A t \in Tid :
        /\ open[t] \cup Held(t) \cup InHand(t) \cup given[t] \cup excused[t] = Frames(t)
        /\ given[t] \cap (open[t] \cup Held(t) \cup InHand(t)) = {}

(* Frames go up in the sender's order, sequence numbers wrapping around or *)
(* not; only a frame that a flush of the whole window gave up waiting for  *)
(* may come late (aggr_deque_frms).                                        *)
InOrder == TypeOK /\ \A t \in Tid : late[t] \subseteq excused[t]

(* No held frame is forgotten: once the receive thread is through, the     *)
(* timer the TIDs share is pending while any of them holds a frame, so     *)
(* "the frame doesn't remain stuck forever" (aggr_process_recv_frm,        *)
(* aggr_timeout).                                                          *)
HeldHasTimer == rx.pc = "idle" /\ (\E t \in Tid : Held(t) # {}) => timerScheduled

(* What the comment at the occupied slot relies on: a frame freed to make  *)
(* room is a duplicate of the new one (aggr_process_recv_frm).             *)
FreedIsDuplicate ==
    rx.pc = "store" => hold_q[rx.tid][WinIdx(Seq11(rx.frm))] \in {NoFrame, rx.frm}
=============================================================================
