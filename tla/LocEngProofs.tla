---------------------------- MODULE LocEngProofs ----------------------------
(***************************************************************************)
(* Proofs about LocEng, for any number of events and calls.                *)
(***************************************************************************)
EXTENDS LocEng, TLAPS

(* What makes AtlInOrder inductive: the thread has nothing copied when it  *)
(* is about to take, and agps_status is free when it processes an event,   *)
(* since nobody else sets it.                                              *)
OnePlace ==
    /\ def.pc \in {"top", "wait"} => def.status = None
    /\ def.pc = "event" => agps = None

EngInv == WakeHeld /\ AtlInOrder /\ OnePlace

(* Concatenation with what is pending: moving the one pending request from *)
(* agps_status to the copy, or from the copy to the framework, keeps the   *)
(* whole.                                                                  *)
LEMMA PendingMoves ==
    ASSUME NEW s \in Seq(Request), NEW r \in Request
    PROVE  /\ s \o Pending(None) = s
           /\ s \o Pending(r) = Append(s, r)
<1>1. None # r
  BY NoneAssumption DEF Event, Request
<1> QED BY <1>1 DEF Pending

(* The same with both places, one of them empty.                           *)
LEMMA PendingSeq ==
    ASSUME NEW s \in Seq(Request)
    PROVE  /\ s \o Pending(None) \o Pending(None) = s
           /\ \A r \in Request : s \o Pending(r) \o Pending(None) = Append(s, r)
           /\ \A r \in Request : s \o Pending(None) \o Pending(r) = Append(s, r)
<1>1. \A r \in Request : Append(s, r) \in Seq(Request)
  OBVIOUS
<1>2. \A t \in Seq(Request) : t \o Pending(None) = t
  BY DEF Pending
<1> QED BY <1>1, <1>2, PendingMoves

(* The initial state satisfies the invariant.                              *)
LEMMA EngInvInit == Init => EngInv
<1> SUFFICES ASSUME Init PROVE EngInv
  OBVIOUS
<1>1. def = DefAt("top")
  BY DEF Init
<1>2. def \in [pc : Place, ev : Event \cup {None}, flags : SUBSET Flag, engine : EngineStatus,
               aiding : BOOLEAN, status : Request \cup {None}]
  BY <1>1 DEF DefAt, Place, EngineStatus
<1>3. stop \in [pending : BOOLEAN, wanted : BOOLEAN] /\ left \in [events : Nat, calls : Nat]
  BY BoundsAssumption DEF Init
<1>4. TypeOK
  <2>1. SwitchesOK
    BY Zenon DEF Init, SwitchesOK
  <2> QED BY <1>2, <1>3, <2>1 DEF Init, TypeOK, EngineStatus
<1>5. def.pc = "top" /\ def.status = None
  BY <1>1 DEF DefAt
<1>6. <<>> \in Seq(Request)
  OBVIOUS
<1>7. <<>> \o Pending(None) \o Pending(None) = <<>>
  BY Zenon, PendingSeq, <1>6
<1> QED BY <1>4, <1>5, <1>7 DEF Init, EngInv, WakeHeld, AtlInOrder, OnePlace

(* Deferring keeps the types and holds the wake lock.                      *)
LEMMA DeferKeeps ==
    ASSUME TypeOK, NEW f \in Flag, Defer(f)
    PROVE  flags' \subseteq Flag /\ wake' = TRUE /\ signal' \in BOOLEAN
BY DEF Defer, Signal, TypeOK, SwitchesOK

(* The callbacks and calls: they touch neither the copy nor the requests.  *)
LEMMA CallersKeep ==
    ASSUME EngInv,
           \/ \E ev \in Event : EventCb(ev)
           \/ Stop \/ StopFix \/ DeleteAidingData \/ InjectXtraData \/ SignalXtra
           \/ \E f \in Answer : DataConn(f)
    PROVE  EngInv'
<1> USE DEF EngInv, OnePlace
<1>1. TypeOK
  BY DEF WakeHeld
<1>2. {"event", "delete"} \cup Answer \subseteq Flag
  BY DEF Flag
<1>3. CASE \E ev \in Event : EventCb(ev)
  <2>1. PICK ev \in Event : EventCb(ev)
    BY <1>3
  <2>2. left' \in [events : Nat, calls : Nat]
    BY <1>1, <2>1 DEF EventCb, TypeOK
  <2>3. flags' \subseteq Flag /\ wake' = TRUE
    BY <1>1, <1>2, <2>1, DeferKeeps DEF EventCb
  <2>4. SwitchesOK'
    BY <1>1, <2>1, Zenon DEF EventCb, Defer, Signal, SwitchesOK, TypeOK
  <2>5. TypeOK'
    BY <1>1, <2>1, <2>2, <2>3, <2>4 DEF EventCb, TypeOK
  <2> QED BY <2>1, <2>3, <2>5 DEF EventCb, WakeHeld, AtlInOrder
<1>4. ASSUME Call PROVE left' \in [events : Nat, calls : Nat]
  BY <1>1, <1>4 DEF Call, TypeOK
<1>5. CASE Stop
  <2>1. stop' \in [pending : BOOLEAN, wanted : BOOLEAN] /\ fw' \in {"idle", "stop", "xtra"}
    BY <1>1, <1>5 DEF Stop, TypeOK
  <2>2. SwitchesOK'
    BY <1>1, <1>5, Zenon DEF Stop, SwitchesOK, TypeOK
  <2>3. TypeOK'
    BY <1>1, <1>4, <1>5, <2>1, <2>2 DEF Stop, TypeOK
  <2> QED BY <1>5, <2>3 DEF Stop, WakeHeld, AtlInOrder
<1>6. CASE StopFix
  <2>1. SwitchesOK'
    BY <1>1, <1>6, Zenon DEF StopFix, SwitchesOK, TypeOK
  <2>2. TypeOK'
    BY <1>1, <1>6, <2>1 DEF StopFix, TypeOK
  <2> QED BY <1>6, <2>2 DEF StopFix, WakeHeld, AtlInOrder
<1>7. CASE DeleteAidingData
  <2>1. flags' \subseteq Flag /\ ((flags' = flags /\ wake' = wake) \/ wake' = TRUE)
    BY <1>1, <1>2, <1>7, DeferKeeps DEF DeleteAidingData, TypeOK
  <2>2. SwitchesOK'
    BY <1>1, <1>7, Zenon DEF DeleteAidingData, Defer, Signal, SwitchesOK, TypeOK
  <2>3. TypeOK'
    BY <1>1, <1>4, <1>7, <2>1, <2>2 DEF DeleteAidingData, TypeOK
  <2> QED BY <1>7, <2>1, <2>3 DEF DeleteAidingData, WakeHeld, AtlInOrder
<1>8. CASE InjectXtraData
  <2>1. SwitchesOK'
    BY <1>1, <1>8, Zenon DEF InjectXtraData, SwitchesOK, TypeOK
  <2>2. TypeOK'
    BY <1>1, <1>4, <1>8, <2>1 DEF InjectXtraData, TypeOK
  <2> QED BY <1>8, <2>2 DEF InjectXtraData, WakeHeld, AtlInOrder
<1>9. CASE SignalXtra
  <2>1. SwitchesOK'
    BY <1>1, <1>9, Zenon DEF SignalXtra, Signal, SwitchesOK, TypeOK
  <2>2. TypeOK'
    BY <1>1, <1>9, <2>1 DEF SignalXtra, TypeOK
  <2> QED BY <1>9, <2>2 DEF SignalXtra, WakeHeld, AtlInOrder
<1>10. CASE \E f \in Answer : DataConn(f)
  <2>1. PICK f \in Answer : DataConn(f)
    BY <1>10
  <2>2. answered' \in 0 .. Len(told')
    BY <1>1, <2>1 DEF DataConn, TypeOK
  <2>3. flags' \subseteq Flag /\ wake' = TRUE
    BY <1>1, <1>2, <2>1, DeferKeeps DEF DataConn
  <2>4. SwitchesOK'
    BY <1>1, <2>1, Zenon DEF DataConn, Defer, Signal, SwitchesOK, TypeOK
  <2>5. TypeOK'
    BY <1>1, <2>1, <2>2, <2>3, <2>4 DEF DataConn, TypeOK
  <2> QED BY <2>1, <2>3, <2>5 DEF DataConn, WakeHeld, AtlInOrder
<1> QED BY <1>3, <1>5, <1>6, <1>7, <1>8, <1>9, <1>10

(* The thread waits: it held nothing and nothing is pending.               *)
LEMMA WaitKeeps == ASSUME EngInv, Wait PROVE EngInv'
<1> USE DEF EngInv, OnePlace
<1>1. TypeOK
  BY DEF WakeHeld
<1>2. def' \in [pc : Place, ev : Event \cup {None}, flags : SUBSET Flag, engine : EngineStatus,
                aiding : BOOLEAN, status : Request \cup {None}]
  BY DEF Wait, DefAt, Place, EngineStatus
<1>3. def'.pc = "wait" /\ def'.status = None /\ def.status = None
  BY DEF Wait, DefAt
<1>4. SwitchesOK'
  BY <1>1, Zenon DEF Wait, SwitchesOK, TypeOK
<1>5. TypeOK'
  BY <1>1, <1>2, <1>4 DEF Wait, TypeOK
<1> QED BY <1>3, <1>5 DEF Wait, WakeHeld, AtlInOrder

(* The thread takes what is there: the pending request changes place.      *)
LEMMA TakeKeeps == ASSUME EngInv, Take PROVE EngInv'
<1> USE DEF EngInv, OnePlace
<1>1. TypeOK
  BY DEF WakeHeld
<1>2. def' \in [pc : Place, ev : Event \cup {None}, flags : SUBSET Flag, engine : EngineStatus,
                aiding : BOOLEAN, status : Request \cup {None}]
  <2>1. loc_event \in Event \cup {None} /\ flags \in SUBSET Flag /\ engine \in EngineStatus
    BY <1>1 DEF TypeOK
  <2>2. aiding \in BOOLEAN /\ agps \in Request \cup {None}
    BY <1>1, Zenon DEF TypeOK, SwitchesOK
  <2>3. (IF loc_event = None THEN "delete" ELSE "event") \in Place
    BY DEF Place
  <2> QED BY <2>1, <2>2, <2>3 DEF Take
<1>3. def'.pc \in {"event", "delete"} /\ def'.status = agps /\ agps' = None /\ def.status = None
  BY DEF Take
<1>4. wake' = TRUE
  BY DEF Take, WakeHeld
<1>5. AtlInOrder'
  <2>1. told' = told /\ asked' = asked /\ told \in Seq(Request) /\ agps \in Request \cup {None}
    BY <1>1 DEF Take, TypeOK
  <2>2. told \o Pending(None) \o Pending(agps) = told \o Pending(agps) \o Pending(None)
    BY <2>1, PendingSeq
  <2> QED BY <1>3, <2>1, <2>2 DEF AtlInOrder
<1>6. SwitchesOK'
  BY <1>1, <1>4, Zenon DEF Take, SwitchesOK, TypeOK
<1>7. TypeOK'
  BY <1>1, <1>2, <1>3, <1>6 DEF Take, TypeOK
<1> QED BY <1>3, <1>4, <1>5, <1>7 DEF WakeHeld

(* Processing a request puts it in the free place.                         *)
LEMMA ConnRequestKeeps == ASSUME EngInv, ConnRequest PROVE EngInv'
<1> USE DEF EngInv, OnePlace
<1>1. TypeOK
  BY DEF WakeHeld
<1>2. PICK r \in Request : def.ev = r /\ agps' = r /\ asked' = Append(asked, r)
  BY DEF ConnRequest, Request
<1>3. agps = None /\ def'.status = def.status /\ def'.pc = "delete" /\ told' = told
  BY <1>1 DEF ConnRequest, TypeOK
<1>4. def' \in [pc : Place, ev : Event \cup {None}, flags : SUBSET Flag, engine : EngineStatus,
                aiding : BOOLEAN, status : Request \cup {None}]
  BY <1>1 DEF ConnRequest, TypeOK, Place
<1>5. AtlInOrder'
  <2>1. told \in Seq(Request) /\ def.status \in Request \cup {None}
    BY <1>1 DEF TypeOK
  <2>2. told \o Pending(def.status) \in Seq(Request)
    <3>1. CASE def.status = None
      BY <2>1, <3>1 DEF Pending
    <3>2. CASE def.status \in Request
      <4>1. told \o Pending(def.status) = Append(told, def.status)
        BY <2>1, <3>2, PendingMoves
      <4> QED BY <2>1, <3>2, <4>1
    <3> QED BY <2>1, <3>1, <3>2
  <2> DEFINE s == told \o Pending(def.status)
  <2>3. s \o Pending(None) = s /\ s \o Pending(r) = Append(s, r)
    <3> HIDE DEF s
    <3> QED BY <2>2, PendingMoves DEF s
  <2>4. asked = s
    BY <1>3, <2>3 DEF AtlInOrder
  <2> QED BY <1>2, <1>3, <2>3, <2>4 DEF AtlInOrder
<1>6. asked' \in Seq(Request)
  BY <1>1, <1>2 DEF TypeOK
<1>7. stop' \in [pending : BOOLEAN, wanted : BOOLEAN]
  BY <1>1 DEF ConnRequest, TypeOK
<1>8. flags' \subseteq Flag /\ wake' = TRUE /\ signal' \in BOOLEAN
  <2>1. "agps" \in Flag
    BY DEF Flag
  <2> QED BY <1>1, <2>1, DeferKeeps DEF ConnRequest
<1>9. SwitchesOK'
  BY <1>1, <1>8, Zenon DEF ConnRequest, SwitchesOK, TypeOK
<1>10. TypeOK'
  BY <1>1, <1>2, <1>3, <1>4, <1>6, <1>7, <1>8, <1>9 DEF ConnRequest, TypeOK
<1> QED BY <1>3, <1>5, <1>8, <1>10 DEF WakeHeld

(* Telling the framework empties the copy.                                 *)
LEMMA AtlActionKeeps == ASSUME EngInv, AtlAction PROVE EngInv'
<1> USE DEF EngInv, OnePlace
<1>1. TypeOK
  BY DEF WakeHeld
<1>2. def' \in [pc : Place, ev : Event \cup {None}, flags : SUBSET Flag, engine : EngineStatus,
                aiding : BOOLEAN, status : Request \cup {None}]
  BY DEF AtlAction, DefAt, Place, EngineStatus
<1>3. def'.pc = "top" /\ def'.status = None /\ wake' = TRUE
  BY DEF AtlAction, DefAt, WakeHeld
<1>4. told \in Seq(Request) /\ def.status \in Request \cup {None} /\ None \notin Request
  BY <1>1, NoneAssumption DEF TypeOK, Event, Request
<1>5. told' = told \o Pending(def.status) /\ told' \in Seq(Request) /\ Len(told') >= Len(told)
  <2>1. CASE def.status = None
    BY <1>4, <2>1 DEF AtlAction, Pending
  <2>2. CASE def.status # None
    BY <1>4, <2>2, PendingMoves DEF AtlAction
  <2> QED BY <2>1, <2>2
<1>6. told' \o Pending(None) = told'
  BY <1>5 DEF Pending
<1>7. AtlInOrder'
  BY <1>3, <1>5, <1>6 DEF AtlAction, AtlInOrder
<1>8. answered' \in 0 .. Len(told')
  BY <1>1, <1>4, <1>5 DEF AtlAction, TypeOK
<1>9. TypeOK'
  BY <1>1, <1>2, <1>5, <1>8 DEF AtlAction, TypeOK, SwitchesOK
<1> QED BY <1>3, <1>7, <1>9 DEF WakeHeld

(* The other steps of the thread move on with what it has copied.          *)
LEMMA WorkKeeps ==
    ASSUME EngInv, ReportStatus \/ Recheck \/ Report \/ DeleteAction \/ DeleteDone \/ InjectXtra \/ ConnStatus \/ HandleStop
    PROVE  EngInv'
<1> USE DEF EngInv, OnePlace
<1>1. TypeOK
  BY DEF WakeHeld
<1>2. "delete" \in Flag
  BY DEF Flag
<1>3. ASSUME NEW pc \in Place, def' = [def EXCEPT !.pc = pc]
      PROVE  /\ def' \in [pc : Place, ev : Event \cup {None}, flags : SUBSET Flag, engine : EngineStatus,
                          aiding : BOOLEAN, status : Request \cup {None}]
             /\ def'.pc = pc /\ def'.status = def.status
  BY <1>1, <1>3 DEF TypeOK
<1>4. CASE ReportStatus
  <2>1. engine' \in EngineStatus
    BY <1>1, <1>4 DEF ReportStatus, TypeOK, EngineStatus
  <2>2. SwitchesOK'
    BY <1>1, <1>4, Zenon DEF ReportStatus, SwitchesOK, TypeOK
  <2>3. PICK pc \in Place \ {"top", "wait", "event"} : def' = [def EXCEPT !.pc = pc]
    BY <1>4 DEF ReportStatus, Place
  <2>4. TypeOK'
    BY <1>1, <1>3, <1>4, <2>1, <2>2, <2>3 DEF ReportStatus, TypeOK
  <2> QED BY <1>3, <1>4, <2>3, <2>4 DEF ReportStatus, WakeHeld, AtlInOrder
<1>5. CASE Recheck
  <2>1. flags' \subseteq Flag /\ ((flags' = flags /\ wake' = wake) \/ wake' = TRUE)
    BY <1>1, <1>2, <1>5, DeferKeeps DEF Recheck, TypeOK
  <2>2. SwitchesOK'
    BY <1>1, <1>5, Zenon DEF Recheck, Defer, Signal, SwitchesOK, TypeOK
  <2>3. PICK pc \in Place \ {"top", "wait", "event"} : def' = [def EXCEPT !.pc = pc]
    BY <1>5 DEF Recheck, Place
  <2>4. TypeOK'
    BY <1>1, <1>3, <1>5, <2>1, <2>2, <2>3 DEF Recheck, TypeOK
  <2>5. AtlInOrder' /\ OnePlace'
    BY <1>3, <1>5, <2>3 DEF Recheck, AtlInOrder
  <2>6. wake = TRUE
    BY <1>1, <1>5 DEF Recheck, WakeHeld, TypeOK, SwitchesOK
  <2>7. wake'
    BY <2>1, <2>6
  <2> QED BY <2>4, <2>5, <2>7 DEF WakeHeld
<1>6. CASE Report
  <2>2. SwitchesOK'
    BY <1>1, <1>6, Zenon DEF Report, SwitchesOK, TypeOK
  <2>3. PICK pc \in Place \ {"top", "wait", "event"} : def' = [def EXCEPT !.pc = pc]
    BY <1>6 DEF Report, Place
  <2>4. TypeOK'
    BY <1>1, <1>3, <1>6, <2>2, <2>3 DEF Report, TypeOK
  <2> QED BY <1>3, <1>6, <2>3, <2>4 DEF Report, WakeHeld, AtlInOrder
<1>7. CASE DeleteAction
  <2>2. SwitchesOK'
    BY <1>1, <1>7, Zenon DEF DeleteAction, SwitchesOK, TypeOK
  <2>3. PICK pc \in Place \ {"top", "wait", "event"} : def' = [def EXCEPT !.pc = pc]
    BY <1>7 DEF DeleteAction, Place
  <2>4. TypeOK'
    BY <1>1, <1>3, <1>7, <2>2, <2>3 DEF DeleteAction, TypeOK
  <2> QED BY <1>3, <1>7, <2>3, <2>4 DEF DeleteAction, WakeHeld, AtlInOrder
<1>8. CASE DeleteDone
  <2>2. SwitchesOK'
    BY <1>1, <1>8, Zenon DEF DeleteDone, SwitchesOK, TypeOK
  <2>3. PICK pc \in Place \ {"top", "wait", "event"} : def' = [def EXCEPT !.pc = pc]
    BY <1>8 DEF DeleteDone, Place
  <2>4. TypeOK'
    BY <1>1, <1>3, <1>8, <2>2, <2>3 DEF DeleteDone, TypeOK
  <2> QED BY <1>3, <1>8, <2>3, <2>4 DEF DeleteDone, WakeHeld, AtlInOrder
<1>9. CASE InjectXtra
  <2>2. SwitchesOK'
    BY <1>1, <1>9, Zenon DEF InjectXtra, SwitchesOK, TypeOK
  <2>3. PICK pc \in Place \ {"top", "wait", "event"} : def' = [def EXCEPT !.pc = pc]
    BY <1>9 DEF InjectXtra, Place
  <2>4. TypeOK'
    BY <1>1, <1>3, <1>9, <2>2, <2>3 DEF InjectXtra, TypeOK
  <2> QED BY <1>3, <1>9, <2>3, <2>4 DEF InjectXtra, WakeHeld, AtlInOrder
<1>10. CASE ConnStatus
  <2>2. SwitchesOK'
    BY <1>1, <1>10, Zenon DEF ConnStatus, SwitchesOK, TypeOK
  <2>3. PICK pc \in Place \ {"top", "wait", "event"} : def' = [def EXCEPT !.pc = pc]
    BY <1>10 DEF ConnStatus, Place
  <2>4. TypeOK'
    BY <1>1, <1>3, <1>10, <2>2, <2>3 DEF ConnStatus, TypeOK
  <2> QED BY <1>3, <1>10, <2>3, <2>4 DEF ConnStatus, WakeHeld, AtlInOrder
<1>11. CASE HandleStop
  <2>1. stop' \in [pending : BOOLEAN, wanted : BOOLEAN]
    BY <1>1, <1>11 DEF HandleStop, TypeOK
  <2>2. SwitchesOK'
    BY <1>1, <1>11, Zenon DEF HandleStop, SwitchesOK, TypeOK
  <2>3. PICK pc \in Place \ {"top", "wait", "event"} : def' = [def EXCEPT !.pc = pc]
    BY <1>11 DEF HandleStop, Place
  <2>4. TypeOK'
    BY <1>1, <1>3, <1>11, <2>1, <2>2, <2>3 DEF HandleStop, TypeOK
  <2> QED BY <1>3, <1>11, <2>3, <2>4 DEF HandleStop, WakeHeld, AtlInOrder
<1> QED BY <1>4, <1>5, <1>6, <1>7, <1>8, <1>9, <1>10, <1>11

(* Every step keeps the invariant.                                         *)
LEMMA EngInvNext == EngInv /\ [Next]_vars => EngInv'
<1>1. ASSUME EngInv, UNCHANGED vars PROVE EngInv'
  BY <1>1 DEF vars, EngInv, OnePlace, WakeHeld, TypeOK, SwitchesOK, AtlInOrder
<1> QED BY <1>1, CallersKeep, WaitKeeps, TakeKeeps, ConnRequestKeeps, AtlActionKeeps, WorkKeeps DEF Next, Work

(* The wake lock is held while anything is pending for the thread or in    *)
(* its hands, although it does not count and every caller and the thread   *)
(* take and release it (loc_eng.cpp lines 953 and 2277-2284).              *)
THEOREM WakeHeldAlways == Spec => []WakeHeld
<1>1. EngInv => WakeHeld
  BY DEF EngInv
<1> QED BY <1>1, EngInvInit, EngInvNext, PTL DEF Spec

(* The one-place agps_status is enough: no data-connection request that    *)
(* was processed is overwritten, told twice or told out of order.          *)
THEOREM AtlInOrderAlways == Spec => []AtlInOrder
<1>1. EngInv => AtlInOrder
  BY DEF EngInv
<1> QED BY <1>1, EngInvInit, EngInvNext, PTL DEF Spec
=============================================================================
