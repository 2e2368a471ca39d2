---------------------------- MODULE LocSyncProofs ----------------------------
(***************************************************************************)
(* Proofs about synchronous calls: for any set of calls and any number of  *)
(* slots, a slot in use belongs to one call, no call sleeps on a callback  *)
(* that has come, and, if the waits return only when signalled, success    *)
(* means a callback.                                                       *)
(***************************************************************************)
EXTENDS LocSync, FiniteSetTheorems, WellFoundedInduction, TLAPS

(* The types of a slot and of a call.                                      *)
SlotState ==
    [type : Types \cup {NoCall}, waiting : BOOLEAN, arrived : BOOLEAN,
     payload : Call \cup {NoCall}, fresh : BOOLEAN]

CallState ==
    [pc : {"idle", "select", "ioctl", "busy", "wait", "waiting", "free", "done"}, sel : 0..SIZE,
     rc : {"none", "success", "failed", "busy", "timeout"}, got : Call \cup {NoCall}]

(* The types; a walk over the slots is on behalf of an event.              *)
Typed ==
    /\ slot \in [Slots -> SlotState]
    /\ used \subseteq Slots /\ sig \subseteq Slots
    /\ in_use \in BOOLEAN
    /\ call \in [Call -> CallState]
    /\ engine \subseteq Call
    /\ cb \in [event : Call \cup {Report, NoCall}, at : 1..(SIZE + 1)]
    /\ cb # Idle => cb.event # NoCall

(* Who has which slot.                                                     *)
Owned ==
    /\ used # {} => in_use
    /\ \A c \in Call : Holds(c) => call[c].sel \in used
    /\ \A i \in used : \E c \in Call : Holds(c) /\ call[c].sel = i
    /\ \A c, d \in Call : Holds(c) /\ Holds(d) /\ call[c].sel = call[d].sel => c = d

(* What the flags of a slot say about its call: only a sleeper is said to  *)
(* wait, and only a sleeper has a signal coming.                           *)
Flags ==
    /\ \A c \in Call :
          /\ call[c].pc = "waiting" => slot[call[c].sel].waiting /\ ~slot[call[c].sel].arrived
          /\ call[c].pc \in {"ioctl", "busy", "wait", "waiting", "free"} =>
                slot[call[c].sel].type = TypeOf[c]
          /\ Holds(c) /\ call[c].pc # "waiting" =>
                call[c].sel \notin sig /\ ~slot[call[c].sel].waiting
    /\ \A i \in Slots \ used : i \notin sig /\ ~slot[i].waiting

(* A payload that came since the callback was chosen is of the type asked  *)
(* for; arrived and a signal say that there is one.                        *)
Payloads ==
    \A i \in Slots :
        /\ slot[i].fresh => slot[i].payload \in Call /\ TypeOf[slot[i].payload] = slot[i].type
        /\ slot[i].arrived => slot[i].fresh
        /\ i \in sig => slot[i].fresh

(* What success means as long as the call has its slot.                    *)
Succeeded ==
    ~MaySpurious => \A c \in Call : call[c].rc = "success" =>
        /\ call[c].pc = "free"
        /\ slot[call[c].sel].fresh
        /\ TypeOf[call[c].got] = TypeOf[c]

(* The inductive invariant.                                                *)
SyncInv == Typed /\ Owned /\ Flags /\ Payloads /\ Succeeded

(* loc_alloc_slot: there is a first free slot unless all are in use.       *)
LEMMA FirstFree ==
    ASSUME NEW T, T \subseteq Slots, T # {}
    PROVE  (CHOOSE i \in T : \A j \in T : i <= j) \in T
<1>1. T \subseteq Nat
  BY LocSyncAssumption DEF Slots
<1>2. PICK i \in T : \A j \in T : ~(<<j, i>> \in OpToRel(<, Nat))
  BY <1>1, NatLessThanWellFounded, WFMin
<1>3. \A j \in T : i <= j
  <2> TAKE j \in T
  <2>1. ~(<<j, i>> \in {ss \in Nat \X Nat : ss[1] < ss[2]})
    BY <1>2, Zenon DEF OpToRel
  <2>2. <<j, i>> \in Nat \X Nat
    BY <1>1
  <2>3. ~(j < i)
    BY <2>1, <2>2
  <2> QED
    BY <1>1, <2>3
<1> QED
  BY <1>3, Zenon

(* What happens to a slot: it is chosen, waited on, left, given a payload. *)
LEMMA SlotStateType ==
    /\ EmptySlot \in SlotState
    /\ \A s \in SlotState :
          /\ \A type \in Types : Selected(s, type) \in SlotState
          /\ [s EXCEPT !.waiting = TRUE] \in SlotState
          /\ [s EXCEPT !.waiting = FALSE] \in SlotState
          /\ \A event \in Call : Remember(s, event) \in SlotState
  BY Zenon DEF EmptySlot, Selected, Remember, SlotState

(* Where a call goes on to, and with what it returns.                      *)
Places == {"ioctl", "busy", "wait", "waiting", "free"}

Results == {"success", "failed", "busy", "timeout"}

(* What happens to a call: it gets a slot, ...                             *)
LEMMA CallGetsSlot ==
    ASSUME NEW s \in CallState, NEW i \in 0..SIZE
    PROVE  [s EXCEPT !.pc = "select", !.sel = i] \in CallState
<1> DEFINE s1 == [s EXCEPT !.pc = "select"]
<1>1. s1 \in CallState
  BY SMT DEF CallState
<1> HIDE DEF s1
<1>2. [s1 EXCEPT !.sel = i] \in CallState
  BY <1>1, SMT DEF CallState
<1> QED
  BY <1>2, Zenon DEF s1

(* ... goes on, ...                                                        *)
LEMMA CallGoesOn ==
    ASSUME NEW s \in CallState, NEW pc \in Places
    PROVE  /\ [s EXCEPT !.pc = pc] \in CallState
           /\ [s EXCEPT !.pc = pc].pc = pc
           /\ [s EXCEPT !.pc = pc].sel = s.sel
           /\ [s EXCEPT !.pc = pc].rc = s.rc
           /\ [s EXCEPT !.pc = pc].got = s.got
  BY SMT DEF CallState, Results, Places

(* ... and returns.                                                        *)
Returned(s, rc, got) == [s EXCEPT !.pc = "free", !.rc = rc, !.got = got]

(* A call that has returned is as Return says.                             *)
LEMMA CallReturns ==
    ASSUME NEW s \in CallState, NEW rc \in Results,
           NEW got \in Call \cup {NoCall}
    PROVE  /\ Returned(s, rc, got) \in CallState
           /\ Returned(s, rc, got).pc = "free"
           /\ Returned(s, rc, got).sel = s.sel
           /\ Returned(s, rc, got).rc = rc
           /\ Returned(s, rc, got).got = got
<1> DEFINE s1 == [s EXCEPT !.pc = "free"]
           s2 == [s1 EXCEPT !.rc = rc]
           s3 == [s2 EXCEPT !.got = got]
<1>1. s1 \in CallState /\ s1.pc = "free" /\ s1.sel = s.sel
  BY SMT DEF CallState, Results, Places
<1> HIDE DEF s1
<1>2. s2 \in CallState /\ s2.pc = "free" /\ s2.sel = s.sel /\ s2.rc = rc
  BY <1>1, SMT DEF CallState, Results, Places
<1> HIDE DEF s2
<1>3. s3 \in CallState /\ s3.pc = "free" /\ s3.sel = s.sel /\ s3.rc = rc /\ s3.got = got
  BY <1>2, SMT DEF CallState, Results, Places
<1>4. s3 = Returned(s, rc, got)
  BY Zenon DEF s1, s2, Returned
<1> HIDE DEF s3
<1> QED
  BY <1>3, <1>4, Zenon

(* loc_api_sync_call_init: every slot free, no call.                       *)
LEMMA InitInv == Init => SyncInv
<1> SUFFICES ASSUME Init
             PROVE  SyncInv
  OBVIOUS
<1> USE LocSyncAssumption
<1>1. slot \in [Slots -> SlotState]
  BY SlotStateType, Zenon DEF Init
<1>2. in_use \in BOOLEAN
  BY Zenon DEF Init
<1>3. Typed
  BY <1>1, <1>2, SMT DEF Init, Typed, NewCall, CallState, Idle
<1>4. Owned /\ Succeeded
  BY SMT DEF Init, Owned, Succeeded, Holds, NewCall
<1>5. Flags /\ Payloads
  BY SMT DEF Init, Flags, Payloads, Holds, NewCall, EmptySlot
<1> QED
  BY <1>3, <1>4, <1>5 DEF SyncInv

(* loc_alloc_slot                                                          *)
LEMMA AllocSlotInv == ASSUME SyncInv, NEW c \in Call, AllocSlot(c) PROVE SyncInv'
<1> USE LocSyncAssumption
<1>1. CASE used = Slots
  <2>1. /\ call' = [call EXCEPT ![c] = [NewCall EXCEPT !.pc = "done"]]
        /\ call[c].pc = "idle"
        /\ UNCHANGED <<slot, used, in_use, sig, engine, cb>>
    BY <1>1 DEF AllocSlot, Done
  <2>2. Typed'
    BY <2>1, SMT DEF SyncInv, Typed, NewCall, CallState
  <2>3. Owned' /\ Flags'
    BY <2>1, SMT DEF SyncInv, Typed, NewCall, Owned, Flags, Holds
  <2>4. Payloads' /\ Succeeded'
    BY <2>1, SMT DEF SyncInv, Typed, NewCall, Payloads, Succeeded
  <2> QED
    BY <2>2, <2>3, <2>4 DEF SyncInv
<1>2. CASE used # Slots
  <2>1. PICK i \in Slots \ used :
           /\ used' = used \cup {i}
           /\ call' = [call EXCEPT ![c] = [call[c] EXCEPT !.pc = "select", !.sel = i]]
    <3> DEFINE i == CHOOSE i \in Slots \ used : \A j \in Slots \ used : i <= j
    <3>1. i \in Slots \ used
      BY <1>2, FirstFree DEF SyncInv, Typed
    <3> QED
      BY <1>2, <3>1, Zenon DEF AllocSlot
  <2>2. in_use' = TRUE /\ call[c].pc = "idle" /\ UNCHANGED <<slot, sig, engine, cb>>
    BY <1>2 DEF AllocSlot
  <2>3. in_use' \in BOOLEAN
    BY <2>2, Zenon
  <2>4. Typed'
    <3>1. i \in 0..SIZE
      BY SMT DEF Slots
    <3>2. call' \in [Call -> CallState]
      BY <2>1, <3>1, CallGetsSlot, Zenon DEF SyncInv, Typed
    <3> QED
      BY <2>1, <2>2, <2>3, <3>2, SMT DEF SyncInv, Typed
  <2>5. Owned'
    BY <2>1, <2>2, SMT DEF SyncInv, Typed, Owned, Holds
  <2>6. Flags'
    BY <2>1, <2>2, SMT DEF SyncInv, Typed, Owned, Flags, Holds
  <2>7. Payloads' /\ Succeeded'
    BY <2>1, <2>2, SMT DEF SyncInv, Typed, Payloads, Succeeded
  <2> QED
    BY <2>4, <2>5, <2>6, <2>7 DEF SyncInv
<1> QED
  BY <1>1, <1>2

(* loc_api_select_callback                                                 *)
LEMMA SelectCallbackInv == ASSUME SyncInv, NEW c \in Call, SelectCallback(c) PROVE SyncInv'
<1> USE LocSyncAssumption
<1> DEFINE i == call[c].sel
<1>1. i \in Slots /\ i \in used /\ i \notin sig /\ TypeOf[c] \in Types /\ call[c].pc = "select"
  BY DEF SyncInv, Typed, Owned, Flags, Holds, SelectCallback, Types
<1>2. slot' = [slot EXCEPT ![i] = Selected(slot[i], TypeOf[c])]
  BY DEF SelectCallback
<1>3. call' = [call EXCEPT ![c].pc = "ioctl"] /\ UNCHANGED <<used, in_use, sig, engine, cb>>
  BY DEF SelectCallback, Goto
<1> HIDE DEF i
<1>4. slot' \in [Slots -> SlotState]
  BY <1>1, <1>2, SlotStateType, Zenon DEF SyncInv, Typed
<1>5. Typed'
  BY <1>3, <1>4, SMT DEF SyncInv, Typed, CallState
<1>6. Owned'
  BY <1>1, <1>3, SMT DEF SyncInv, Typed, Owned, Holds
<1>7. Flags'
  BY <1>1, <1>2, <1>3, SMT DEF SyncInv, Typed, SlotState, Owned, Flags, Holds, Selected, i
<1>8. Payloads'
  BY <1>1, <1>2, <1>3, SMT DEF SyncInv, Typed, SlotState, Payloads, Selected
<1>9. Succeeded'
  BY <1>1, <1>2, <1>3, SMT DEF SyncInv, Typed, SlotState, Owned, Succeeded, Holds, Selected, i
<1> QED
  BY <1>5, <1>6, <1>7, <1>8, <1>9 DEF SyncInv

(* A call goes on, or returns without success, and leaves its slot alone.  *)
LEMMA CallMovesInv ==
    ASSUME SyncInv, NEW c \in Call, NEW pc \in Places,
           call[c].pc \in {"ioctl", "busy"}, pc # "waiting", engine' \subseteq Call,
           \/ call' = [call EXCEPT ![c].pc = pc]
           \/ pc = "free" /\ Return(c, "failed", NoCall),
           UNCHANGED <<slot, used, in_use, sig, cb>>
    PROVE  SyncInv'
<1> USE LocSyncAssumption
<1>1. call \in [Call -> CallState] /\ call[c] \in CallState
  BY DEF SyncInv, Typed
<1>2. PICK t \in CallState :
         /\ call' = [call EXCEPT ![c] = t]
         /\ t.pc = pc /\ t.sel = call[c].sel
         /\ t.rc = call[c].rc \/ t.rc = "failed"
  <2>1. CASE call' = [call EXCEPT ![c].pc = pc]
    <3>1. call' = [call EXCEPT ![c] = [call[c] EXCEPT !.pc = pc]]
      BY <2>1
    <3> DEFINE t == [call[c] EXCEPT !.pc = pc]
    <3>2. call' = [call EXCEPT ![c] = t]
      BY <3>1
    <3>3. t \in CallState /\ t.pc = pc /\ t.sel = call[c].sel /\ t.rc = call[c].rc
      BY <1>1, CallGoesOn
    <3> HIDE DEF t
    <3> QED
      BY <3>2, <3>3, Zenon
  <2>2. CASE pc = "free" /\ Return(c, "failed", NoCall)
    <3>1. "failed" \in Results /\ NoCall \in Call \cup {NoCall}
      BY DEF Results
    <3>2. call' = [call EXCEPT ![c] = Returned(call[c], "failed", NoCall)]
      BY <2>2 DEF Return, Returned
    <3> QED
      <4> DEFINE t == Returned(call[c], "failed", NoCall)
      <4>1. t \in CallState /\ t.pc = "free" /\ t.sel = call[c].sel /\ t.rc = "failed"
        BY <1>1, <3>1, CallReturns
      <4> QED
        BY <2>2, <3>2, <4>1, Zenon
  <2> QED
    BY <2>1, <2>2
<1>3. Typed' /\ Owned'
  BY <1>1, <1>2, SMT DEF SyncInv, Typed, Owned, Holds, Places
<1>4. Flags'
  BY <1>2, SMT DEF SyncInv, Typed, Flags, Holds, Places
<1>5. Payloads'
  BY SMT DEF SyncInv, Payloads
<1>6. Succeeded'
  BY <1>2, SMT DEF SyncInv, Succeeded
<1> QED
  BY <1>3, <1>4, <1>5, <1>6 DEF SyncInv

(* loc_ioctl                                                               *)
LEMMA IoctlInv == ASSUME SyncInv, NEW c \in Call, Ioctl(c) PROVE SyncInv'
<1>1. engine' \subseteq Call
  BY DEF SyncInv, Typed, Ioctl
<1> QED
  BY <1>1, CallMovesInv DEF Ioctl, Goto, Places

(* A call returns from its wait, or before it, and its slot no longer says *)
(* that it waits.                                                          *)
LEMMA WaitEndsInv ==
    ASSUME SyncInv, NEW c \in Call, call[c].pc \in {"wait", "waiting"},
           NEW rc \in Results, NEW got \in Call \cup {NoCall},
           ~MaySpurious /\ rc = "success" =>
               slot[call[c].sel].fresh /\ TypeOf[got] = TypeOf[c],
           Return(c, rc, got), sig' = sig \ {call[c].sel},
           \/ call[c].pc = "wait" /\ slot' = slot
           \/ slot' = [slot EXCEPT ![call[c].sel].waiting = FALSE],
           UNCHANGED <<used, in_use, engine, cb>>
    PROVE  SyncInv'
<1> USE LocSyncAssumption
<1> DEFINE i == call[c].sel
<1>1. i \in Slots /\ i \in used
  BY DEF SyncInv, Typed, Owned, Holds
<1>2. slot' \in [Slots -> SlotState]
  <2>1. slot \in [Slots -> SlotState] /\ [slot[i] EXCEPT !.waiting = FALSE] \in SlotState
    BY <1>1, SlotStateType, Zenon DEF SyncInv, Typed
  <2> QED
    BY <1>1, <2>1, SMT
<1>3. /\ call' \in [Call -> CallState]
      /\ \A d \in Call \ {c} : call'[d] = call[d]
      /\ call'[c].pc = "free" /\ call'[c].sel = i /\ call'[c].rc = rc /\ call'[c].got = got
  <2>1. call \in [Call -> CallState] /\ call[c] \in CallState
    BY DEF SyncInv, Typed
  <2>2. call' = [call EXCEPT ![c] = Returned(call[c], rc, got)]
    BY DEF Return, Returned
  <2> QED
    BY <2>1, <2>2, CallReturns
<1>4. /\ \A j \in Slots \ {i} : slot'[j] = slot[j]
      /\ slot'[i].type = slot[i].type /\ slot'[i].payload = slot[i].payload
      /\ slot'[i].arrived = slot[i].arrived /\ slot'[i].fresh = slot[i].fresh
      /\ ~slot'[i].waiting
  BY <1>1, SMT DEF SyncInv, Typed, SlotState, Flags, Holds
<1> HIDE DEF i
<1>5. Typed'
  BY <1>2, <1>3, SMT DEF SyncInv, Typed
<1>6. Owned'
  BY <1>3, SMT DEF SyncInv, Typed, Owned, Holds, i
<1>7. Flags'
  BY <1>1, <1>3, <1>4, SMTT(30) DEF SyncInv, Typed, Owned, Flags, Holds, i
<1>8. Payloads'
  BY <1>1, <1>4, SMT DEF SyncInv, Typed, Payloads
<1>9. Succeeded'
  BY <1>1, <1>3, <1>4, SMT DEF SyncInv, Typed, Owned, Succeeded, Holds, i
<1> QED
  BY <1>5, <1>6, <1>7, <1>8, <1>9 DEF SyncInv

(* loc_api_wait_callback up to the wait: the ENGINE_BUSY return is dead,   *)
(* for the slot of a call that does not sleep is not waited on.            *)
LEMMA WaitCallbackInv == ASSUME SyncInv, NEW c \in Call, WaitCallback(c) PROVE SyncInv'
<1> USE LocSyncAssumption
<1> DEFINE i == call[c].sel
<1>1. /\ i \in Slots /\ i \in used /\ i \notin sig /\ ~slot[i].waiting
      /\ call[c].pc = "wait" /\ slot[i].type = TypeOf[c]
      /\ UNCHANGED <<used, in_use, sig, engine, cb>>
  BY DEF SyncInv, Typed, Owned, Flags, Holds, WaitCallback
<1>2. CASE slot[i].arrived /\ Return(c, "success", slot[i].payload) /\ UNCHANGED slot
  <2>1. slot[i].fresh /\ slot[i].payload \in Call /\ TypeOf[slot[i].payload] = TypeOf[c]
    BY <1>1, <1>2 DEF SyncInv, Payloads
  <2>2. "success" \in Results /\ sig' = sig \ {i}
    BY <1>1 DEF Results
  <2> QED
    BY <1>1, <1>2, <2>1, <2>2, WaitEndsInv
<1>3. CASE /\ ~slot[i].arrived
           /\ slot' = [slot EXCEPT ![i].waiting = TRUE]
           /\ Goto(c, "waiting")
  <2>1. slot \in [Slots -> SlotState] /\ [slot[i] EXCEPT !.waiting = TRUE] \in SlotState
    BY <1>1, SlotStateType, Zenon DEF SyncInv, Typed
  <2>2. slot' \in [Slots -> SlotState]
    BY <1>1, <1>3, <2>1, SMT
  <2>3. /\ \A j \in Slots \ {i} : slot'[j] = slot[j]
        /\ slot'[i].type = slot[i].type /\ slot'[i].payload = slot[i].payload
        /\ slot'[i].arrived = slot[i].arrived /\ slot'[i].fresh = slot[i].fresh
        /\ slot'[i].waiting
    BY <1>1, <1>3, <2>1, SMT DEF SlotState
  <2>4. call' = [call EXCEPT ![c].pc = "waiting"]
    BY <1>3 DEF Goto
  <2> HIDE DEF i
  <2>5. Typed'
    BY <1>1, <2>2, <2>4, SMT DEF SyncInv, Typed, CallState
  <2>6. Owned'
    BY <1>1, <2>4, SMT DEF SyncInv, Typed, Owned, Holds
  <2>7. Flags'
    BY <1>1, <1>3, <2>3, <2>4, SMTT(30) DEF SyncInv, Typed, Owned, Flags, Holds, i
  <2>8. Payloads'
    BY <1>1, <2>3, SMT DEF SyncInv, Typed, Payloads
  <2>9. Succeeded'
    BY <1>1, <2>3, <2>4, SMT DEF SyncInv, Typed, Owned, Succeeded, Holds, i
  <2> QED
    BY <2>5, <2>6, <2>7, <2>8, <2>9 DEF SyncInv
<1> QED
  BY <1>1, <1>2, <1>3 DEF WaitCallback

(* pthread_cond_timedwait returns 0.                                       *)
LEMMA WokenInv == ASSUME SyncInv, NEW c \in Call, Woken(c) PROVE SyncInv'
<1> DEFINE i == call[c].sel
<1>1. i \in Slots /\ call[c].pc = "waiting" /\ slot[i].type = TypeOf[c]
  BY DEF SyncInv, Typed, Owned, Flags, Holds, Woken
<1>2. slot[i].payload \in Call \cup {NoCall}
  BY <1>1 DEF SyncInv, Typed, SlotState
<1>3. ~MaySpurious => slot[i].fresh /\ TypeOf[slot[i].payload] = TypeOf[c]
  BY <1>1 DEF SyncInv, Payloads, Woken
<1>4. "success" \in Results
  BY DEF Results
<1> QED
  BY <1>1, <1>2, <1>3, <1>4, WaitEndsInv DEF Woken

(* ... or ETIMEDOUT.                                                       *)
LEMMA TimedOutInv == ASSUME SyncInv, NEW c \in Call, TimedOut(c) PROVE SyncInv'
<1>1. "timeout" \in Results /\ NoCall \in Call \cup {NoCall}
  BY DEF Results
<1> QED
  BY <1>1, WaitEndsInv DEF TimedOut

(* loc_free_slot                                                           *)
LEMMA FreeSlotInv == ASSUME SyncInv, NEW c \in Call, FreeSlot(c) PROVE SyncInv'
<1> USE LocSyncAssumption
<1>1. /\ call[c].pc = "free" /\ used' = used \ {call[c].sel}
      /\ call' = [call EXCEPT ![c] = [NewCall EXCEPT !.pc = "done"]]
      /\ UNCHANGED <<slot, sig, engine, cb>>
  BY DEF FreeSlot, Done
<1>2. in_use' \in BOOLEAN /\ (used' # {} => in_use')
  BY Zenon DEF FreeSlot, InUse
<1>3. Typed'
  BY <1>1, <1>2, SMT DEF SyncInv, Typed, NewCall, CallState
<1>4. Owned'
  BY <1>1, <1>2, SMT DEF SyncInv, Typed, NewCall, Owned, Holds
<1>5. Flags'
  BY <1>1, SMT DEF SyncInv, Typed, NewCall, Flags, Holds
<1>6. Payloads' /\ Succeeded'
  BY <1>1, SMT DEF SyncInv, Typed, NewCall, Payloads, Succeeded
<1> QED
  BY <1>3, <1>4, <1>5, <1>6 DEF SyncInv

(* A callback comes.                                                       *)
LEMMA CallbackArrivesInv ==
    ASSUME SyncInv, NEW event \in Call \cup {Report}, CallbackArrives(event)
    PROVE  SyncInv'
<1> USE LocSyncAssumption
<1>1. Typed'
  BY SMT DEF SyncInv, Typed, CallbackArrives, Idle
<1>2. Owned' /\ Flags' /\ Payloads' /\ Succeeded'
  BY DEF SyncInv, CallbackArrives, Owned, Flags, Payloads, Succeeded, Holds
<1> QED
  BY <1>1, <1>2 DEF SyncInv

(* One slot of the walk.                                                   *)
LEMMA ScanSlotInv == ASSUME SyncInv, ScanSlot PROVE SyncInv'
<1> USE LocSyncAssumption
<1> DEFINE i == cb.at
<1>1. i \in Slots /\ cb # Idle /\ UNCHANGED <<used, in_use, call, engine>>
  BY DEF ScanSlot
<1>2. CASE ~Matches(i, cb.event)
  <2>1. cb' = [cb EXCEPT !.at = cb.at + 1] /\ UNCHANGED <<slot, sig>>
    BY <1>2 DEF ScanSlot
  <2>2. Typed'
    BY <1>1, <2>1, SMT DEF SyncInv, Typed, Slots, Idle
  <2>3. Owned' /\ Flags' /\ Payloads' /\ Succeeded'
    BY <1>1, <2>1 DEF SyncInv, Owned, Flags, Payloads, Succeeded, Holds
  <2> QED
    BY <2>2, <2>3 DEF SyncInv
<1>3. CASE Matches(i, cb.event)
  <2>1. /\ slot' = [slot EXCEPT ![i] = Remember(slot[i], cb.event)]
        /\ sig' = IF slot[i].waiting THEN sig \cup {i} ELSE sig
        /\ cb' = [cb EXCEPT !.at = SIZE + 1]
    BY <1>3 DEF ScanSlot
  <2>2. /\ i \in used /\ slot[i].type = TypeOf[cb.event] /\ ~slot[i].arrived
        /\ cb.event \in Call
    BY <1>1, <1>3 DEF Matches, SyncInv, Typed
  <2>3. slot' \in [Slots -> SlotState]
    BY <1>1, <2>1, <2>2, SlotStateType, Zenon DEF SyncInv, Typed
  <2>4. /\ \A j \in Slots \ {i} : slot'[j] = slot[j]
        /\ slot'[i].type = slot[i].type /\ slot'[i].payload = cb.event
        /\ slot'[i].fresh
        /\ slot'[i].waiting <=> slot[i].waiting
        /\ slot[i].waiting => ~slot'[i].arrived
    BY <1>1, <2>1, <2>2, SMT DEF SyncInv, Typed, SlotState, Remember
  <2>5. Typed'
    BY <1>1, <2>1, <2>3, SMT DEF SyncInv, Typed, Idle
  <2> HIDE DEF i
  <2>6. Owned'
    BY <1>1 DEF SyncInv, Owned, Holds
  <2>7. Flags'
    BY <1>1, <2>1, <2>2, <2>4, SMT DEF SyncInv, Typed, Owned, Flags, Holds
  <2>8. Payloads'
    BY <1>1, <2>1, <2>2, <2>4, SMT DEF SyncInv, Typed, Payloads
  <2>9. Succeeded'
    BY <1>1, <2>4, SMT DEF SyncInv, Typed, Owned, Succeeded, Holds
  <2> QED
    BY <2>5, <2>6, <2>7, <2>8, <2>9 DEF SyncInv
<1> QED
  BY <1>2, <1>3

(* The end of the walk.                                                    *)
LEMMA ScanDoneInv == ASSUME SyncInv, NEW c \in Call, ScanDone(c) PROVE SyncInv'
<1> USE LocSyncAssumption
<1>1. in_use' \in BOOLEAN /\ (used' # {} => in_use')
  BY Zenon DEF ScanDone, InUse
<1>2. cb' = Idle /\ UNCHANGED <<slot, used, sig, engine>>
  BY DEF ScanDone
<1>3. call \in [Call -> CallState]
  BY DEF SyncInv, Typed
<1>4. UNCHANGED call \/ (call[c].pc = "busy" /\ call' = [call EXCEPT ![c].pc = "ioctl"])
  BY DEF ScanDone, Signalled, Busy, Goto
<1>5. /\ call' \in [Call -> CallState]
      /\ \A d \in Call : /\ call'[d].sel = call[d].sel /\ call'[d].rc = call[d].rc
                         /\ call'[d].got = call[d].got
                         /\ call'[d].pc = call[d].pc \/ (call[d].pc = "busy" /\ call'[d].pc = "ioctl")
  BY <1>3, <1>4, SMT DEF CallState
<1>6. Typed'
  BY <1>1, <1>2, <1>5, SMT DEF SyncInv, Typed, Idle
<1>7. Owned'
  BY <1>1, <1>2, <1>5, SMT DEF SyncInv, Typed, Owned, Holds
<1>8. Flags'
  BY <1>2, <1>5, SMT DEF SyncInv, Typed, Flags, Holds
<1>9. Payloads' /\ Succeeded'
  BY <1>2, <1>5, SMT DEF SyncInv, Typed, Payloads, Succeeded
<1> QED
  BY <1>6, <1>7, <1>8, <1>9 DEF SyncInv

(* The inductive invariant holds in every reachable state.                 *)
LEMMA Invariance == Spec => []SyncInv
<1>1. SyncInv /\ UNCHANGED vars => SyncInv'
  BY DEF vars, SyncInv, Typed, Owned, Flags, Payloads, Succeeded, Holds
<1>2. SyncInv /\ [Next]_vars => SyncInv'
  BY <1>1, AllocSlotInv, SelectCallbackInv, IoctlInv, WaitCallbackInv, WokenInv, TimedOutInv,
     FreeSlotInv, CallbackArrivesInv, ScanSlotInv, ScanDoneInv DEF Next, CallStep, Scan
<1> QED
  BY <1>2, InitInv, PTL DEF Spec

(* loc_alloc_slot and loc_free_slot: a slot in use is one running call's,  *)
(* and in_use is on while there is one.                                    *)
THEOREM SlotsOwnedHolds == Spec => []SlotsOwned
<1>1. ASSUME SyncInv PROVE SlotsOwned
  <2>1. TypeOK
    BY <1>1 DEF SyncInv, Typed, TypeOK, SlotState, CallState
  <2>2. ASSUME NEW i \in used
        PROVE  Cardinality({c \in Call : Holds(c) /\ call[c].sel = i}) = 1
    <3>1. PICK c \in Call : Holds(c) /\ call[c].sel = i
      BY <1>1 DEF SyncInv, Owned
    <3>2. {d \in Call : Holds(d) /\ call[d].sel = i} = {c}
      BY <1>1, <3>1 DEF SyncInv, Owned
    <3> QED
      BY <3>2, FS_Singleton
  <2> QED
    BY <1>1, <2>1, <2>2 DEF SyncInv, Owned, SlotsOwned
<1> QED
  BY <1>1, Invariance, PTL

(* loc_api_wait_callback: no call sleeps on a callback that has come, and  *)
(* its ENGINE_BUSY return is never taken.                                  *)
THEOREM NoSleepAfterArrivalHolds == Spec => []NoSleepAfterArrival
<1>1. SyncInv => NoSleepAfterArrival
  BY DEF SyncInv, Flags, Holds, NoSleepAfterArrival
<1> QED
  BY <1>1, Invariance, PTL

(* loc_api_wait_callback: as long as pthread_cond_timedwait returns 0 only *)
(* when signalled, success means a callback of the type asked for.         *)
THEOREM SuccessMeansCallbackHolds ==
    ASSUME ~MaySpurious
    PROVE  Spec => []SuccessMeansCallback
<1>1. SyncInv => SuccessMeansCallback
  BY DEF SyncInv, Succeeded, SuccessMeansCallback
<1> QED
  BY <1>1, Invariance, PTL
=============================================================================
