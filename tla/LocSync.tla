------------------------------- MODULE LocSync -------------------------------
(***************************************************************************)
(* Synchronous calls over the asynchronous location API of the modem       *)
(* (src/gps/libloc_api-rpc/src/loc_api_sync_call.c).                       *)
(*                                                                         *)
(* A caller takes a slot, says in it which callback it waits for, calls    *)
(* the modem and sleeps on the slot.  The RPC callback thread walks the    *)
(* slots and gives each callback to the first that matches; answers carry  *)
(* the type of the ioctl and nothing that names the call.                  *)
(***************************************************************************)
EXTENDS Naturals, FiniteSets

CONSTANTS Call,        \* calls of loc_api_sync_ioctl, each made once
          TypeOf,      \* TypeOf[c]: its ioctl_type
          SIZE,        \* LOC_SYNC_CALL_BUFFER_SIZE
          MaySpurious, \* whether pthread_cond_timedwait may return early
          NoCall

Types == {TypeOf[c] : c \in Call}

ASSUME LocSyncAssumption ==
    /\ SIZE \in Nat \ {0}
    /\ MaySpurious \in BOOLEAN
    /\ NoCall \notin Call
    /\ NoCall \notin Types

VARIABLES
    slot,     \* slots[]: what it waits for, its flags and the payload
    used,     \* slot_in_use[], as the set of slots
    in_use,   \* loc_sync_data.in_use
    sig,      \* slots whose condition variable was signalled to its sleeper
    call,     \* each caller: place, select_id, result and payload
    engine,   \* calls the modem took and has not answered
    cb        \* the callback thread: event and next slot; holds the lock

vars == <<slot, used, in_use, sig, call, engine, cb>>

Slots == 1..SIZE

(* Any event that is not an ioctl report.                                  *)
Report == "report"

Idle == [event |-> NoCall, at |-> 1]

LockFree == cb = Idle

(* fresh is a history bit: the payload came since the slot's callback was  *)
(* chosen.                                                                 *)
EmptySlot == [type |-> NoCall, waiting |-> FALSE, arrived |-> FALSE, payload |-> NoCall, fresh |-> FALSE]

NewCall == [pc |-> "idle", sel |-> 0, rc |-> "none", got |-> NoCall]

(* loc_api_sync_call_init                                                  *)
Init ==
    /\ slot = [i \in Slots |-> EmptySlot]
    /\ used = {}
    /\ in_use = FALSE
    /\ sig = {}
    /\ call = [c \in Call |-> NewCall]
    /\ engine = {}
    /\ cb = Idle

Goto(c, pc) == call' = [call EXCEPT ![c].pc = pc]

Done(c) == call' = [call EXCEPT ![c] = [NewCall EXCEPT !.pc = "done"]]

Return(c, rc, got) == call' = [call EXCEPT ![c] = [@ EXCEPT !.pc = "free", !.rc = rc, !.got = got]]

-----------------------------------------------------------------------------
(* loc_api_sync_ioctl                                                      *)

(* loc_alloc_slot, under the lock: the first free slot, or ENGINE_BUSY.    *)
AllocSlot(c) ==
    /\ call[c].pc = "idle"
    /\ LockFree
    /\ IF used = Slots
       THEN /\ Done(c)
            /\ UNCHANGED <<used, in_use>>
       ELSE LET i == CHOOSE i \in Slots \ used : \A j \in Slots \ used : i <= j
            IN  /\ used' = used \cup {i}
                /\ in_use' = TRUE
                /\ call' = [call EXCEPT ![c] = [@ EXCEPT !.pc = "select", !.sel = i]]
    /\ UNCHANGED <<slot, sig, engine, cb>>

(* Mutant: has_arrived of the slot's last call is kept.                    *)
SelectedKept(s, type) == [s EXCEPT !.type = type, !.waiting = FALSE, !.fresh = FALSE]

(* The slot after loc_api_select_callback; the payload stays.              *)
Selected(s, type) ==
    [s EXCEPT !.type = type, !.waiting = FALSE, !.arrived = FALSE, !.fresh = FALSE]

(* loc_api_select_callback, under the slot's lock only.                    *)
SelectCallback(c) ==
    /\ call[c].pc = "select"
    /\ slot' = [slot EXCEPT ![call[c].sel] = Selected(@, TypeOf[c])]
    /\ Goto(c, "ioctl")
    /\ UNCHANGED <<used, in_use, sig, engine, cb>>

(* loc_ioctl under the lock.  The modem takes the call, fails it, or is    *)
(* busy with another one: then the caller waits for any callback.          *)
Ioctl(c) ==
    /\ call[c].pc = "ioctl"
    /\ LockFree
    /\ \/ /\ engine' = engine \cup {c}
          /\ Goto(c, "wait")
       \/ /\ Return(c, "failed", NoCall)
          /\ UNCHANGED engine
       \/ /\ engine # {}
          /\ Goto(c, "busy")
          /\ UNCHANGED engine
    /\ UNCHANGED <<slot, used, in_use, sig, cb>>

(* Mutant: sleeps without looking whether the callback came before.        *)
WaitBlindly(c) ==
    /\ call[c].pc = "wait"
    /\ slot' = [slot EXCEPT ![call[c].sel].waiting = TRUE]
    /\ Goto(c, "waiting")
    /\ UNCHANGED <<used, in_use, sig, engine, cb>>

(* loc_api_wait_callback under the slot's lock, up to the wait.            *)
WaitCallback(c) ==
    LET i == call[c].sel
    IN  /\ call[c].pc = "wait"
        /\ \/ /\ slot[i].arrived
              /\ Return(c, "success", slot[i].payload)
              /\ UNCHANGED slot
           \/ /\ ~slot[i].arrived /\ slot[i].waiting
              /\ Return(c, "busy", NoCall)
              /\ UNCHANGED slot
           \/ /\ ~slot[i].arrived /\ ~slot[i].waiting
              /\ slot' = [slot EXCEPT ![i].waiting = TRUE]
              /\ Goto(c, "waiting")
        /\ UNCHANGED <<used, in_use, sig, engine, cb>>

(* pthread_cond_timedwait returns 0: signalled, or for no reason.          *)
Woken(c) ==
    LET i == call[c].sel
    IN  /\ call[c].pc = "waiting"
        /\ i \in sig \/ MaySpurious
        /\ slot' = [slot EXCEPT ![i].waiting = FALSE]
        /\ sig' = sig \ {i}
        /\ Return(c, "success", slot[i].payload)
        /\ UNCHANGED <<used, in_use, engine, cb>>

(* ... or ETIMEDOUT.                                                       *)
TimedOut(c) ==
    LET i == call[c].sel
    IN  /\ call[c].pc = "waiting"
        /\ slot' = [slot EXCEPT ![i].waiting = FALSE]
        /\ sig' = sig \ {i}
        /\ Return(c, "timeout", NoCall)
        /\ UNCHANGED <<used, in_use, engine, cb>>

(* loc_free_slot looks for a slot still in use.                            *)
InUse(rest) == rest # {}

(* Mutant: the slot is not given back.                                     *)
FreeNothing(c) ==
    /\ call[c].pc = "free"
    /\ LockFree
    /\ Done(c)
    /\ UNCHANGED <<slot, used, in_use, sig, engine, cb>>

(* loc_free_slot, after the slot's lock is given up.                       *)
FreeSlot(c) ==
    /\ call[c].pc = "free"
    /\ LockFree
    /\ used' = used \ {call[c].sel}
    /\ in_use' = InUse(used')
    /\ Done(c)
    /\ UNCHANGED <<slot, sig, engine, cb>>

-----------------------------------------------------------------------------
(* The RPC callback thread: loc_api_callback_process_sync_call             *)

Selecting(c) == call[c].pc \in {"ioctl", "busy", "wait", "waiting"}

(* A callback arrives and the lock is taken; with no slot in use it is     *)
(* left at that.                                                           *)
CallbackArrives(event) ==
    /\ LockFree
    /\ event \in engine \cup {Report}
    /\ engine' = engine \ {event}
    /\ cb' = IF in_use THEN [event |-> event, at |-> 1] ELSE Idle
    /\ UNCHANGED <<slot, used, in_use, sig, call>>

(* loc_match_callback and the slot's flags.                                *)
Matches(i, event) ==
    /\ i \in used
    /\ event # Report /\ slot[i].type = TypeOf[event]
    /\ ~slot[i].arrived

(* What the slot keeps: the payload, and, before the wait, that it came.   *)
Remember(s, event) ==
    [s EXCEPT !.payload = event, !.fresh = TRUE, !.arrived = s.arrived \/ ~s.waiting]

(* One slot of the loop, under its lock.                                   *)
ScanSlot ==
    /\ cb # Idle /\ cb.at \in Slots
    /\ IF Matches(cb.at, cb.event)
       THEN /\ slot' = [slot EXCEPT ![cb.at] = Remember(@, cb.event)]
            /\ sig' = IF slot[cb.at].waiting THEN sig \cup {cb.at} ELSE sig
            /\ cb' = [cb EXCEPT !.at = SIZE + 1]
       ELSE /\ cb' = [cb EXCEPT !.at = cb.at + 1]
            /\ UNCHANGED <<slot, sig>>
    /\ UNCHANGED <<used, in_use, call, engine>>

Busy == {c \in Call : call[c].pc = "busy"}

(* Mutant: the callers of a busy engine are not signalled.                 *)
SignalledNone(c) == UNCHANGED call

(* pthread_cond_signal: one of the callers that found the engine busy.     *)
Signalled(c) ==
    \/ Busy = {} /\ UNCHANGED call
    \/ c \in Busy /\ Goto(c, "ioctl")

(* The end of the loop: in_use is corrected, a caller that found the       *)
(* engine busy is woken to try again, the lock is released.                *)
ScanDone(c) ==
    /\ cb # Idle /\ cb.at > SIZE
    /\ cb' = Idle
    /\ in_use' = InUse(used)
    /\ Signalled(c)
    /\ UNCHANGED <<slot, used, sig, engine>>

-----------------------------------------------------------------------------
CallStep(c) ==
    \/ AllocSlot(c) \/ SelectCallback(c) \/ Ioctl(c)
    \/ WaitCallback(c) \/ Woken(c) \/ TimedOut(c) \/ FreeSlot(c)

Scan == ScanSlot \/ \E c \in Call : ScanDone(c)

Next ==
    \/ \E c \in Call : CallStep(c)
    \/ Scan
    \/ \E event \in Call \cup {Report} : CallbackArrives(event)

(* Callers and the callback thread keep running, the lock is not held from *)
(* a thread for ever, timed waits end, and threads waiting on a condition  *)
(* are woken in turn.  Nothing is assumed of the modem.                    *)
Fairness ==
    /\ WF_vars(Scan)
    /\ \A c \in Call : SF_vars(CallStep(c)) /\ SF_vars(c \in Busy /\ ScanDone(c))

Spec == Init /\ [][Next]_vars

FairSpec == Spec /\ Fairness

-----------------------------------------------------------------------------
(* Properties                                                              *)

(* The type invariant.                                                     *)
TypeOK ==
    /\ slot \in [Slots -> [type : Types \cup {NoCall}, waiting : BOOLEAN,
                           arrived : BOOLEAN, payload : Call \cup {NoCall}, fresh : BOOLEAN]]
    /\ used \subseteq Slots /\ sig \subseteq Slots
    /\ in_use \in BOOLEAN
    /\ \A c \in Call :
          /\ call[c].pc \in {"idle", "select", "ioctl", "busy", "wait", "waiting", "free", "done"}
          /\ call[c].sel \in 0..SIZE
          /\ call[c].rc \in {"none", "success", "failed", "busy", "timeout"}
          /\ call[c].got \in Call \cup {NoCall}
    /\ engine \subseteq Call
    /\ cb.at \in 1..(SIZE + 1)

Holds(c) == call[c].pc \notin {"idle", "done"}

(* A slot in use belongs to exactly one running call: none is shared after *)
(* a time-out or a late callback, none is lost on an error return.  in_use *)
(* lets the callback thread skip the slots without looking; it is not off  *)
(* while a call holds one, or that call's callback would be dropped.       *)
SlotsOwned ==
    /\ TypeOK
    /\ used # {} => in_use
    /\ \A c \in Call : Holds(c) => call[c].sel \in used
    /\ \A i \in used : Cardinality({c \in Call : Holds(c) /\ call[c].sel = i}) = 1

(* A call never goes to sleep on a callback that has come already, and a   *)
(* sleeper's slot says so: the ENGINE_BUSY return of loc_api_wait_callback *)
(* (line 417) is never taken.                                              *)
NoSleepAfterArrival ==
    \A c \in Call :
        /\ call[c].pc = "waiting" =>
              slot[call[c].sel].waiting /\ ~slot[call[c].sel].arrived
        /\ call[c].pc = "wait" => ~slot[call[c].sel].waiting

(* "Obtained the first awaited callback" (line 445): success is a callback *)
(* of the type asked for that came after the call chose it, not what an    *)
(* earlier user left in the slot.                                          *)
SuccessMeansCallback ==
    \A c \in Call : call[c].rc = "success" =>
        /\ slot[call[c].sel].fresh
        /\ TypeOf[call[c].got] = TypeOf[c]

(* "Synchronous IOCTL call (reentrant version)" (line 463): a successful   *)
(* call returns the answer to its own ioctl.                               *)
AnswerIsOwn == \A c \in Call : call[c].rc = "success" => call[c].got = c

(* "Wakes up blocked API calls to check if the needed callback has         *)
(* arrived" (line 131): a callback that some call sleeps for is given to a *)
(* call that has chosen it.                                                *)
CallbackWakesBlocked ==
    [][ \A i \in Slots : slot'[i].payload # slot[i].payload =>
          \/ \E c \in Call : call[c].sel = i /\ Selecting(c)
          \/ ~\E c \in Call : call[c].pc = "waiting" /\ call[c].sel \notin sig /\ TypeOf[c] = TypeOf[cb.event] ]_vars

(* A call that met a busy engine has no time-out, and each callback wakes  *)
(* one such call: it returns if the modem answers what it took and keeps   *)
(* reporting.                                                              *)
BusyReturns ==
    []<>(engine = {}) /\ []<><<in_use /\ CallbackArrives(Report)>>_vars
        => \A c \in Call : call[c].pc = "busy" ~> call[c].pc = "done"
=============================================================================
