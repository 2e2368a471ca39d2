------------------------------- MODULE LocEng -------------------------------
(***************************************************************************)
(* The location engine's deferred-action thread                            *)
(* (src/gps/libloc_api/loc_eng.cpp, loc_eng_xtra.cpp).                     *)
(*                                                                         *)
(* The modem's callbacks and the framework's calls leave flags, an event   *)
(* and requests for one thread, which does the work outside the mutex.     *)
(* deferred_action_mutex covers the flags and the event, deferred_stop_    *)
(* mutex the deferred stop, and engine_status has no lock.  A section      *)
(* under a mutex is one step.  What an ioctl does is LocSync's matter;     *)
(* what the framework is told of fixes and sessions is left out.           *)
(***************************************************************************)
EXTENDS Naturals, Sequences

CONSTANTS MaxEvents,  \* bound: events of the modem
          MaxCalls,   \* bound: calls of the framework
          None

ASSUME BoundsAssumption == MaxEvents \in Nat /\ MaxCalls \in Nat

(* Status reports: engine on (also by the begin of a fix session), off, and *)
(* "end" of a fix session, which is ignored; requests to open and close    *)
(* the data connection; reports that only go on to the framework.          *)
Event == {"on", "off", "end", "open", "close", "report"}
Answer == {"success", "closed", "failed"}
Flag == Answer \cup {"event", "delete", "agps"}

ASSUME NoneAssumption == None \notin Event

VARIABLES
    flags,      \* deferred_action_flags
    loc_event,  \* the event not yet taken
    engine,     \* engine_status
    aiding,     \* aiding_data_for_deletion # 0
    xtra,       \* xtra_data_for_injection # NULL
    agps,       \* agps_status
    stop,       \* agps_request_pending and stop_request_pending
    data_on,    \* data_connection_is_on
    wake,       \* the wake lock, which does not count
    signal,     \* the waiting thread has been signalled
    def,        \* the deferred-action thread and what it has copied
    fw,         \* where the framework's thread is, inside a call
    asked,      \* data-connection requests processed, in order
    told,       \* data-connection requests told to the framework
    answered,   \* how many of them it has answered
    owed,       \* a stop was put off and has not been done
    left        \* events and calls still to come

vars == <<flags, loc_event, engine, aiding, xtra, agps, stop, data_on, wake, signal, def, fw,
          asked, told, answered, owed, left>>

DefAt(pc) == [pc |-> pc, ev |-> None, flags |-> {}, engine |-> "none", aiding |-> FALSE, status |-> None]

Place == {"top", "wait", "event", "recheck", "delete", "deleted", "xtra", "conn", "stop", "atl"}
Request == {"open", "close"}
EngineStatus == {"none", "on", "off"}

SwitchesOK ==
    /\ aiding \in BOOLEAN /\ xtra \in BOOLEAN /\ data_on \in BOOLEAN
    /\ wake \in BOOLEAN /\ signal \in BOOLEAN /\ owed \in BOOLEAN
TypeOK ==
    /\ SwitchesOK
    /\ flags \subseteq Flag /\ loc_event \in Event \cup {None} /\ engine \in EngineStatus
    /\ agps \in Request \cup {None} /\ stop \in [pending : BOOLEAN, wanted : BOOLEAN]
    /\ def \in [pc : Place, ev : Event \cup {None}, flags : SUBSET Flag, engine : EngineStatus,
                aiding : BOOLEAN, status : Request \cup {None}]
    /\ fw \in {"idle", "stop", "xtra"}
    /\ asked \in Seq(Request) /\ told \in Seq(Request) /\ answered \in 0 .. Len(told)
    /\ left \in [events : Nat, calls : Nat]

(* loc_eng_init                                                            *)
Init ==
    /\ flags = {} /\ loc_event = None /\ engine = "none" /\ aiding = FALSE /\ xtra = FALSE
    /\ agps = None /\ stop = [pending |-> FALSE, wanted |-> FALSE] /\ data_on = FALSE
    /\ wake = FALSE /\ signal = FALSE /\ def = DefAt("top") /\ fw = "idle"
    /\ asked = <<>> /\ told = <<>> /\ answered = 0 /\ owed = FALSE
    /\ left = [events |-> MaxEvents, calls |-> MaxCalls]

(* A signal reaches the thread only while it waits.  Deferring holds the   *)
(* wake lock, sets a flag and signals, all under the mutex.                *)
Signal == signal' = (signal \/ def.pc = "wait")
Defer(f) == wake' = TRUE /\ flags' = flags \cup {f} /\ Signal
-----------------------------------------------------------------------------
(* loc_event_cb: an event that was not taken yet is overwritten.           *)
EventCb(ev) ==
    /\ left.events > 0 /\ left' = [left EXCEPT !.events = @ - 1]
    /\ loc_event' = ev
    /\ Defer("event")
    /\ UNCHANGED <<engine, aiding, xtra, agps, stop, data_on, def, fw, asked, told, answered, owed>>

Call == fw = "idle" /\ left.calls > 0 /\ left' = [left EXCEPT !.calls = @ - 1]

(* loc_eng_stop: put off while an AGPS request is pending, ...             *)
Stop ==
    /\ Call
    /\ \/ /\ stop.pending
          /\ stop' = [stop EXCEPT !.wanted = TRUE] /\ owed' = TRUE
          /\ UNCHANGED fw
       \/ /\ ~stop.pending
          /\ fw' = "stop"
          /\ UNCHANGED <<stop, owed>>
    /\ UNCHANGED <<flags, loc_event, engine, aiding, xtra, agps, data_on, wake, signal, def, asked, told, answered>>

(* ... or loc_stop_fix.                                                    *)
StopFix ==
    /\ fw = "stop"
    /\ fw' = "idle" /\ owed' = FALSE
    /\ UNCHANGED <<flags, loc_event, engine, aiding, xtra, agps, stop, data_on, wake, signal, def, asked, told,
                   answered, left>>

(* loc_eng_delete_aiding_data: now, or when the engine goes off.           *)
DeleteAidingData ==
    /\ Call
    /\ aiding' = TRUE
    /\ IF engine # "on" THEN Defer("delete") ELSE UNCHANGED <<wake, flags, signal>>
    /\ UNCHANGED <<loc_event, engine, xtra, agps, stop, data_on, def, fw, asked, told, answered, owed>>

(* qct_loc_eng_inject_xtra_data_proxy: the data is kept (if malloc         *)
(* succeeds), then the thread signalled, without the mutex or a flag.      *)
InjectXtraData ==
    /\ Call
    /\ xtra' \in {xtra, TRUE} /\ fw' = "xtra"
    /\ UNCHANGED <<flags, loc_event, engine, aiding, agps, stop, data_on, wake, signal, def, asked, told, answered,
                   owed>>
SignalXtra ==
    /\ fw = "xtra" /\ fw' = "idle"
    /\ IF engine # "on" THEN Signal ELSE UNCHANGED signal
    /\ UNCHANGED <<flags, loc_event, engine, aiding, xtra, agps, stop, data_on, wake, def, asked, told, answered,
                   owed, left>>

(* The framework answers what it was told, in order: loc_eng_data_conn_    *)
(* open, _closed and _failed.                                              *)
DataConn(f) ==
    /\ answered < Len(told)
    /\ f = "closed" <=> told[answered + 1] = "close"
    /\ answered' = answered + 1
    /\ data_on' = (data_on \/ f = "success")
    /\ Defer(f)
    /\ UNCHANGED <<loc_event, engine, aiding, xtra, agps, stop, def, fw, asked, told, owed, left>>
-----------------------------------------------------------------------------
(* loc_eng_deferred_action_thread.  Nothing to do: wait without the lock.  *)
(* Mutant: it waits without looking at the flags.                          *)
WaitAnyway ==
    /\ def.pc = "top"
    /\ wake' = FALSE /\ signal' = FALSE
    /\ def' = DefAt("wait")
    /\ UNCHANGED <<flags, loc_event, engine, aiding, xtra, agps, stop, data_on, fw, asked, told, answered, owed, left>>
Wait ==
    /\ def.pc = "top" /\ flags = {}
    /\ wake' = FALSE /\ signal' = FALSE
    /\ def' = DefAt("wait")
    /\ UNCHANGED <<flags, loc_event, engine, aiding, xtra, agps, stop, data_on, fw, asked, told, answered, owed, left>>

(* Under the mutex: copy what is there and clear it.  The wait has no      *)
(* predicate; a spurious wake-up does the same.  Mutant: agps_status is    *)
(* only copied.                                                            *)
TakeKeepsStatus ==
    /\ def.pc = "wait" \/ (def.pc = "top" /\ flags # {})
    /\ wake' = (wake \/ def.pc = "wait")
    /\ def' = [pc |-> IF loc_event = None THEN "delete" ELSE "event", ev |-> loc_event, flags |-> flags,
               engine |-> engine, aiding |-> aiding, status |-> agps]
    /\ flags' = {} /\ loc_event' = None /\ signal' = FALSE
    /\ UNCHANGED <<engine, aiding, xtra, agps, stop, data_on, fw, asked, told, answered, owed, left>>
Take ==
    /\ def.pc = "wait" \/ (def.pc = "top" /\ flags # {})
    /\ wake' = (wake \/ def.pc = "wait")
    /\ def' = [pc |-> IF loc_event = None THEN "delete" ELSE "event", ev |-> loc_event, flags |-> flags,
               engine |-> engine, aiding |-> aiding, status |-> agps]
    /\ flags' = {} /\ loc_event' = None /\ agps' = None /\ signal' = FALSE
    /\ UNCHANGED <<engine, aiding, xtra, stop, data_on, fw, asked, told, answered, owed, left>>

(* loc_eng_process_loc_event: a status report changes engine_status        *)
(* without a lock, ...                                                     *)
ReportStatus ==
    /\ def.pc = "event" /\ def.ev \in {"on", "off", "end"}
    /\ engine' = IF def.ev = "end" THEN engine ELSE def.ev
    /\ def' = [def EXCEPT !.pc = "recheck"]
    /\ UNCHANGED <<flags, loc_event, aiding, xtra, agps, stop, data_on, wake, signal, fw, asked, told, answered,
                   owed, left>>

(* ... and then, under the mutex, wakes the thread for what had to wait.   *)
Recheck ==
    /\ def.pc = "recheck"
    /\ IF engine # "on" /\ (aiding \/ xtra) THEN Defer("delete") ELSE UNCHANGED <<wake, flags, signal>>
    /\ def' = [def EXCEPT !.pc = "delete"]
    /\ UNCHANGED <<loc_event, engine, aiding, xtra, agps, stop, data_on, fw, asked, told, answered, owed, left>>

(* loc_eng_process_conn_request, under deferred_action_mutex.              *)
ConnRequest ==
    /\ def.pc = "event" /\ def.ev \in {"open", "close"}
    /\ agps' = def.ev
    /\ stop' = [stop EXCEPT !.pending = (def.ev = "open")]
    /\ asked' = Append(asked, def.ev)
    /\ Defer("agps")
    /\ def' = [def EXCEPT !.pc = "delete"]
    /\ UNCHANGED <<loc_event, engine, aiding, xtra, data_on, fw, told, answered, owed, left>>

Report ==
    /\ def.pc = "event" /\ def.ev = "report"
    /\ def' = [def EXCEPT !.pc = "delete"]
    /\ UNCHANGED <<flags, loc_event, engine, aiding, xtra, agps, stop, data_on, wake, signal, fw, asked, told,
                   answered, owed, left>>

(* loc_eng_delete_aiding_data_action on the copied status: the request is  *)
(* cleared, the modem told, ...                                            *)
DeleteAction ==
    /\ def.pc = "delete"
    /\ \/ /\ def.engine # "on" /\ def.aiding
          /\ aiding' = FALSE
          /\ def' = [def EXCEPT !.pc = "deleted"]
       \/ /\ ~(def.engine # "on" /\ def.aiding)
          /\ def' = [def EXCEPT !.pc = "xtra"]
          /\ UNCHANGED aiding
    /\ UNCHANGED <<flags, loc_event, engine, xtra, agps, stop, data_on, wake, signal, fw, asked, told, answered,
                   owed, left>>

(* ... and the request cleared again after the ioctl.                      *)
DeleteDone ==
    /\ def.pc = "deleted"
    /\ aiding' = FALSE
    /\ def' = [def EXCEPT !.pc = "xtra"]
    /\ UNCHANGED <<flags, loc_event, engine, xtra, agps, stop, data_on, wake, signal, fw, asked, told, answered,
                   owed, left>>

(* loc_eng_inject_xtra_data_in_buffer                                      *)
InjectXtra ==
    /\ def.pc = "xtra"
    /\ xtra' = (xtra /\ engine = "on")
    /\ def' = [def EXCEPT !.pc = "conn"]
    /\ UNCHANGED <<flags, loc_event, engine, aiding, agps, stop, data_on, wake, signal, fw, asked, told, answered,
                   owed, left>>

(* The data connection's state goes to the modem; one of the answers, if   *)
(* several came.                                                           *)
ConnStatus ==
    /\ def.pc = "conn"
    /\ data_on' = IF "success" \in def.flags THEN TRUE
                  ELSE IF "closed" \notin def.flags /\ "failed" \in def.flags THEN FALSE ELSE data_on
    /\ def' = [def EXCEPT !.pc = IF def.flags \cap Answer # {} THEN "stop" ELSE "atl"]
    /\ UNCHANGED <<flags, loc_event, engine, aiding, xtra, agps, stop, wake, signal, fw, asked, told, answered,
                   owed, left>>

(* Under deferred_stop_mutex: the request is over, a stop put off is done. *)
(* stop_request_pending stays set.  Mutant: the stop is left to a success. *)
HandleStopIfOpen ==
    /\ def.pc = "stop"
    /\ stop' = [stop EXCEPT !.pending = FALSE]
    /\ owed' = (owed /\ ~(stop.wanted /\ "success" \in def.flags))
    /\ def' = [def EXCEPT !.pc = "atl"]
    /\ UNCHANGED <<flags, loc_event, engine, aiding, xtra, agps, data_on, wake, signal, fw, asked, told, answered, left>>
HandleStop ==
    /\ def.pc = "stop"
    /\ stop' = [stop EXCEPT !.pending = FALSE]
    /\ owed' = (owed /\ ~stop.wanted)
    /\ def' = [def EXCEPT !.pc = "atl"]
    /\ UNCHANGED <<flags, loc_event, engine, aiding, xtra, agps, data_on, wake, signal, fw, asked, told, answered, left>>

(* loc_eng_process_atl_action                                              *)
AtlAction ==
    /\ def.pc = "atl"
    /\ told' = IF def.status = None THEN told ELSE Append(told, def.status)
    /\ def' = DefAt("top")
    /\ UNCHANGED <<flags, loc_event, engine, aiding, xtra, agps, stop, data_on, wake, signal, fw, asked, answered,
                   owed, left>>
-----------------------------------------------------------------------------
Work == \/ ReportStatus \/ Recheck \/ ConnRequest \/ Report \/ DeleteAction \/ DeleteDone
        \/ InjectXtra \/ ConnStatus \/ HandleStop \/ AtlAction

Next ==
    \/ \E ev \in Event : EventCb(ev)
    \/ Stop \/ StopFix \/ DeleteAidingData \/ InjectXtraData \/ SignalXtra
    \/ \E f \in Answer : DataConn(f)
    \/ Wait \/ Take \/ Work

(* The thread runs; it is woken if it was signalled.  The framework        *)
(* answers what it is told.                                                *)
Fairness ==
    /\ WF_vars(Wait \/ Work \/ (Take /\ (def.pc = "top" \/ signal)))
    /\ WF_vars(\E f \in Answer : DataConn(f))
    /\ WF_vars(StopFix) /\ WF_vars(SignalXtra)

Spec == Init /\ [][Next]_vars
FairSpec == Spec /\ Fairness
-----------------------------------------------------------------------------
(* "Hold a wake lock while events are pending for deferred_action_thread"  *)
(* (line 953) and "until we are done processing the event" (line 2283):    *)
(* the uncounted lock is taken by every caller and given back by the       *)
(* thread, which must not give it back with something pending.             *)
WakeHeld == TypeOK /\ (flags # {} \/ def.pc \notin {"top", "wait"} => wake)

(* Each data-connection request that was processed is told to the          *)
(* framework once and in order, although agps_status holds only one and    *)
(* events keep coming.                                                     *)
Pending(s) == IF s = None THEN <<>> ELSE <<s>>
AtlInOrder == told \o Pending(def.status) \o Pending(agps) = asked

(* "We defer stopping the engine until the AGPS request is done" (line     *)
(* 441): a stop that was put off is done in the end, whichever of opening  *)
(* and closing requests, failures and further stops come in between.       *)
StopDone == owed ~> ~owed

(* "Send_delete_aiding_data must be done when GPS engine is off" (line     *)
(* 2312).                                                                  *)
DeleteWhenOff == [][DeleteAction /\ def'.pc = "deleted" => engine # "on"]_vars

(* "Inject XTRA data when GPS engine is off" (line 2319): what is kept     *)
(* does not wait for an unrelated event.                                   *)
XtraInjected == (xtra /\ engine # "on") ~> (~xtra \/ engine = "on")
=============================================================================
