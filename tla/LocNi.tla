-------------------------------- MODULE LocNi --------------------------------
(***************************************************************************)
(* Network-initiated location requests                                     *)
(* (src/gps/libloc_api/loc_eng_ni.cpp).  The modem asks, the handler shows *)
(* a notification and starts a thread that waits for the user's answer or  *)
(* for a time-out and replies to the modem.  notif_in_progress is under    *)
(* loc_ni_lock, the user's answer under user_cb_data_mutex, and both are   *)
(* tested without either.                                                  *)
(***************************************************************************)
EXTENDS Naturals, Sequences, FiniteSets

CONSTANTS Req,           \* requests of the modem; also their notification ids
          ThreadMayFail, \* whether pthread_create may fail
          None

ASSUME LocNiAssumption == ThreadMayFail \in BOOLEAN /\ None \notin Req

Response == {"accept", "deny", "noresp"}

VARIABLES
    ni,       \* loc_eng_ni_data: in_progress, id, request, received, resp
    handler,  \* the callback thread's request, and its place
    thread,   \* thread[r]: the thread waiting for the answer to r
    ui,       \* the framework's thread in loc_eng_ni_respond
    state,    \* state[r]: what became of r: "new", "ignored", "shown", ...
    said,     \* said[r]: what the user answered to notification r
    sent      \* sent[r]: the responses sent to the modem for r

vars == <<ni, handler, thread, ui, state, said, sent>>

Quiet == [pc |-> "idle", req |-> None]

(* loc_eng_ni_init                                                         *)
Init ==
    /\ ni = [in_progress |-> FALSE, id |-> None, request |-> None, received |-> FALSE, resp |-> "noresp"]
    /\ handler = Quiet
    /\ thread = [r \in Req |-> "none"]
    /\ ui = Quiet
    /\ state = [r \in Req |-> "new"]
    /\ said = [r \in Req |-> "nothing"]
    /\ sent = [r \in Req |-> <<>>]

-----------------------------------------------------------------------------
(* The callback thread                                                     *)

(* Mutant: the handler does not look whether it is busy.                   *)
RequestHandlerAlways(r) ==
    /\ handler = Quiet /\ state[r] = "new"
    /\ handler' = [pc |-> "save", req |-> r]
    /\ state' = [state EXCEPT ![r] = "arrived"]
    /\ UNCHANGED <<ni, thread, ui, said, sent>>

(* loc_ni_request_handler: in progress is tested without the lock.         *)
RequestHandler(r) ==
    /\ handler = Quiet /\ state[r] = "new"
    /\ IF ni.in_progress
       THEN /\ state' = [state EXCEPT ![r] = "ignored"]
            /\ UNCHANGED handler
       ELSE /\ state' = [state EXCEPT ![r] = "arrived"]
            /\ handler' = [pc |-> "save", req |-> r]
    /\ UNCHANGED <<ni, thread, ui, said, sent>>

(* ... the session is set up and its thread started under loc_ni_lock.     *)
SaveRequest ==
    LET r == handler.req
    IN  /\ handler.pc = "save"
        /\ ni' = [ni EXCEPT !.in_progress = TRUE, !.id = r, !.request = r]
        /\ \/ thread' = [thread EXCEPT ![r] = "start"]
           \/ ThreadMayFail /\ thread' = [thread EXCEPT ![r] = "failed"]
        /\ handler' = [handler EXCEPT !.pc = "notify"]
        /\ UNCHANGED <<ui, state, said, sent>>

(* ... and ni_notify_cb shows it.                                          *)
Notify ==
    /\ handler.pc = "notify"
    /\ state' = [state EXCEPT ![handler.req] = "shown"]
    /\ handler' = Quiet
    /\ UNCHANGED <<ni, thread, ui, said, sent>>

-----------------------------------------------------------------------------
(* The framework: loc_eng_ni_respond                                       *)

(* The user answers a notification; its id is compared, ...                *)
NiRespond(r, resp) ==
    /\ ui = Quiet /\ state[r] = "shown" /\ said[r] = "nothing"
    /\ said' = [said EXCEPT ![r] = resp]
    /\ ui' = IF ni.id = r THEN [pc |-> "progress", req |-> r] ELSE Quiet
    /\ UNCHANGED <<ni, handler, thread, state, sent>>

(* ... notif_in_progress is tested, ...                                    *)
TestInProgress ==
    /\ ui.pc = "progress"
    /\ ui' = IF ni.in_progress THEN [ui EXCEPT !.pc = "set"] ELSE Quiet
    /\ UNCHANGED <<ni, handler, thread, state, said, sent>>

(* ... and loc_ni_process_user_response stores it under the mutex.         *)
ProcessUserResponse ==
    /\ ui.pc = "set"
    /\ ni' = [ni EXCEPT !.resp = said[ui.req], !.received = TRUE]
    /\ ui' = Quiet
    /\ UNCHANGED <<handler, thread, state, said, sent>>

-----------------------------------------------------------------------------
(* loc_ni_thread_proc                                                      *)

(* loc_ni_respond, still under user_cb_data_mutex; the flag is reset.      *)
Respond(r, resp) ==
    /\ sent' = [sent EXCEPT ![ni.request] = Append(@, resp)]
    /\ ni' = [ni EXCEPT !.resp = resp, !.received = FALSE]
    /\ thread' = [thread EXCEPT ![r] = "clear"]

WaitResponse(r) ==
    /\ thread[r] = "start" /\ ~ni.received
    /\ thread' = [thread EXCEPT ![r] = "wait"]
    /\ UNCHANGED <<ni, handler, ui, state, said, sent>>

(* A response is there, at the start or after a wake-up.                   *)
ResponseReceived(r) ==
    /\ thread[r] \in {"start", "wait"} /\ ni.received
    /\ Respond(r, ni.resp)
    /\ UNCHANGED <<handler, ui, state, said>>

(* Mutant: the loop goes on waiting.                                       *)
TimeoutKeepsWaiting(r) == thread[r] = "wait" /\ UNCHANGED vars

(* ETIMEDOUT; a response stored meanwhile is overwritten.                  *)
ResponseTimeout(r) ==
    /\ thread[r] = "wait"
    /\ Respond(r, "noresp")
    /\ UNCHANGED <<handler, ui, state, said>>

(* The session ends, under loc_ni_lock again.                              *)
ClearSession(r) ==
    /\ thread[r] = "clear"
    /\ ni' = [ni EXCEPT !.in_progress = FALSE, !.id = None]
    /\ thread' = [thread EXCEPT ![r] = "done"]
    /\ UNCHANGED <<handler, ui, state, said, sent>>

-----------------------------------------------------------------------------
Thread(r) == WaitResponse(r) \/ ResponseReceived(r) \/ ResponseTimeout(r) \/ ClearSession(r)

Next ==
    \/ \E r \in Req : RequestHandler(r)
    \/ SaveRequest \/ Notify
    \/ \E r \in Req, resp \in Response : NiRespond(r, resp)
    \/ TestInProgress \/ ProcessUserResponse
    \/ \E r \in Req : Thread(r)

(* Threads run and timed waits end; the user need not answer.              *)
Fairness ==
    /\ WF_vars(SaveRequest \/ Notify)
    /\ WF_vars(TestInProgress \/ ProcessUserResponse)
    /\ \A r \in Req : WF_vars(Thread(r))

Spec == Init /\ [][Next]_vars

FairSpec == Spec /\ Fairness

-----------------------------------------------------------------------------
(* Properties                                                              *)

(* The type invariant.                                                     *)
TypeOK ==
    /\ ni \in [in_progress : BOOLEAN, id : Req \cup {None}, request : Req \cup {None},
               received : BOOLEAN, resp : Response]
    /\ handler \in [pc : {"idle", "save", "notify"}, req : Req \cup {None}]
    /\ thread \in [Req -> {"none", "start", "wait", "clear", "done", "failed"}]
    /\ ui \in [pc : {"idle", "progress", "set"}, req : Req \cup {None}]
    /\ state \in [Req -> {"new", "ignored", "arrived", "shown"}]
    /\ said \in [Req -> Response \cup {"nothing"}]
    /\ sent \in [Req -> Seq(Response)]

Live(r) == thread[r] \in {"start", "wait", "clear", "failed"}

(* Although notif_in_progress is tested without loc_ni_lock, there is one  *)
(* session at a time, its thread replies to the request it was started     *)
(* for, and the modem gets one reply per request.                          *)
OneSession ==
    /\ TypeOK
    /\ Cardinality({r \in Req : Live(r)}) <= 1
    /\ \A r \in Req : Live(r) => ni.in_progress /\ ni.id = r /\ ni.request = r
    /\ \A r \in Req :
          /\ Len(sent[r]) <= 1
          /\ Len(sent[r]) = 1 <=> thread[r] \in {"clear", "done"}

(* "For robustness, spawn a thread ... to clear up the notification        *)
(* status" (line 521): every session ends with a reply, also when nobody   *)
(* answers and whatever a late answer does to the flags.                   *)
SessionEnds == \A r \in Req : thread[r] = "start" ~> (thread[r] = "done" /\ sent[r] # <<>>)

(* "Reset the user response flag for the next session" (line 672): what is *)
(* sent for a request is what the user answered to it.                     *)
ReplyIsUsers ==
    \A r \in Req : \A k \in DOMAIN sent[r] : sent[r][k] # "noresp" => sent[r][k] = said[r]

(* "If busy, use default or deny" (line 310): every request gets a reply.  *)
EveryRequestAnswered == \A r \in Req : state[r] # "new" ~> sent[r] # <<>>
=============================================================================
