----------------------------- MODULE LocNiProofs -----------------------------
(***************************************************************************)
(* Proofs about network-initiated requests: for any set of requests, and   *)
(* whether or not threads can be started, one session runs at a time and   *)
(* the modem gets one reply per session.                                   *)
(***************************************************************************)
EXTENDS LocNi, FiniteSetTheorems, TLAPS

(* The type of loc_eng_ni_data.                                            *)
NiData ==
    [in_progress : BOOLEAN, id : Req \cup {None}, request : Req \cup {None},
     received : BOOLEAN, resp : Response]

(* A session that lives is the one loc_eng_ni_data describes.              *)
SessionIsNi ==
    \A r \in Req : Live(r) => ni.in_progress /\ ni.id = r /\ ni.request = r

(* A thread has replied, once, exactly when it is past loc_ni_respond.     *)
RepliedOnce ==
    \A r \in Req : Len(sent[r]) = IF thread[r] \in {"clear", "done"} THEN 1 ELSE 0

(* The request between the unlocked test and the lock: nothing has set     *)
(* notif_in_progress since, for only this thread does.                     *)
HandlerOwns ==
    /\ handler.pc # "idle" => handler.req \in Req
    /\ handler.pc = "save" =>
          ~ni.in_progress /\ thread[handler.req] = "none" /\ state[handler.req] # "new"
    /\ \A r \in Req : state[r] = "new" => thread[r] = "none"

(* An answer on its way is one of the user's.                              *)
UiOwns == ui.pc # "idle" => ui.req \in Req /\ said[ui.req] \in Response

(* The inductive invariant.                                                *)
NiInv == TypeOK /\ SessionIsNi /\ RepliedOnce /\ HandlerOwns /\ UiOwns

(* loc_eng_ni_init: no session, no thread, no reply.                       *)
LEMMA InitInv == Init => NiInv
  BY LocNiAssumption
     DEF Init, Quiet, NiInv, TypeOK, Response, SessionIsNi, Live, RepliedOnce, HandlerOwns, UiOwns

(* loc_ni_respond is called by the session's thread: it appends the first  *)
(* reply to its own request.                                               *)
LEMMA RespondInv ==
    ASSUME NiInv, NEW r \in Req, NEW resp \in Response, thread[r] \in {"start", "wait"},
           Respond(r, resp), UNCHANGED <<handler, ui, state, said>>
    PROVE  NiInv'
<1>1. ni.in_progress /\ ni.id = r /\ ni.request = r
  BY DEF NiInv, SessionIsNi, Live
<1>2. Len(sent[r]) = 0 /\ sent[r] \in Seq(Response)
  BY DEF NiInv, TypeOK, RepliedOnce
<1>3. /\ sent' = [sent EXCEPT ![r] = Append(sent[r], resp)]
      /\ Append(sent[r], resp) \in Seq(Response)
      /\ Len(Append(sent[r], resp)) = 1
  BY <1>1, <1>2 DEF Respond, NiInv, TypeOK
<1>4. TypeOK'
  <2>1. sent' \in [Req -> Seq(Response)]
    BY <1>3 DEF NiInv, TypeOK
  <2>2. ni' \in NiData
    BY Zenon DEF NiInv, TypeOK, Respond, NiData
  <2>3. thread' \in [Req -> {"none", "start", "wait", "clear", "done", "failed"}]
    BY DEF NiInv, TypeOK, Respond
  <2> QED
    BY <2>1, <2>2, <2>3, Zenon DEF NiInv, TypeOK, NiData
<1>5. SessionIsNi'
  BY <1>1 DEF NiInv, TypeOK, Respond, SessionIsNi, Live
<1>6. RepliedOnce'
  BY <1>3 DEF NiInv, TypeOK, Respond, RepliedOnce
<1>7. HandlerOwns' /\ UiOwns'
  BY <1>1 DEF NiInv, TypeOK, Respond, HandlerOwns, UiOwns
<1> QED
  BY <1>4, <1>5, <1>6, <1>7 DEF NiInv

(* Each step of the callback thread, the framework and the session threads *)
(* keeps the inductive invariant.                                          *)
LEMMA NextInv == NiInv /\ [Next]_vars => NiInv'
<1> SUFFICES ASSUME NiInv, [Next]_vars
             PROVE  NiInv'
  OBVIOUS
<1> USE LocNiAssumption
<1>1. ASSUME NEW r \in Req, RequestHandler(r) PROVE NiInv'
  <2>1. TypeOK'
    <3>1. handler' \in [pc : {"idle", "save", "notify"}, req : Req \cup {None}]
      BY <1>1 DEF RequestHandler, NiInv, TypeOK
    <3>2. state' \in [Req -> {"new", "ignored", "arrived", "shown"}]
      BY <1>1 DEF RequestHandler, NiInv, TypeOK
    <3> QED
      BY <1>1, <3>1, <3>2, Zenon DEF RequestHandler, NiInv, TypeOK
  <2>2. SessionIsNi' /\ RepliedOnce' /\ UiOwns'
    BY <1>1 DEF RequestHandler, NiInv, SessionIsNi, Live, RepliedOnce, UiOwns
  <2>3. HandlerOwns'
    BY <1>1 DEF RequestHandler, Quiet, NiInv, TypeOK, HandlerOwns
  <2> QED
    BY <2>1, <2>2, <2>3 DEF NiInv
<1>2. CASE SaveRequest
  <2>1. handler.req \in Req /\ ~ni.in_progress /\ thread[handler.req] = "none"
    BY <1>2 DEF SaveRequest, NiInv, HandlerOwns
  <2>2. TypeOK'
    <3>1. ni' \in NiData
      BY <1>2, <2>1, Zenon DEF SaveRequest, NiInv, TypeOK, NiData
    <3>2. thread' \in [Req -> {"none", "start", "wait", "clear", "done", "failed"}]
      BY <1>2 DEF SaveRequest, NiInv, TypeOK
    <3>3. handler' \in [pc : {"idle", "save", "notify"}, req : Req \cup {None}]
      BY <1>2 DEF SaveRequest, NiInv, TypeOK
    <3> QED
      BY <1>2, <3>1, <3>2, <3>3, Zenon DEF SaveRequest, NiInv, TypeOK, NiData
  <2>3. SessionIsNi'
    BY <1>2, <2>1 DEF SaveRequest, NiInv, TypeOK, SessionIsNi, Live
  <2>4. RepliedOnce'
    <3>1. /\ sent' = sent
          /\ \A r \in Req : thread'[r] \in {"clear", "done"} <=> thread[r] \in {"clear", "done"}
      BY <1>2, <2>1 DEF SaveRequest, NiInv, TypeOK
    <3> QED
      BY <3>1, Zenon DEF NiInv, RepliedOnce
  <2>5. HandlerOwns' /\ UiOwns'
    BY <1>2, <2>1 DEF SaveRequest, NiInv, TypeOK, HandlerOwns, UiOwns
  <2> QED
    BY <2>2, <2>3, <2>4, <2>5 DEF NiInv
<1>3. CASE Notify
  BY <1>3 DEF Notify, Quiet, NiInv, TypeOK, SessionIsNi, Live, RepliedOnce,
              HandlerOwns, UiOwns
<1>4. ASSUME NEW r \in Req, NEW resp \in Response, NiRespond(r, resp) PROVE NiInv'
  BY <1>4 DEF NiRespond, Quiet, NiInv, TypeOK, SessionIsNi, Live, RepliedOnce,
              HandlerOwns, UiOwns
<1>5. CASE TestInProgress
  BY <1>5 DEF TestInProgress, Quiet, NiInv, TypeOK, SessionIsNi, Live, RepliedOnce,
              HandlerOwns, UiOwns
<1>6. CASE ProcessUserResponse
  BY <1>6 DEF ProcessUserResponse, Quiet, NiInv, TypeOK, SessionIsNi, Live, RepliedOnce,
              HandlerOwns, UiOwns
<1>7. ASSUME NEW r \in Req, WaitResponse(r) PROVE NiInv'
  BY <1>7 DEF WaitResponse, NiInv, TypeOK, SessionIsNi, Live, RepliedOnce,
              HandlerOwns, UiOwns
<1>8. ASSUME NEW r \in Req, ResponseReceived(r) PROVE NiInv'
  <2>1. ni.resp \in Response
    BY DEF NiInv, TypeOK
  <2> QED
    BY <1>8, <2>1, RespondInv DEF ResponseReceived
<1>9. ASSUME NEW r \in Req, ResponseTimeout(r) PROVE NiInv'
  BY <1>9, RespondInv DEF ResponseTimeout, Response
<1>10. ASSUME NEW r \in Req, ClearSession(r) PROVE NiInv'
  <2>1. TypeOK'
    <3>1. ni' \in NiData
      BY <1>10, Zenon DEF ClearSession, NiInv, TypeOK, NiData
    <3>2. thread' \in [Req -> {"none", "start", "wait", "clear", "done", "failed"}]
      BY <1>10 DEF ClearSession, NiInv, TypeOK
    <3> QED
      BY <1>10, <3>1, <3>2, Zenon DEF ClearSession, NiInv, TypeOK, NiData
  <2>2. SessionIsNi'
    BY <1>10 DEF ClearSession, NiInv, TypeOK, SessionIsNi, Live
  <2>3. RepliedOnce'
    BY <1>10 DEF ClearSession, NiInv, TypeOK, RepliedOnce
  <2>4. HandlerOwns' /\ UiOwns'
    BY <1>10 DEF ClearSession, NiInv, TypeOK, SessionIsNi, Live, HandlerOwns, UiOwns
  <2> QED
    BY <2>1, <2>2, <2>3, <2>4 DEF NiInv
<1>11. CASE UNCHANGED vars
  BY <1>11 DEF vars, NiInv, TypeOK, SessionIsNi, Live, RepliedOnce, HandlerOwns, UiOwns
<1> QED
  BY <1>1, <1>2, <1>3, <1>4, <1>5, <1>6, <1>7, <1>8, <1>9, <1>10, <1>11 DEF Next, Thread

(* The inductive invariant holds in every reachable state.                 *)
LEMMA Invariance == Spec => []NiInv
  BY InitInv, NextInv, PTL DEF Spec

(* The living sessions all are ni.id, so there is at most one.             *)
LEMMA AtMostOne == NiInv => Cardinality({r \in Req : Live(r)}) <= 1
<1> SUFFICES ASSUME NiInv
             PROVE  Cardinality({r \in Req : Live(r)}) <= 1
  OBVIOUS
<1> DEFINE L == {r \in Req : Live(r)}
<1>1. L \subseteq {ni.id}
  BY DEF NiInv, SessionIsNi
<1>2. IsFiniteSet({ni.id}) /\ Cardinality({ni.id}) = 1
  BY FS_Singleton
<1> QED
  BY <1>1, <1>2, FS_Subset

(* loc_ni_request_handler and loc_ni_thread_proc: one session at a time,   *)
(* each replying once and to its own request, although notif_in_progress   *)
(* is tested without loc_ni_lock.                                          *)
THEOREM OneSessionHolds == Spec => []OneSession
<1>1. ASSUME NiInv PROVE OneSession
  <2>1. \A r \in Req :
           /\ Len(sent[r]) <= 1
           /\ Len(sent[r]) = 1 <=> thread[r] \in {"clear", "done"}
    <3> TAKE r \in Req
    <3>1. Len(sent[r]) = IF thread[r] \in {"clear", "done"} THEN 1 ELSE 0
      BY <1>1 DEF NiInv, RepliedOnce
    <3>2. CASE thread[r] \in {"clear", "done"}
      BY <3>1, <3>2
    <3>3. CASE thread[r] \notin {"clear", "done"}
      BY <3>1, <3>3
    <3> QED
      BY <3>2, <3>3
  <2> QED
    BY <1>1, <2>1, AtMostOne DEF NiInv, OneSession, SessionIsNi
<1> QED
  BY <1>1, Invariance, PTL
=============================================================================
