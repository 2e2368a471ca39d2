------------------------------ MODULE RilShim ------------------------------
(***************************************************************************)
(* libril-y210-shim (src/ril/rilshim/rilshim.c): the adapter between       *)
(* CM7's libril, which speaks the Gingerbread RIL dialect ("gb"), and the  *)
(* vendor blob libril-qc-1.so, which speaks RIL v6 ("v6").                 *)
(*                                                                         *)
(* Three kinds of actor run concurrently: libril's single event thread,    *)
(* which dispatches requests into shimOnRequest; the blob's own threads,   *)
(* which complete them through shimOnRequestComplete whenever they like;   *)
(* and the C heap they share.  A request is named by its token, the heap   *)
(* address of libril's RequestInfo.  libril frees that block while it      *)
(* handles the completion, so the next request may get the same token      *)
(* although the completing blob thread is still inside the shim.           *)
(***************************************************************************)
EXTENDS Naturals

CONSTANTS Token,        \* addresses calloc may return for a RequestInfo
          Block,        \* addresses malloc may return for v6 parameters
          Aid,          \* application ids the cards can report
          Worker,       \* threads of the blob
          Issued,       \* the requests libril issues, a subset of Request
          MAX_PENDING,  \* slots of s_pending
          MallocFails,  \* whether malloc may return NULL
          StrdupFails,  \* whether aidUpdate's strdup may
          NoToken, NoBlock, NoAid   \* the NULLs

(* Requests whose v6 answer the shim translates, and requests whose        *)
(* parameters it rewrites.  "PIN" stands for the six PIN/PUK requests.     *)
Translated == {"GET_SIM_STATUS", "SETUP_DATA_CALL", "DATA_CALL_LIST"}

Rewritten == {"GET_IMSI", "PIN", "SIM_IO"}

Tracked == Translated \cup Rewritten

Request == Tracked \cup {"OTHER"}

NoRequest == "none"

ASSUME ConstantsAssumption ==
    /\ Issued \subseteq Request
    /\ NoToken \notin Token
    /\ NoBlock \notin Block
    /\ NoAid \notin Aid
    /\ MAX_PENDING \in Nat
    /\ MallocFails \in BOOLEAN
    /\ StrdupFails \in BOOLEAN

VARIABLES
    pri,        \* pri[t]: request of the RequestInfo at t, NoRequest if free
    slot,       \* s_pending
    s_aid,      \* AID of the GSM/USIM application
    heap,       \* heap[b]: the parameter copy at b; free if its t is NoToken
    ev,         \* libril's event thread inside shimOnRequest
    wk,         \* wk[w]: blob thread w inside shimOnRequestComplete
    held,       \* tokens the blob is working on
    params,     \* params[t]: the parameter copy the blob was given for t
    untracked,  \* history: outstanding tokens pendingAdd found no slot for
    leaked      \* history: parameter copies lost with them

vars == <<pri, slot, s_aid, heap, ev, wk, held, params, untracked, leaked>>

Slots == 1..MAX_PENDING

(* What the blob may answer: an error or a NULL response; a v6 structure   *)
(* of the size the shim expects ("v6fail" is a data call with status /= 0);*)
(* a response of some other size; or one both dialects agree on.           *)
Answers(request) ==
    IF request \in Translated
    THEN {"null", "v6", "odd"} \cup (IF request = "SETUP_DATA_CALL" THEN {"v6fail"} ELSE {})
    ELSE {"null", "gb"}

Answer == {"null", "v6", "v6fail", "odd", "gb"}

EvIdle == [pc |-> "idle", t |-> NoToken, request |-> NoRequest,
           aid |-> NoAid, owned |-> NoBlock]

WkIdle == [pc |-> "idle", t |-> NoToken, request |-> NoRequest,
           answer |-> "null", owned |-> NoBlock]

(* pendingTake clears only the slot's t; the other two fields are dead     *)
(* from then on, since pendingAdd overwrites all three.                    *)
FreeSlot == [t |-> NoToken, request |-> NoRequest, owned |-> NoBlock]

FreeBlock == [t |-> NoToken, request |-> NoRequest, aid |-> NoAid]

(* The table is static storage, so every slot starts zeroed.               *)
Init ==
    /\ pri = [t \in Token |-> NoRequest]
    /\ slot = [i \in Slots |-> FreeSlot]
    /\ s_aid = NoAid
    /\ heap = [b \in Block |-> FreeBlock]
    /\ ev = EvIdle
    /\ wk = [w \in Worker |-> WkIdle]
    /\ held = {}
    /\ params = [t \in Token |-> NoBlock]
    /\ untracked = {}
    /\ leaked = {}

-----------------------------------------------------------------------------
(* libril's event thread: shimOnRequest                                    *)

(* The switch of shimOnRequest, up to the first shared access.  "fits" is  *)
(* the test on data and datalen; only a PIN request can fail it, because   *)
(* libril builds the other two from fixed templates.                       *)
FirstStep(request, fits) ==
    CASE request \in Translated -> "add"
      [] request = "PIN"        -> IF fits THEN "check" ELSE "add"
      [] request \in {"GET_IMSI", "SIM_IO"} -> "aid"
      [] OTHER                  -> "call"

(* libril allocates a RequestInfo at a free address and dispatches it.     *)
OnRequest(t, request, fits) ==
    /\ ev.pc = "idle"
    /\ pri[t] = NoRequest
    /\ fits \/ request = "PIN"
    /\ pri' = [pri EXCEPT ![t] = request]
    /\ ev' = [EvIdle EXCEPT !.pc = FirstStep(request, fits), !.t = t, !.request = request]
    /\ UNCHANGED <<slot, s_aid, heap, wk, held, params, untracked, leaked>>

(* Mutant: the AID test of the PIN case left out.                          *)
AidCheckDropped ==
    /\ ev.pc = "check"
    /\ ev' = [ev EXCEPT !.pc = "aid"]
    /\ UNCHANGED <<pri, slot, s_aid, heap, wk, held, params, untracked, leaked>>

(* "aidGet() != NULL": a PIN request is rewritten only if an AID is known. *)
AidCheck ==
    /\ ev.pc = "check"
    /\ ev' = [ev EXCEPT !.pc = IF s_aid = NoAid THEN "add" ELSE "aid"]
    /\ UNCHANGED <<pri, slot, s_aid, heap, wk, held, params, untracked, leaked>>

(* The aidGet() whose result goes into the parameters.                     *)
AidGet ==
    /\ ev.pc = "aid"
    /\ ev' = [ev EXCEPT !.pc = "build", !.aid = s_aid]
    /\ UNCHANGED <<pri, slot, s_aid, heap, wk, held, params, untracked, leaked>>

(* imsiArgsV6, stringsWithAid, simIoToQc: one malloc holds the v6          *)
(* parameters and their strings; on failure libril's own data is passed.   *)
BuildArgs ==
    /\ ev.pc = "build"
    /\ \/ \E b \in Block :
             /\ heap[b].t = NoToken
             /\ heap' = [heap EXCEPT ![b] = [t |-> ev.t, request |-> ev.request, aid |-> ev.aid]]
             /\ ev' = [ev EXCEPT !.pc = "add", !.aid = NoAid, !.owned = b]
       \/ /\ MallocFails \/ \A b \in Block : heap[b].t # NoToken
          /\ ev' = [ev EXCEPT !.pc = "add", !.aid = NoAid]
          /\ UNCHANGED heap
    /\ UNCHANGED <<pri, slot, s_aid, wk, held, params, untracked, leaked>>

(* Mutant: pendingAdd without its test for a free slot.                    *)
FirstSlot(i) == i = 1

FirstFree(i) ==
    /\ slot[i].t = NoToken
    /\ \A j \in Slots : j < i => slot[j].t # NoToken

(* pendingAdd: the first free slot, or a warning when there is none.       *)
PendingAdd ==
    /\ ev.pc = "add"
    /\ ev' = [ev EXCEPT !.pc = "call"]
    /\ \/ /\ \E i \in Slots :
                /\ FirstFree(i)
                /\ slot' = [slot EXCEPT ![i] =
                        [t |-> ev.t, request |-> ev.request, owned |-> ev.owned]]
          /\ UNCHANGED <<untracked, leaked>>
       \/ /\ \A i \in Slots : slot[i].t # NoToken
          /\ untracked' = untracked \cup {ev.t}
          /\ leaked' = leaked \cup ({ev.owned} \ {NoBlock})
          /\ UNCHANGED slot
    /\ UNCHANGED <<pri, s_aid, heap, wk, held, params>>

(* Mutant: the parameters freed as soon as onRequest returns.              *)
RealOnRequestFrees ==
    /\ ev.pc = "call"
    /\ held' = held \cup {ev.t}
    /\ params' = [params EXCEPT ![ev.t] = ev.owned]
    /\ heap' = [b \in Block |-> IF b = ev.owned THEN FreeBlock ELSE heap[b]]
    /\ ev' = EvIdle
    /\ UNCHANGED <<pri, slot, s_aid, wk, untracked, leaked>>

(* s_realFuncs->onRequest: the blob queues the request and returns.  (If   *)
(* it completes the request before it returns, that is the interleaving in *)
(* which a Worker completes it before the event thread dispatches again.)  *)
RealOnRequest ==
    /\ ev.pc = "call"
    /\ held' = held \cup {ev.t}
    /\ params' = [params EXCEPT ![ev.t] = ev.owned]
    /\ ev' = EvIdle
    /\ UNCHANGED <<pri, slot, s_aid, heap, wk, untracked, leaked>>

-----------------------------------------------------------------------------
(* A blob thread: shimOnRequestComplete                                    *)

HasSlot(t) == \E i \in Slots : slot[i].t = t

(* Mutant: pendingTake takes the first slot in use.                        *)
FirstUsed(i, t) ==
    /\ slot[i].t # NoToken
    /\ \A j \in Slots : j < i => slot[j].t = NoToken

FirstMatch(i, t) ==
    /\ slot[i].t = t
    /\ \A j \in Slots : j < i => slot[j].t # t

(* Mutant: pendingTake leaves the token in its slot.                       *)
Uncleared(i) == slot

Cleared(i) == [slot EXCEPT ![i] = FreeSlot]

NextAfterTake(request, answer) ==
    IF request = "GET_SIM_STATUS" /\ answer = "v6" THEN "aid" ELSE "forward"

(* The blob finishes a request and calls back; the first thing the shim    *)
(* does is pendingTake.  Without a slot the request is unknown (-1).       *)
PendingTake(w, t, answer) ==
    /\ wk[w].pc = "idle"
    /\ t \in held
    /\ answer \in Answers(pri[t])
    /\ held' = held \ {t}
    /\ params' = [params EXCEPT ![t] = NoBlock]
    /\ \/ \E i \in Slots :
             /\ FirstMatch(i, t)
             /\ slot' = Cleared(i)
             /\ wk' = [wk EXCEPT ![w] =
                    [pc |-> NextAfterTake(slot[i].request, answer), t |-> t,
                     request |-> slot[i].request, answer |-> answer, owned |-> slot[i].owned]]
       \/ /\ ~HasSlot(t)
          /\ wk' = [wk EXCEPT ![w] =
                    [pc |-> "forward", t |-> t, request |-> NoRequest,
                     answer |-> answer, owned |-> NoBlock]]
          /\ UNCHANGED slot
    /\ UNCHANGED <<pri, s_aid, heap, ev, untracked, leaked>>

(* aidUpdate: an index out of range or a NULL aid leaves s_aid alone; a    *)
(* different AID replaces it by a strdup that is never freed.              *)
AidUpdate(w, aid) ==
    /\ wk[w].pc = "aid"
    /\ wk' = [wk EXCEPT ![w].pc = "forward"]
    /\ s_aid' \in IF aid = NoAid \/ aid = s_aid THEN {s_aid}
                  ELSE {aid} \cup (IF StrdupFails THEN {NoAid} ELSE {})
    /\ UNCHANGED <<pri, slot, heap, ev, held, params, untracked, leaked>>

(* Mutant: every answer passed on as it came.                              *)
ForwardedRaw(request, answer) == answer

(* What libril is handed, given the request found in the table: the        *)
(* if-chain of shimOnRequestComplete.                                      *)
Forwarded(request, answer) ==
    CASE request \in Translated /\ answer = "v6"             -> "gb"
      [] request = "SETUP_DATA_CALL" /\ answer = "v6fail"    -> "null"
      [] OTHER                                               -> answer

(* s_rilEnv->OnRequestComplete: libril consumes the answer and frees the   *)
(* RequestInfo, so from here on the token may be in use again.             *)
OnRequestComplete(w) ==
    /\ wk[w].pc = "forward"
    /\ wk' = [wk EXCEPT ![w] = [pc |-> "free", t |-> NoToken, request |-> NoRequest,
                                answer |-> "null", owned |-> wk[w].owned]]
    /\ pri' = [pri EXCEPT ![wk[w].t] = NoRequest]
    /\ untracked' = untracked \ {wk[w].t}
    /\ UNCHANGED <<slot, s_aid, heap, ev, held, params, leaked>>

(* free(owned)                                                             *)
FreeOwned(w) ==
    /\ wk[w].pc = "free"
    /\ heap' = [b \in Block |-> IF b = wk[w].owned THEN FreeBlock ELSE heap[b]]
    /\ wk' = [wk EXCEPT ![w] = WkIdle]
    /\ UNCHANGED <<pri, slot, s_aid, ev, held, params, untracked, leaked>>

-----------------------------------------------------------------------------
Dispatch == \E t \in Token, request \in Issued, fits \in BOOLEAN : OnRequest(t, request, fits)

EventThread == AidCheck \/ AidGet \/ BuildArgs \/ PendingAdd \/ RealOnRequest

Complete(w) == \E t \in Token, answer \in Answer : PendingTake(w, t, answer)

WorkerStep(w) ==
    \/ \E aid \in Aid \cup {NoAid} : AidUpdate(w, aid)
    \/ OnRequestComplete(w)
    \/ FreeOwned(w)

Next ==
    \/ Dispatch
    \/ EventThread
    \/ \E w \in Worker : Complete(w) \/ WorkerStep(w)

(* A thread that is inside the shim keeps running: neither path waits for  *)
(* anything but two short critical sections.  Nothing is assumed of libril *)
(* issuing requests or of the blob answering them.                         *)
Fairness ==
    /\ WF_vars(EventThread)
    /\ \A w \in Worker : WF_vars(WorkerStep(w))

Spec == Init /\ [][Next]_vars

FairSpec == Spec /\ Fairness

-----------------------------------------------------------------------------
(* Properties                                                              *)

SlotType == [t : Token \cup {NoToken}, request : Request \cup {NoRequest},
             owned : Block \cup {NoBlock}]

EvType == [pc : {"idle", "check", "aid", "build", "add", "call"},
           t : Token \cup {NoToken}, request : Request \cup {NoRequest},
           aid : Aid \cup {NoAid}, owned : Block \cup {NoBlock}]

WkType == [pc : {"idle", "aid", "forward", "free"},
           t : Token \cup {NoToken}, request : Request \cup {NoRequest},
           answer : Answer, owned : Block \cup {NoBlock}]

BlockType == [t : Token \cup {NoToken}, request : Request \cup {NoRequest},
              aid : Aid \cup {NoAid}]

(* The type invariant.                                                     *)
TypeOK ==
    /\ pri \in [Token -> Request \cup {NoRequest}]
    /\ slot \in [Slots -> SlotType]
    /\ s_aid \in Aid \cup {NoAid}
    /\ heap \in [Block -> BlockType]
    /\ ev \in EvType
    /\ wk \in [Worker -> WkType]
    /\ held \in SUBSET Token
    /\ params \in [Token -> Block \cup {NoBlock}]
    /\ untracked \in SUBSET Token
    /\ leaked \in SUBSET Block

(* Every used slot of s_pending belongs to a request libril still has      *)
(* outstanding, and records that request's own kind: a token that libril   *)
(* reuses can never meet the slot of its previous life.                    *)
SlotsMatchLibril ==
    \A i \in Slots : slot[i].t # NoToken => pri[slot[i].t] = slot[i].request

(* A completion is translated by the kind of the request libril is waiting *)
(* for, so libril receives a v6 structure where it expects a Gingerbread   *)
(* one only for a request the full table could not track.                  *)
AnswerInLibrilsDialect ==
    \A w \in Worker :
        (wk[w].pc = "forward" /\ wk[w].t \notin untracked)
            => Forwarded(wk[w].request, wk[w].answer) \in {"null", "odd", "gb"}

(* "asi que viven hasta la respuesta" (rilshim.c:109): the block the blob  *)
(* was given is allocated, and holds that request's parameters, until the  *)
(* blob answers, the table being full or not.                              *)
ParamsLiveUntilAnswer ==
    \A t \in held : params[t] # NoBlock =>
        /\ heap[params[t]].t = t
        /\ heap[params[t]].request = pri[t]

(* free(owned) releases an allocated block, and nobody else still refers   *)
(* to it: no double free, no free of a block in use by another request.    *)
FreedOnce ==
    \A w \in Worker : (wk[w].pc # "idle" /\ wk[w].owned # NoBlock) =>
        /\ heap[wk[w].owned].t # NoToken
        /\ ev.owned # wk[w].owned
        /\ \A t \in held : params[t] # wk[w].owned
        /\ \A v \in Worker \ {w} : wk[v].owned # wk[w].owned
        /\ \A i \in Slots : slot[i].t # NoToken => slot[i].owned # wk[w].owned

(* The only parameter copies that are never freed are those of requests    *)
(* that found the table full (the LOGW of pendingAdd).                     *)
LeakOnlyWhenFull ==
    \A b \in Block : heap[b].t # NoToken =>
        \/ b = ev.owned
        \/ b \in leaked
        \/ \E i \in Slots : slot[i].t # NoToken /\ slot[i].owned = b
        \/ \E w \in Worker : wk[w].owned = b

(* The second aidGet() of the PIN case cannot come back NULL after the     *)
(* first did not: a rewritten PIN request always carries an AID.  True as  *)
(* long as strdup does not fail, because s_aid is never reset.             *)
PinCarriesAid ==
    \A b \in Block : heap[b].request = "PIN" => heap[b].aid # NoAid

-----------------------------------------------------------------------------
(* The inductive invariant behind the safety properties.  Ownership is     *)
(* the heart of it: at every point of a request's life exactly one of the  *)
(* event thread, a slot, a blob thread and the "leaked" set is responsible *)
(* for the request's parameter copy.                                       *)

(* The event thread works for a request nobody else has heard of yet.      *)
EventThreadOwns ==
    /\ ev.pc = "idle" => ev = EvIdle
    /\ ev.pc # "idle" =>
        /\ ev.t \in Token
        /\ ev.request \in Request
        /\ pri[ev.t] = ev.request
        /\ ev.t \notin held
        /\ \A w \in Worker : wk[w].t # ev.t
    /\ ev.pc \in {"check", "aid", "build", "add"} =>
        /\ ev.t \notin untracked
        /\ \A i \in Slots : slot[i].t # ev.t
        /\ ev.owned \notin leaked
    /\ ev.pc \in {"check", "aid", "build"} => ev.owned = NoBlock
    /\ ev.owned # NoBlock => heap[ev.owned].t = ev.t /\ heap[ev.owned].request = ev.request
    /\ ev.pc = "call" =>
        /\ ev.request \in Tracked => HasSlot(ev.t) \/ ev.t \in untracked
        /\ ev.owned \in leaked => ev.t \in untracked
        /\ ev.owned # NoBlock => ev.owned \in leaked
                \/ \E i \in Slots : slot[i].t = ev.t /\ slot[i].owned = ev.owned

(* A used slot belongs to one outstanding request, and to its block.       *)
SlotsOwn ==
    \A i \in Slots : slot[i].t # NoToken =>
        /\ slot[i].request \in Request
        /\ pri[slot[i].t] = slot[i].request
        /\ slot[i].t \in held \/ (ev.pc = "call" /\ ev.t = slot[i].t)
        /\ slot[i].t \notin untracked
        /\ slot[i].owned \notin leaked
        /\ slot[i].owned # NoBlock =>
                heap[slot[i].owned].t = slot[i].t /\ heap[slot[i].owned].request = slot[i].request
        /\ \A j \in Slots : slot[j].t = slot[i].t => j = i

(* What the blob holds is outstanding, tracked if it can be, and its       *)
(* parameters are kept by the slot or leaked.                              *)
BlobHolds ==
    /\ \A t \in Token : t \notin held => params[t] = NoBlock
    /\ \A t \in held :
        /\ pri[t] \in Request
        /\ pri[t] \in Tracked => HasSlot(t) \/ t \in untracked
        /\ params[t] # NoBlock =>
            /\ heap[params[t]].t = t
            /\ heap[params[t]].request = pri[t]
            /\ \/ \E i \in Slots : slot[i].t = t /\ slot[i].owned = params[t]
               \/ t \in untracked /\ params[t] \in leaked

(* A blob thread answers a request that has left the table and the blob.   *)
WorkersAnswer ==
    \A w \in Worker :
        /\ wk[w].pc = "idle" => wk[w] = WkIdle
        /\ wk[w].pc = "free" => wk[w].t = NoToken
        /\ wk[w].pc \in {"aid", "forward"} =>
            /\ wk[w].t \in Token
            /\ wk[w].t \notin held
            /\ pri[wk[w].t] \in Request
            /\ \A i \in Slots : slot[i].t # wk[w].t
            /\ \A v \in Worker : wk[v].t = wk[w].t => v = w
            /\ wk[w].answer \in Answers(pri[wk[w].t])
            /\ \/ wk[w].request = pri[wk[w].t]
               \/ /\ wk[w].request = NoRequest
                  /\ wk[w].t \in untracked \/ pri[wk[w].t] = "OTHER"

(* It is the only one to refer to the block it is about to free.           *)
WorkersOwn ==
    \A w \in Worker : wk[w].owned # NoBlock =>
        /\ heap[wk[w].owned].t # NoToken
        /\ wk[w].owned \notin leaked
        /\ ev.owned # wk[w].owned
        /\ \A t \in Token : params[t] # wk[w].owned
        /\ \A v \in Worker : wk[v].owned = wk[w].owned => v = w
        /\ \A i \in Slots : slot[i].t # NoToken => slot[i].owned # wk[w].owned

(* A leaked block stays allocated for ever.                                *)
LeakedStays ==
    /\ \A b \in leaked : heap[b].t # NoToken
    /\ \A t \in untracked : pri[t] # NoRequest

(* The strengthening of the safety properties above that every step of     *)
(* the shim preserves.                                                     *)
IInv ==
    /\ TypeOK
    /\ EventThreadOwns
    /\ SlotsOwn
    /\ BlobHolds
    /\ WorkersAnswer
    /\ WorkersOwn
    /\ LeakedStays
    /\ LeakOnlyWhenFull
=============================================================================
