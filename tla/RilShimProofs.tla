-------------------------- MODULE RilShimProofs --------------------------
(* The proofs about RilShim: IInv is inductive, and the safety properties of *)
(* the shim follow from it, for any number of tokens, blocks, blob threads *)
(* and table slots.  The event thread's steps are in RilShimEventProofs; here *)
(* are the blob threads' steps and the theorems.                           *)
EXTENDS RilShimEventProofs

(* pendingTake passes the slot's block on to the blob thread.  The slot is *)
(* the only one with that token, so no stale slot stays behind.            *)
LEMMA PendingTakePreserves ==
    ASSUME IInv, NEW w \in Worker, NEW t \in Token, NEW answer \in Answer,
           PendingTake(w, t, answer)
    PROVE  IInv'
<1> USE ConstantsAssumption, RequestFacts DEF HasSlot
<1>1. /\ wk[w] = WkIdle /\ t \in held /\ answer \in Answers(pri[t])
      /\ pri[t] \in Request /\ held' = held \ {t}
      /\ UNCHANGED <<pri, s_aid, heap, ev, untracked, leaked>>
  BY DEF PendingTake, IInv, WorkersAnswer, BlobHolds
<1>2. /\ params'[t] = NoBlock
      /\ \A s \in Token \ {t} : params'[s] = params[s]
      /\ params' \in [Token -> Block \cup {NoBlock}]
  BY DEF PendingTake, IInv, TypeOK
<1>3. \A v \in Worker : wk[v].t # t
  BY <1>1 DEF IInv, WorkersAnswer, WkIdle, TypeOK, WkType
<1>4. /\ ev.pc # "idle" => ev.t # t
      /\ ev.owned # NoBlock => heap[ev.owned].t # t
  BY <1>1 DEF IInv, EventThreadOwns, EvIdle
<1>5. ASSUME ~HasSlot(t), UNCHANGED slot,
             wk' = [wk EXCEPT ![w] = [pc |-> "forward", t |-> t, request |-> NoRequest,
                                      answer |-> answer, owned |-> NoBlock]]
      PROVE  IInv'
  <2>1. UNCHANGED slot /\ \A i \in Slots : slot[i].t # t
    BY <1>5
  <2>2. /\ wk' \in [Worker -> WkType]
        /\ wk'[w].pc = "forward" /\ wk'[w].t = t /\ wk'[w].request = NoRequest
        /\ wk'[w].answer = answer /\ wk'[w].owned = NoBlock
        /\ \A v \in Worker \ {w} : wk'[v] = wk[v]
        /\ wk[w].owned = NoBlock
    BY <1>1, <1>5 DEF IInv, TypeOK, WkType, WkIdle
  <2> USE <1>1, <1>2, <1>3, <1>4, <2>1, <2>2 DEF IInv
  <2>3. TypeOK'
    BY DEF TypeOK
  <2>4. EventThreadOwns'
    BY DEF EventThreadOwns
  <2>5. SlotsOwn'
    BY DEF SlotsOwn
  <2>6. BlobHolds'
    BY DEF BlobHolds, TypeOK
  <2>7. WorkersAnswer'
    BY DEF WorkersAnswer, BlobHolds, TypeOK
  <2>8. WorkersOwn'
    BY DEF WorkersOwn, TypeOK
  <2>9. LeakedStays'
    BY DEF LeakedStays
  <2>10. LeakOnlyWhenFull'
    BY DEF LeakOnlyWhenFull, TypeOK
  <2> QED BY <2>3, <2>4, <2>5, <2>6, <2>7, <2>8, <2>9, <2>10 DEF IInv
<1>6. ASSUME NEW i \in Slots, slot[i].t = t,
             slot' = [slot EXCEPT ![i] = FreeSlot],
             wk' = [wk EXCEPT ![w] =
                    [pc |-> NextAfterTake(slot[i].request, answer), t |-> t,
                     request |-> slot[i].request, answer |-> answer, owned |-> slot[i].owned]]
      PROVE  IInv'
  <2>1. /\ slot[i].t = t /\ slot[i].request = pri[t] /\ t \notin untracked
        /\ \A j \in Slots \ {i} : slot[j].t # t
        /\ slot[i].owned \notin leaked
        /\ slot[i].owned # NoBlock => slot[i].owned \in Block /\ heap[slot[i].owned].t = t
    BY <1>6 DEF IInv, SlotsOwn, TypeOK, SlotType
  <2>2. /\ wk' \in [Worker -> WkType]
        /\ wk'[w].pc \in {"aid", "forward"} /\ wk'[w].t = t /\ wk'[w].request = pri[t]
        /\ wk'[w].answer = answer /\ wk'[w].owned = slot[i].owned
        /\ \A v \in Worker \ {w} : wk'[v] = wk[v]
        /\ wk[w].owned = NoBlock
    BY <1>1, <1>6, <2>1 DEF IInv, TypeOK, WkType, WkIdle, NextAfterTake, SlotType
  <2>3. /\ slot' \in [Slots -> SlotType]
        /\ slot'[i].t = NoToken
        /\ \A j \in Slots \ {i} : slot'[j] = slot[j]
    BY <1>6 DEF IInv, TypeOK, SlotType, FreeSlot
  <2>4. /\ ev.owned # NoBlock => ev.owned # slot[i].owned
        /\ \A s \in Token \ {t} : params[s] # NoBlock => params[s] # slot[i].owned
    BY <1>4, <2>1 DEF IInv, BlobHolds
  <2>5. \A v \in Worker : wk[v].owned # NoBlock => wk[v].owned # slot[i].owned
    BY <2>1 DEF IInv, WorkersOwn
  <2>6. \A j \in Slots \ {i} : slot[j].t # NoToken /\ slot[j].owned # NoBlock
                                    => slot[j].owned # slot[i].owned
    BY <2>1 DEF IInv, SlotsOwn
  <2> USE <1>1, <1>2, <1>3, <1>4, <2>1, <2>2, <2>3 DEF IInv
  <2>7. TypeOK'
    BY DEF TypeOK
  <2>8. EventThreadOwns'
    BY DEF EventThreadOwns
  <2>9. SlotsOwn'
    BY DEF SlotsOwn
  <2>10. BlobHolds'
    BY DEF BlobHolds, TypeOK
  <2>11. WorkersAnswer'
    BY DEF WorkersAnswer, TypeOK
  <2>12. WorkersOwn'
    <3> SUFFICES ASSUME NEW v \in Worker, wk'[v].owned # NoBlock
                 PROVE  /\ heap[wk'[v].owned].t # NoToken
                        /\ wk'[v].owned \notin leaked
                        /\ ev.owned # wk'[v].owned
                        /\ \A s \in Token : params'[s] # wk'[v].owned
                        /\ \A u \in Worker : wk'[u].owned = wk'[v].owned => u = v
                        /\ \A j \in Slots : slot'[j].t # NoToken => slot'[j].owned # wk'[v].owned
      BY DEF WorkersOwn
    <3>1. CASE v = w
      BY <2>4, <2>5, <2>6, <3>1
    <3>2. CASE v # w
      BY <2>5, <3>2 DEF WorkersOwn
    <3> QED BY <3>1, <3>2
  <2>13. LeakedStays'
    BY DEF LeakedStays
  <2>14. LeakOnlyWhenFull'
    <3> SUFFICES ASSUME NEW b \in Block, heap[b].t # NoToken
                 PROVE  \/ b = ev.owned
                        \/ b \in leaked
                        \/ \E j \in Slots : slot'[j].t # NoToken /\ slot'[j].owned = b
                        \/ \E v \in Worker : wk'[v].owned = b
      BY DEF LeakOnlyWhenFull
    <3>1. ASSUME NEW j \in Slots, slot[j].t # NoToken, slot[j].owned = b, j # i
          PROVE  \E k \in Slots : slot'[k].t # NoToken /\ slot'[k].owned = b
      BY <3>1
    <3>2. ASSUME NEW v \in Worker, wk[v].owned = b
          PROVE  wk'[v].owned = b
      BY <3>2
    <3> QED BY <3>1, <3>2 DEF LeakOnlyWhenFull
  <2> QED BY <2>7, <2>8, <2>9, <2>10, <2>11, <2>12, <2>13, <2>14 DEF IInv
<1> QED BY <1>5, <1>6 DEF PendingTake, FirstMatch, Cleared

(* aidUpdate changes s_aid and moves its thread on.                        *)
LEMMA AidUpdatePreserves ==
    ASSUME IInv, NEW w \in Worker, NEW aid \in Aid \cup {NoAid}, AidUpdate(w, aid)
    PROVE  IInv'
<1> USE ConstantsAssumption, RequestFacts DEF HasSlot
<1>1. /\ wk' \in [Worker -> WkType] /\ s_aid' \in Aid \cup {NoAid}
      /\ UNCHANGED <<pri, slot, heap, ev, held, params, untracked, leaked>>
  BY DEF AidUpdate, IInv, TypeOK, WkType
<1>2. wk[w].pc = "aid" /\ wk'[w].pc = "forward" /\ \A v \in Worker \ {w} : wk'[v] = wk[v]
  BY DEF AidUpdate, IInv, TypeOK, WkType
<1>3. \A v \in Worker : /\ wk'[v].t = wk[v].t /\ wk'[v].request = wk[v].request
                        /\ wk'[v].answer = wk[v].answer /\ wk'[v].owned = wk[v].owned
  BY DEF AidUpdate, IInv, TypeOK, WkType
<1> USE <1>1, <1>2, <1>3 DEF IInv
<1>4. TypeOK'
  BY DEF TypeOK
<1>5. EventThreadOwns'
  BY DEF EventThreadOwns
<1>6. SlotsOwn'
  BY DEF SlotsOwn
<1>7. BlobHolds'
  BY DEF BlobHolds
<1>8. WorkersAnswer'
  BY DEF WorkersAnswer
<1>9. WorkersOwn'
  BY DEF WorkersOwn
<1>10. LeakedStays'
  BY DEF LeakedStays
<1>11. LeakOnlyWhenFull'
  BY DEF LeakOnlyWhenFull
<1> QED BY <1>4, <1>5, <1>6, <1>7, <1>8, <1>9, <1>10, <1>11 DEF IInv

(* A step that changes no block, no reference to one and no worker's owned
   pointer keeps what the workers own. *)
LEMMA WorkersOwnKept ==
    ASSUME WorkersOwn, UNCHANGED <<slot, heap, ev, params, leaked>>,
           \A v \in Worker : wk'[v].owned = wk[v].owned
    PROVE  WorkersOwn'
BY DEF WorkersOwn

(* libril frees the RequestInfo; nothing but the completing thread referred *)
(* to its token any more.                                                  *)
LEMMA OnRequestCompletePreserves ==
    ASSUME IInv, NEW w \in Worker, OnRequestComplete(w)
    PROVE  IInv'
<1> USE ConstantsAssumption, RequestFacts DEF HasSlot
<1>1. /\ wk[w].pc = "forward" /\ wk[w].t \in Token /\ wk[w].t \notin held
      /\ \A i \in Slots : slot[i].t # wk[w].t
      /\ \A v \in Worker \ {w} : wk[v].t # wk[w].t
  BY DEF OnRequestComplete, IInv, WorkersAnswer
<1>2. ev.pc # "idle" => ev.t # wk[w].t
  BY DEF IInv, EventThreadOwns
<1>3. /\ wk' \in [Worker -> WkType]
      /\ \A v \in Worker \ {w} : wk'[v] = wk[v]
      /\ wk'[w].pc = "free" /\ wk'[w].t = NoToken /\ wk'[w].owned = wk[w].owned
  BY DEF OnRequestComplete, IInv, TypeOK, WkType
<1>4. /\ untracked' = untracked \ {wk[w].t}
      /\ UNCHANGED <<slot, s_aid, heap, ev, held, params, leaked>>
  BY DEF OnRequestComplete
<1>5. /\ pri' \in [Token -> Request \cup {NoRequest}]
      /\ \A s \in Token : s # wk[w].t => pri'[s] = pri[s]
  BY <1>1 DEF OnRequestComplete, IInv, TypeOK
<1>6. \A v \in Worker : wk'[v].owned = wk[v].owned
  BY <1>3
<1>12. WorkersOwn'
  <2>1. WorkersOwn
    BY DEF IInv
  <2> QED BY <1>4, <1>6, <2>1, WorkersOwnKept
<1> USE <1>1, <1>2, <1>3, <1>4, <1>5, <1>6 DEF IInv
<1>7. TypeOK'
  BY DEF TypeOK
<1>8. EventThreadOwns'
  BY DEF EventThreadOwns, TypeOK
<1>9. SlotsOwn'
  BY DEF SlotsOwn, TypeOK, SlotType
<1>10. BlobHolds'
  BY DEF BlobHolds, TypeOK
<1>11. WorkersAnswer'
  <2> SUFFICES ASSUME NEW v \in Worker, v # w, wk[v].pc \in {"aid", "forward"}
               PROVE  /\ pri'[wk[v].t] = pri[wk[v].t]
                      /\ wk[v].t \in untracked => wk[v].t \in untracked'
                      /\ \A u \in Worker : wk'[u].t = wk[v].t => u = v
    BY DEF WorkersAnswer
  <2>1. wk[v].t \in Token /\ wk[v].t # wk[w].t
    BY DEF WorkersAnswer
  <2>2. \A u \in Worker : wk'[u].t = wk[v].t => u = v
    BY <2>1 DEF WorkersAnswer
  <2> QED BY <2>1, <2>2
<1>13. LeakedStays'
  BY DEF LeakedStays, TypeOK
<1>14. LeakOnlyWhenFull'
  BY DEF LeakOnlyWhenFull
<1> QED BY <1>7, <1>8, <1>9, <1>10, <1>11, <1>12, <1>13, <1>14 DEF IInv

(* The block freed was referred to by nobody but the thread that frees it. *)
LEMMA FreeOwnedPreserves ==
    ASSUME IInv, NEW w \in Worker, FreeOwned(w)
    PROVE  IInv'
<1> USE ConstantsAssumption, RequestFacts DEF HasSlot
<1>1. /\ wk[w].pc = "free" /\ wk[w].t = NoToken
      /\ UNCHANGED <<pri, slot, s_aid, ev, held, params, untracked, leaked>>
  BY DEF FreeOwned, IInv, WorkersAnswer
<1>2. /\ wk' \in [Worker -> WkType]
      /\ \A v \in Worker \ {w} : wk'[v] = wk[v]
      /\ wk'[w] = WkIdle
      /\ wk'[w].t = NoToken /\ wk'[w].pc = "idle" /\ wk'[w].owned = NoBlock
  BY DEF FreeOwned, IInv, TypeOK, WkType, WkIdle
<1>3. /\ heap' \in [Block -> BlockType]
      /\ \A b \in Block : b # wk[w].owned => heap'[b] = heap[b]
      /\ \A b \in Block : b = wk[w].owned => heap'[b].t = NoToken
  BY DEF FreeOwned, IInv, TypeOK, BlockType, FreeBlock
<1>4. wk[w].owned # NoBlock =>
         /\ wk[w].owned \notin leaked /\ ev.owned # wk[w].owned
         /\ \A t \in Token : params[t] # wk[w].owned
         /\ \A v \in Worker \ {w} : wk[v].owned # wk[w].owned
         /\ \A i \in Slots : slot[i].t # NoToken => slot[i].owned # wk[w].owned
  BY DEF IInv, WorkersOwn
<1> USE <1>1, <1>2, <1>3, <1>4 DEF IInv
<1>5. TypeOK'
  BY DEF TypeOK
<1>6. EventThreadOwns'
  BY DEF EventThreadOwns, TypeOK, EvType
<1>7. SlotsOwn'
  BY DEF SlotsOwn, TypeOK, SlotType
<1>8. BlobHolds'
  BY DEF BlobHolds, TypeOK
<1>9. WorkersAnswer'
  BY DEF WorkersAnswer, TypeOK
<1>10. WorkersOwn'
  <2>1. \A v \in Worker : wk'[v].owned # NoBlock =>
            v # w /\ wk'[v].owned = wk[v].owned /\ wk[v].owned \in Block
    BY DEF TypeOK, WkType
  <2>2. \A v \in Worker \ {w} : wk[v].owned # NoBlock => heap'[wk[v].owned] = heap[wk[v].owned]
    BY <2>1 DEF WorkersOwn
  <2> QED BY <2>1, <2>2 DEF WorkersOwn
<1>11. LeakedStays'
  BY DEF LeakedStays, TypeOK
<1>12. LeakOnlyWhenFull'
  BY DEF LeakOnlyWhenFull, TypeOK
<1> QED BY <1>5, <1>6, <1>7, <1>8, <1>9, <1>10, <1>11, <1>12 DEF IInv

-----------------------------------------------------------------------------
(* The theorems                                                            *)

(* The state RIL_Init leaves behind satisfies the inductive invariant.     *)
LEMMA InitIInv == Init => IInv
<1> USE ConstantsAssumption, RequestFacts
        DEF Init, EvIdle, WkIdle, FreeSlot, FreeBlock
<1> SUFFICES ASSUME Init PROVE IInv
  OBVIOUS
<1>1. TypeOK
  BY DEF TypeOK, SlotType, EvType, WkType, BlockType
<1>2. EventThreadOwns /\ SlotsOwn /\ BlobHolds
  BY DEF EventThreadOwns, SlotsOwn, BlobHolds
<1>3. WorkersAnswer /\ WorkersOwn /\ LeakedStays /\ LeakOnlyWhenFull
  BY DEF WorkersAnswer, WorkersOwn, LeakedStays, LeakOnlyWhenFull
<1> QED BY <1>1, <1>2, <1>3 DEF IInv

(* Every step of the event thread and of the blob threads keeps it.        *)
LEMMA NextIInv == IInv /\ [Next]_vars => IInv'
<1> SUFFICES ASSUME IInv, [Next]_vars PROVE IInv'
  OBVIOUS
<1>1. CASE Dispatch
  BY <1>1, OnRequestPreserves DEF Dispatch
<1>2. CASE EventThread
  BY <1>2, AidCheckPreserves, AidGetPreserves, BuildArgsPreserves, PendingAddPreserves,
     RealOnRequestPreserves DEF EventThread
<1>3. ASSUME NEW w \in Worker, Complete(w) PROVE IInv'
  BY <1>3, PendingTakePreserves DEF Complete
<1>4. ASSUME NEW w \in Worker, WorkerStep(w) PROVE IInv'
  BY <1>4, AidUpdatePreserves, OnRequestCompletePreserves, FreeOwnedPreserves DEF WorkerStep
<1>5. CASE UNCHANGED vars
  <2> USE <1>5 DEF vars
  <2>1. TypeOK'
    BY DEF IInv, TypeOK
  <2>2. EventThreadOwns'
    BY DEF IInv, EventThreadOwns, HasSlot
  <2>3. SlotsOwn'
    BY DEF IInv, SlotsOwn
  <2>4. BlobHolds'
    BY DEF IInv, BlobHolds, HasSlot
  <2>5. WorkersAnswer'
    BY DEF IInv, WorkersAnswer
  <2>6. WorkersOwn'
    BY DEF IInv, WorkersOwn
  <2>7. LeakedStays' /\ LeakOnlyWhenFull'
    BY DEF IInv, LeakedStays, LeakOnlyWhenFull
  <2> QED BY <2>1, <2>2, <2>3, <2>4, <2>5, <2>6, <2>7 DEF IInv
<1> QED BY <1>1, <1>2, <1>3, <1>4, <1>5 DEF Next

(* The ownership discipline of rilshim.c's parameter copies and slots holds *)
(* in every reachable state.                                               *)
THEOREM Ownership == Spec => []IInv
BY InitIInv, NextIInv, PTL DEF Spec

(* The variables of the shim keep their types.                             *)
THEOREM TypeCorrect == Spec => []TypeOK
<1>1. IInv => TypeOK
  BY DEF IInv
<1> QED BY <1>1, Ownership, PTL

(* pendingTake never finds the slot of a token's previous life: every used *)
(* slot records the request libril has outstanding under that token.       *)
THEOREM SlotsAreCurrent == Spec => []SlotsMatchLibril
<1>1. IInv => SlotsMatchLibril
  BY DEF IInv, SlotsOwn, SlotsMatchLibril
<1> QED BY <1>1, Ownership, PTL

(* shimOnRequestComplete hands libril a v6 structure only for a request    *)
(* that found the table full.                                              *)
THEOREM DialectTranslated == Spec => []AnswerInLibrilsDialect
<1>1. IInv => AnswerInLibrilsDialect
  <2> SUFFICES ASSUME IInv, NEW w \in Worker, wk[w].pc = "forward", wk[w].t \notin untracked
               PROVE  Forwarded(wk[w].request, wk[w].answer) \in {"null", "odd", "gb"}
    BY DEF AnswerInLibrilsDialect
  <2>1. /\ wk[w].answer \in Answers(pri[wk[w].t])
        /\ wk[w].request = pri[wk[w].t] \/ pri[wk[w].t] = "OTHER"
    BY DEF IInv, WorkersAnswer
  <2>2. CASE pri[wk[w].t] \in Translated
    BY <2>1, <2>2 DEF Answers, Forwarded, Translated
  <2>3. CASE pri[wk[w].t] \notin Translated
    BY <2>1, <2>3 DEF Answers, Forwarded, Translated
  <2> QED BY <2>2, <2>3
<1> QED BY <1>1, Ownership, PTL

(* The parameter copy the blob works with is live until the blob answers,  *)
(* whether or not pendingAdd found a slot for it.                          *)
THEOREM ParamsLive == Spec => []ParamsLiveUntilAnswer
<1>1. IInv => ParamsLiveUntilAnswer
  BY DEF IInv, BlobHolds, ParamsLiveUntilAnswer
<1> QED BY <1>1, Ownership, PTL

(* free(owned) releases an allocated block that nobody else refers to.     *)
THEOREM NoDoubleFree == Spec => []FreedOnce
<1>1. IInv => FreedOnce
  BY DEF IInv, WorkersOwn, TypeOK, FreedOnce
<1> QED BY <1>1, Ownership, PTL

(* A parameter copy is lost only when the table was full.                  *)
THEOREM NoOtherLeak == Spec => []LeakOnlyWhenFull
<1>1. IInv => LeakOnlyWhenFull
  BY DEF IInv
<1> QED BY <1>1, Ownership, PTL

=============================================================================
