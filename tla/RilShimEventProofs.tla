----------------------- MODULE RilShimEventProofs -----------------------
(* The event thread's half of the proof that IInv is inductive: the steps of *)
(* shimOnRequest.  There is one lemma per action: first the facts that say *)
(* what the action changes, then one step per conjunct of IInv.            *)
EXTENDS RilShim, TLAPS

(* How the request kinds of shimOnRequest's switch relate.                 *)
LEMMA RequestFacts ==
    /\ NoRequest \notin Request
    /\ Tracked \subseteq Request
    /\ Issued \subseteq Request
    /\ Request \ Tracked \subseteq {"OTHER"}
    /\ "null" \in Answer
BY ConstantsAssumption DEF NoRequest, Request, Tracked, Translated, Rewritten, Answer

(* The switch of shimOnRequest sends a request straight to the blob exactly *)
(* when it is not one the shim tracks.                                     *)
LEMMA FirstStepFacts ==
    ASSUME NEW request \in Request, NEW fits
    PROVE  /\ FirstStep(request, fits) \in {"check", "aid", "add", "call"}
           /\ FirstStep(request, fits) = "call" <=> request \notin Tracked
BY DEF FirstStep, Request, Tracked, Translated, Rewritten

(* libril dispatches a request: its token is new to the table, the blob and *)
(* the threads, because all of those refer to outstanding requests only.   *)
LEMMA OnRequestPreserves ==
    ASSUME IInv, NEW t \in Token, NEW request \in Issued, NEW fits \in BOOLEAN,
           OnRequest(t, request, fits)
    PROVE  IInv'
<1> USE ConstantsAssumption, RequestFacts DEF HasSlot
<1> DEFINE first == FirstStep(request, fits)
<1>1. first \in {"check", "aid", "add", "call"} /\ (first = "call" <=> request \notin Tracked)
  BY FirstStepFacts
<1>2. ev' = [pc |-> first, t |-> t, request |-> request, aid |-> NoAid, owned |-> NoBlock]
  BY Zenon DEF OnRequest, EvIdle
<1> HIDE DEF first
<1>3. /\ ev'.pc = first /\ ev'.t = t /\ ev'.request = request /\ ev'.owned = NoBlock
      /\ ev' \in EvType
  BY <1>1, <1>2 DEF EvType
<1>4. /\ pri[t] = NoRequest /\ ev.pc = "idle"
      /\ UNCHANGED <<slot, s_aid, heap, wk, held, params, untracked, leaked>>
  BY DEF OnRequest
<1>5. /\ pri' \in [Token -> Request \cup {NoRequest}]
      /\ pri'[t] = request
      /\ \A s \in Token \ {t} : pri'[s] = pri[s]
  BY DEF OnRequest, IInv, TypeOK
<1>6. t \notin held /\ t \notin untracked /\ NoBlock \notin leaked
  BY <1>4 DEF IInv, TypeOK, BlobHolds, LeakedStays
<1>7. \A i \in Slots : slot[i].t # t
  BY <1>4 DEF IInv, SlotsOwn
<1>8. \A w \in Worker : wk[w].t # t
  BY <1>4 DEF IInv, TypeOK, WorkersAnswer, WkType, WkIdle
<1> USE <1>1, <1>3, <1>4, <1>5, <1>6, <1>7, <1>8 DEF IInv
<1>9. TypeOK'
  BY DEF TypeOK
<1>10. EventThreadOwns'
  BY DEF EventThreadOwns, TypeOK
<1>11. SlotsOwn'
  BY DEF SlotsOwn, TypeOK, SlotType
<1>12. BlobHolds'
  BY DEF BlobHolds, TypeOK
<1>13. WorkersAnswer'
  BY DEF WorkersAnswer, TypeOK
<1>14. WorkersOwn'
  BY DEF WorkersOwn, TypeOK
<1>15. LeakedStays'
  BY DEF LeakedStays, TypeOK
<1>16. LeakOnlyWhenFull'
  BY DEF LeakOnlyWhenFull, EventThreadOwns, EvIdle, TypeOK
<1> QED BY <1>9, <1>10, <1>11, <1>12, <1>13, <1>14, <1>15, <1>16 DEF IInv

(* The first aidGet() of the PIN case moves the event thread, no more.     *)
LEMMA AidCheckPreserves ==
    ASSUME IInv, AidCheck
    PROVE  IInv'
<1> USE ConstantsAssumption, RequestFacts DEF HasSlot
<1>1. /\ ev.pc = "check"
      /\ UNCHANGED <<pri, slot, s_aid, heap, wk, held, params, untracked, leaked>>
  BY DEF AidCheck
<1>2. /\ ev' \in EvType
      /\ ev'.pc \in {"aid", "build", "add"}
      /\ ev'.t = ev.t /\ ev'.request = ev.request /\ ev'.owned = ev.owned
  BY DEF AidCheck, IInv, TypeOK, EvType
<1> USE <1>1, <1>2 DEF IInv
<1>3. TypeOK'
  BY DEF TypeOK
<1>4. EventThreadOwns'
  BY DEF EventThreadOwns, TypeOK
<1>5. SlotsOwn'
  BY DEF SlotsOwn
<1>6. BlobHolds'
  BY DEF BlobHolds
<1>7. WorkersAnswer'
  BY DEF WorkersAnswer
<1>8. WorkersOwn'
  BY DEF WorkersOwn
<1>9. LeakedStays'
  BY DEF LeakedStays
<1>10. LeakOnlyWhenFull'
  BY DEF LeakOnlyWhenFull
<1> QED BY <1>3, <1>4, <1>5, <1>6, <1>7, <1>8, <1>9, <1>10 DEF IInv

(* So does the aidGet() whose result goes into the parameters.             *)
LEMMA AidGetPreserves ==
    ASSUME IInv, AidGet
    PROVE  IInv'
<1> USE ConstantsAssumption, RequestFacts DEF HasSlot
<1>1. /\ ev.pc = "aid"
      /\ UNCHANGED <<pri, slot, s_aid, heap, wk, held, params, untracked, leaked>>
  BY DEF AidGet
<1>2. /\ ev' \in EvType
      /\ ev'.pc \in {"aid", "build", "add"}
      /\ ev'.t = ev.t /\ ev'.request = ev.request /\ ev'.owned = ev.owned
  BY Zenon DEF AidGet, IInv, TypeOK, EvType
<1> USE <1>1, <1>2 DEF IInv
<1>3. TypeOK'
  BY DEF TypeOK
<1>4. EventThreadOwns'
  BY DEF EventThreadOwns, TypeOK
<1>5. SlotsOwn'
  BY DEF SlotsOwn
<1>6. BlobHolds'
  BY DEF BlobHolds
<1>7. WorkersAnswer'
  BY DEF WorkersAnswer
<1>8. WorkersOwn'
  BY DEF WorkersOwn
<1>9. LeakedStays'
  BY DEF LeakedStays
<1>10. LeakOnlyWhenFull'
  BY DEF LeakOnlyWhenFull
<1> QED BY <1>3, <1>4, <1>5, <1>6, <1>7, <1>8, <1>9, <1>10 DEF IInv

(* A freshly allocated block belongs to nobody, since whoever owns a block *)
(* owns an allocated one; from here on the event thread owns it.           *)
LEMMA BuildArgsPreserves ==
    ASSUME IInv, BuildArgs
    PROVE  IInv'
<1> USE ConstantsAssumption, RequestFacts DEF HasSlot
<1>0. ev.pc = "build" /\ UNCHANGED <<pri, slot, s_aid, wk, held, params, untracked, leaked>>
  BY Zenon DEF BuildArgs
<1>1. ev.pc = "build" /\ ev.owned = NoBlock /\ ev.t \in Token /\ ev \in EvType
  BY <1>0 DEF IInv, EventThreadOwns, TypeOK
<1>2. CASE UNCHANGED heap /\ ev' = [ev EXCEPT !.pc = "add", !.aid = NoAid]
  <2>1. /\ ev' \in EvType /\ ev'.pc = "add"
        /\ ev'.t = ev.t /\ ev'.request = ev.request /\ ev'.owned = NoBlock
    BY Zenon, <1>1, <1>2 DEF EvType
  <2>2. UNCHANGED heap
    BY <1>2
  <2> USE <1>0, <1>1, <2>1, <2>2 DEF IInv
  <2>3. TypeOK'
    BY DEF TypeOK
  <2>4. EventThreadOwns'
    BY DEF EventThreadOwns, TypeOK
  <2>5. SlotsOwn'
    BY DEF SlotsOwn
  <2>6. BlobHolds'
    BY DEF BlobHolds
  <2>7. WorkersAnswer'
    BY DEF WorkersAnswer
  <2>8. WorkersOwn'
    BY DEF WorkersOwn
  <2>9. LeakedStays'
    BY DEF LeakedStays
  <2>10. LeakOnlyWhenFull'
    BY DEF LeakOnlyWhenFull
  <2> QED BY <2>3, <2>4, <2>5, <2>6, <2>7, <2>8, <2>9, <2>10 DEF IInv
<1>3. ASSUME NEW b \in Block, heap[b].t = NoToken,
             heap' = [heap EXCEPT ![b] = [t |-> ev.t, request |-> ev.request, aid |-> ev.aid]],
             ev' = [ev EXCEPT !.pc = "add", !.aid = NoAid, !.owned = b]
      PROVE  IInv'
  <2>1. /\ ev' \in EvType /\ ev'.pc = "add"
        /\ ev'.t = ev.t /\ ev'.request = ev.request /\ ev'.owned = b
    BY Zenon, <1>1, <1>3 DEF EvType
  <2>2. /\ heap' \in [Block -> BlockType]
        /\ heap'[b].t = ev.t /\ heap'[b].request = ev.request
        /\ \A c \in Block \ {b} : heap'[c] = heap[c]
    BY <1>1, <1>3 DEF IInv, TypeOK, EvType, BlockType
  <2>3. heap[b].t = NoToken /\ b # NoBlock
    BY <1>3
  <2>4. /\ \A i \in Slots : slot[i].t # NoToken => slot[i].owned # b
        /\ \A s \in Token : params[s] # b
        /\ \A w \in Worker : wk[w].owned # b
        /\ b \notin leaked
    BY <2>3 DEF IInv, TypeOK, SlotsOwn, BlobHolds, WorkersOwn, LeakedStays
  <2> USE <1>0, <1>1, <2>1, <2>2, <2>3, <2>4 DEF IInv
  <2>5. TypeOK'
    BY DEF TypeOK
  <2>6. EventThreadOwns'
    BY DEF EventThreadOwns, TypeOK
  <2>7. SlotsOwn'
    BY DEF SlotsOwn, TypeOK, SlotType
  <2>8. BlobHolds'
    BY DEF BlobHolds, TypeOK
  <2>9. WorkersAnswer'
    BY DEF WorkersAnswer
  <2>10. WorkersOwn'
    BY DEF WorkersOwn, TypeOK, WkType
  <2>11. LeakedStays'
    BY DEF LeakedStays, TypeOK
  <2>12. LeakOnlyWhenFull'
    BY DEF LeakOnlyWhenFull
  <2> QED BY <2>5, <2>6, <2>7, <2>8, <2>9, <2>10, <2>11, <2>12 DEF IInv
<1> QED BY <1>2, <1>3 DEF BuildArgs

(* pendingAdd hands the block to the slot, or loses it when there is none. *)
LEMMA PendingAddPreserves ==
    ASSUME IInv, PendingAdd
    PROVE  IInv'
<1> USE ConstantsAssumption, RequestFacts DEF HasSlot
<1>1. /\ ev.pc = "add" /\ ev.t \in Token /\ ev.request \in Request
      /\ pri[ev.t] = ev.request /\ ev.t \notin held /\ ev.t \notin untracked
      /\ ev.owned \notin leaked
      /\ ev.owned # NoBlock => heap[ev.owned].t = ev.t /\ heap[ev.owned].request = ev.request
      /\ \A w \in Worker : wk[w].t # ev.t
      /\ \A i \in Slots : slot[i].t # ev.t
  BY DEF PendingAdd, IInv, EventThreadOwns
<1>2. /\ ev' \in EvType /\ ev'.pc = "call"
      /\ ev'.t = ev.t /\ ev'.request = ev.request /\ ev'.owned = ev.owned
      /\ UNCHANGED <<pri, s_aid, heap, wk, held, params>>
  BY DEF PendingAdd, IInv, TypeOK, EvType
<1>3. ASSUME NEW i \in Slots, slot[i].t = NoToken,
             slot' = [slot EXCEPT ![i] = [t |-> ev.t, request |-> ev.request, owned |-> ev.owned]],
             UNCHANGED <<untracked, leaked>>
      PROVE  IInv'
  <2>1. /\ slot' \in [Slots -> SlotType]
        /\ slot'[i].t = ev.t /\ slot'[i].request = ev.request /\ slot'[i].owned = ev.owned
        /\ \A j \in Slots \ {i} : slot'[j] = slot[j]
    BY <1>1, <1>3 DEF IInv, TypeOK, EvType, SlotType
  <2>2. /\ slot[i].t = NoToken /\ UNCHANGED <<untracked, leaked>>
        /\ \A j \in Slots : slot[j].t # NoToken => slot'[j] = slot[j]
    BY <1>3, <2>1
  <2> USE <1>1, <1>2, <2>1, <2>2 DEF IInv
  <2>3. TypeOK'
    BY DEF TypeOK
  <2>4. EventThreadOwns'
    BY DEF EventThreadOwns
  <2>5. SlotsOwn'
    BY DEF SlotsOwn, TypeOK
  <2>6. BlobHolds'
    <3>1. \A s \in held : s # NoToken
      BY DEF TypeOK
    <3> QED BY <3>1 DEF BlobHolds
  <2>7. WorkersAnswer'
    BY DEF WorkersAnswer
  <2>8. WorkersOwn'
    BY DEF WorkersOwn
  <2>9. LeakedStays'
    BY DEF LeakedStays
  <2>10. LeakOnlyWhenFull'
    BY DEF LeakOnlyWhenFull
  <2> QED BY <2>3, <2>4, <2>5, <2>6, <2>7, <2>8, <2>9, <2>10 DEF IInv
<1>4. CASE /\ UNCHANGED slot
           /\ untracked' = untracked \cup {ev.t}
           /\ leaked' = leaked \cup ({ev.owned} \ {NoBlock})
  <2>1. \A i \in Slots : slot[i].owned # NoBlock /\ slot[i].t # NoToken => slot[i].owned # ev.owned
    BY <1>1 DEF IInv, SlotsOwn
  <2> USE <1>1, <1>2, <1>4, <2>1 DEF IInv
  <2>2. TypeOK'
    BY DEF TypeOK, EvType
  <2>3. EventThreadOwns'
    BY DEF EventThreadOwns
  <2>4. SlotsOwn'
    BY DEF SlotsOwn
  <2>5. BlobHolds'
    BY DEF BlobHolds
  <2>6. WorkersAnswer'
    BY DEF WorkersAnswer
  <2>7. WorkersOwn'
    BY DEF WorkersOwn
  <2>8. LeakedStays'
    BY DEF LeakedStays, TypeOK
  <2>9. LeakOnlyWhenFull'
    BY DEF LeakOnlyWhenFull
  <2> QED BY <2>2, <2>3, <2>4, <2>5, <2>6, <2>7, <2>8, <2>9 DEF IInv
<1> QED BY <1>3, <1>4 DEF PendingAdd, FirstFree

(* The blob takes the request over from the event thread.                  *)
LEMMA RealOnRequestPreserves ==
    ASSUME IInv, RealOnRequest
    PROVE  IInv'
<1> USE ConstantsAssumption, RequestFacts DEF HasSlot
<1>1. /\ ev.pc = "call" /\ ev.t \in Token /\ ev.t \notin held
      /\ ev.request = pri[ev.t] /\ ev.request \in Request
      /\ ev.request \in Tracked => HasSlot(ev.t) \/ ev.t \in untracked
      /\ ev.owned # NoBlock =>
            /\ heap[ev.owned].t = ev.t /\ heap[ev.owned].request = ev.request
            /\ \/ ev.owned \in leaked /\ ev.t \in untracked
               \/ \E i \in Slots : slot[i].t = ev.t /\ slot[i].owned = ev.owned
      /\ \A w \in Worker : wk[w].t # ev.t
  BY DEF RealOnRequest, IInv, EventThreadOwns
<1>2. /\ ev' = EvIdle /\ held' = held \cup {ev.t}
      /\ UNCHANGED <<pri, slot, s_aid, heap, wk, untracked, leaked>>
  BY DEF RealOnRequest
<1>3. /\ params'[ev.t] = ev.owned
      /\ \A s \in Token \ {ev.t} : params'[s] = params[s]
      /\ params' \in [Token -> Block \cup {NoBlock}]
  BY <1>1 DEF RealOnRequest, IInv, TypeOK, EvType
<1>4. ev.owned # NoBlock => ev.owned \in leaked
                \/ \E i \in Slots : slot[i].t # NoToken /\ slot[i].owned = ev.owned
  BY <1>1
<1> USE <1>1, <1>2, <1>3, <1>4 DEF IInv
<1>5. TypeOK'
  BY DEF TypeOK, EvType, EvIdle
<1>6. EventThreadOwns'
  BY DEF EventThreadOwns, EvIdle
<1>7. SlotsOwn'
  BY DEF SlotsOwn
<1>8. BlobHolds'
  BY DEF BlobHolds, TypeOK
<1>9. WorkersAnswer'
  BY DEF WorkersAnswer
<1>10. WorkersOwn'
  BY DEF WorkersOwn, EvIdle, TypeOK
<1>11. LeakedStays'
  BY DEF LeakedStays
<1>12. LeakOnlyWhenFull'
  BY DEF LeakOnlyWhenFull
<1> QED BY <1>5, <1>6, <1>7, <1>8, <1>9, <1>10, <1>11, <1>12 DEF IInv
=============================================================================
