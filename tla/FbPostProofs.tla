----------------------------- MODULE FbPostProofs -----------------------------
(***************************************************************************)
(* Proofs about the asynchronous page flip: for any number of pages and of *)
(* times the device is opened, SurfaceFlinger draws no page on its way to  *)
(* the panel, and no queued page is replaced.                              *)
(***************************************************************************)
EXTENDS FbPost, TLAPS

(* SurfaceFlinger has a page in hand.                                      *)
Holding == {"draw", "waitLock", "waitIdle", "release", "queueLock", "pan"}

(* SurfaceFlinger is past fb_post_wait_idle, and has queued nothing since. *)
PastIdle == {"release", "queueLock", "pan", "quitLock", "join", "closed"}

(* What is queued is the page posted last, and fb_post_thread pans to no   *)
(* other; a page being drawn is not that one.                              *)
Queued ==
    /\ pending => info = front
    /\ poster.pc = "pan" => pending /\ poster.page = info
    /\ sf.pc = "draw" => sf.page # front

(* Nothing is pending once fb_post_wait_idle has returned, nor while       *)
(* posting is synchronous.                                                 *)
Idle ==
    /\ sf.pc \in PastIdle => ~pending
    /\ ~enabled => ~pending
    /\ sf.pc = "closed" => ~enabled
    /\ sf.pc = "queueLock" => enabled
    /\ sf.pc \in Holding => sf.page \in Page

(* The flags of sPost are Booleans.                                        *)
Flags == pending \in BOOLEAN /\ quit \in BOOLEAN /\ enabled \in BOOLEAN

(* The inductive invariant.                                                *)
FbInv == TypeOK /\ Queued /\ Idle

USE DEF Holding, PastIdle

(* sPost is empty before fb_device_open.                                   *)
LEMMA InitInv == Init => FbInv
<1> SUFFICES ASSUME Init
             PROVE  FbInv
  OBVIOUS
<1>1. Flags
  BY Zenon DEF Init, Flags
<1> QED
  BY <1>1, FbPostAssumption, SMT DEF Init, FbInv, TypeOK, Queued, Idle, Flags

(* Each step of the two threads keeps the inductive invariant.             *)
LEMMA NextInv == FbInv /\ [Next]_vars => FbInv'
<1> SUFFICES ASSUME FbInv, [Next]_vars
             PROVE  FbInv'
  OBVIOUS
<1> USE FbPostAssumption DEF FbInv, TypeOK, Queued, Idle, Goto
<1>1. CASE \E async \in BOOLEAN : FbDeviceOpen(async)
  <2>1. Flags'
    BY <1>1, Zenon DEF FbDeviceOpen, Flags
  <2> QED
    BY <1>1, <2>1, SMT DEF FbDeviceOpen, Flags
<1>2. CASE \E p \in Page : Draw(p)
  BY <1>2 DEF Draw
<1>3. CASE FbClose
  BY <1>3 DEF FbClose
<1>4. CASE FbPostEnter
  BY <1>4 DEF FbPostEnter
<1>5. CASE WaitIdle
  BY <1>5 DEF WaitIdle, Waiting, AfterIdle
<1>6. CASE SwapLocks
  BY <1>6 DEF SwapLocks
<1>7. CASE QueuePan
  <2>1. Flags'
    BY <1>7, Zenon DEF QueuePan, Flags
  <2> QED
    BY <1>7, <2>1, SMT DEF QueuePan, Flags
<1>8. CASE \E ok \in BOOLEAN : PanNow(ok)
  BY <1>8 DEF PanNow
<1>9. CASE Quit
  BY <1>9 DEF Quit
<1>10. CASE Join
  BY <1>10 DEF Join
<1>11. CASE TakePan
  BY <1>11 DEF TakePan
<1>12. CASE PanReturns
  BY <1>12 DEF PanReturns
<1>13. CASE PanDone
  <2>1. Flags'
    BY <1>13, Zenon DEF PanDone, Flags
  <2> QED
    BY <1>13, <2>1, SMT DEF PanDone, Flags
<1>14. CASE SpuriousWake
  BY <1>14 DEF SpuriousWake
<1>15. CASE UNCHANGED vars
  BY <1>15 DEF vars
<1> QED
  BY <1>1, <1>2, <1>3, <1>4, <1>5, <1>6, <1>7, <1>8, <1>9, <1>10, <1>11, <1>12,
     <1>13, <1>14, <1>15 DEF Next, Posting, PostThread

(* The inductive invariant holds in every reachable state.                 *)
LEMMA Invariance == Spec => []FbInv
  BY InitInv, NextInv, PTL DEF Spec

(* fb_post and fb_post_thread: a page on its way to the panel is not drawn *)
(* on, whatever the number of pages.                                       *)
THEOREM NoTearingHolds == Spec => []NoTearing
<1>1. FbInv => NoTearing
  BY DEF FbInv, Queued, NoTearing
<1> QED
  BY <1>1, Invariance, PTL

(* fb_post: the page in sPost.info stays there while a pan is pending.     *)
THEOREM NoFrameDroppedHolds == Spec => NoFrameDropped
<1>1. FbInv /\ [Next]_vars => [pending /\ pending' => info' = info]_vars
  BY DEF FbInv, TypeOK, Idle, Next, Posting, PostThread, FbDeviceOpen, Draw, FbClose, FbPostEnter,
         WaitIdle, SwapLocks, QueuePan, PanNow, Quit, Join, TakePan, PanReturns, PanDone,
         SpuriousWake, vars
<1> QED
  BY <1>1, Invariance, PTL DEF Spec, NoFrameDropped
=============================================================================
