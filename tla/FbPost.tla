------------------------------- MODULE FbPost -------------------------------
(***************************************************************************)
(* Asynchronous framebuffer posting (src/libgralloc/framebuffer.cpp).      *)
(*                                                                         *)
(* SurfaceFlinger's thread draws a page of the framebuffer and hands it to *)
(* fb_post; the page flip ("pan") takes as long as the DMA to the panel,   *)
(* so fb_post queues it in sPost and fb_post_thread does the ioctl.  The   *)
(* two share one mutex and two condition variables; a critical section is  *)
(* one step here.  fb_device_open starts the thread (or falls back to      *)
(* synchronous posting) and fb_close stops it.                             *)
(***************************************************************************)
EXTENDS Naturals

CONSTANTS Page,     \* the pages of the framebuffer, numBuffers > 1 of them
          NoPage,
          MaxOpen   \* bound: times fb0 is opened

ASSUME FbPostAssumption == NoPage \notin Page /\ MaxOpen \in Nat

VARIABLES
    pending, quit, enabled,   \* fields of sPost
    info,           \* sPost.info.yoffset: the page to pan to
    currentBuffer,  \* m->currentBuffer
    locked,         \* pages gralloc has locked for posting
    sf,             \* SurfaceFlinger's thread: pc and the page it works on
    front,          \* the page the native window last posted
    poster,         \* fb_post_thread: pc and the page it is panning to
    opens           \* times fb0 was opened

vars == <<pending, quit, enabled, info, currentBuffer, locked, sf, front, poster, opens>>

Init ==
    /\ pending = FALSE /\ quit = FALSE /\ enabled = FALSE
    /\ info = NoPage
    /\ currentBuffer = NoPage
    /\ locked = {}
    /\ sf = [pc |-> "closed", page |-> NoPage]
    /\ front = NoPage
    /\ poster = [pc |-> "none", page |-> NoPage]
    /\ opens = 0

Goto(pc) == sf' = [sf EXCEPT !.pc = pc]

-----------------------------------------------------------------------------
(* SurfaceFlinger's thread                                                 *)

(* fb_device_open: sPost is set up afresh and the thread started; with     *)
(* debug.gr.async_post=0, or if pthread_create fails, posting stays        *)
(* synchronous.                                                            *)
FbDeviceOpen(async) ==
    /\ sf.pc = "closed"
    /\ opens < MaxOpen
    /\ opens' = opens + 1
    /\ Goto("idle")
    /\ IF async
       THEN /\ enabled' = TRUE
            /\ pending' = FALSE /\ quit' = FALSE
            /\ poster' = [pc |-> "lock", page |-> NoPage]
       ELSE UNCHANGED <<enabled, pending, quit, poster>>
    /\ UNCHANGED <<info, currentBuffer, locked, front>>

(* The native window never hands out the page it posted last.              *)
Draw(p) ==
    /\ sf.pc = "idle"
    /\ p # front
    /\ sf' = [pc |-> "draw", page |-> p]
    /\ UNCHANGED <<pending, quit, enabled, info, currentBuffer, locked, front, poster, opens>>

(* Mutant: fb_post does not wait for the pan in flight.                    *)
FbPostNoWait ==
    /\ sf.pc = "draw"
    /\ Goto("release")
    /\ UNCHANGED <<pending, quit, enabled, info, currentBuffer, locked, front, poster, opens>>

(* fb_post, entry                                                          *)
FbPostEnter ==
    /\ sf.pc = "draw"
    /\ Goto(IF enabled THEN "waitLock" ELSE "release")
    /\ UNCHANGED <<pending, quit, enabled, info, currentBuffer, locked, front, poster, opens>>

(* fb_post_wait_idle: take the mutex; while pending, wait on cond_idle.    *)
(* "closeLock" is the same wait on behalf of fb_close.                     *)
AfterIdle(pc) == IF pc \in {"waitLock", "waitIdle"} THEN "release" ELSE "quitLock"

Waiting(pc) == IF pc \in {"waitLock", "waitIdle"} THEN "waitIdle" ELSE "closeIdle"

WaitIdle ==
    /\ sf.pc \in {"waitLock", "closeLock"}
    /\ Goto(IF pending THEN Waiting(sf.pc) ELSE AfterIdle(sf.pc))
    /\ UNCHANGED <<pending, quit, enabled, info, currentBuffer, locked, front, poster, opens>>

(* pthread_cond_wait may also return without a signal.                     *)
SpuriousWake ==
    /\ \/ sf.pc = "waitIdle" /\ Goto("waitLock") /\ UNCHANGED poster
       \/ sf.pc = "closeIdle" /\ Goto("closeLock") /\ UNCHANGED poster
       \/ poster.pc = "waitPost" /\ poster' = [poster EXCEPT !.pc = "lock"] /\ UNCHANGED sf
    /\ UNCHANGED <<pending, quit, enabled, info, currentBuffer, locked, front, opens>>

(* Release the previous page, lock the new one for posting.                *)
SwapLocks ==
    /\ sf.pc = "release"
    /\ locked' = (locked \ {currentBuffer}) \cup {sf.page}
    /\ currentBuffer' = NoPage
    /\ Goto(IF enabled THEN "queueLock" ELSE "pan")
    /\ UNCHANGED <<pending, quit, enabled, info, front, poster, opens>>

(* Mutant: cond_post not signalled.                                        *)
QueuePanSilently ==
    /\ sf.pc = "queueLock"
    /\ info' = sf.page
    /\ pending' = TRUE
    /\ currentBuffer' = sf.page
    /\ front' = sf.page
    /\ sf' = [pc |-> "idle", page |-> NoPage]
    /\ UNCHANGED <<quit, enabled, locked, poster, opens>>

(* Queue the pan and wake fb_post_thread; the page becomes current.        *)
QueuePan ==
    /\ sf.pc = "queueLock"
    /\ info' = sf.page
    /\ pending' = TRUE
    /\ poster' = IF poster.pc = "waitPost" THEN [poster EXCEPT !.pc = "lock"] ELSE poster
    /\ currentBuffer' = sf.page
    /\ front' = sf.page
    /\ sf' = [pc |-> "idle", page |-> NoPage]
    /\ UNCHANGED <<quit, enabled, locked, opens>>

(* Synchronous posting: a pan that fails gives the page up again.          *)
PanNow(ok) ==
    /\ sf.pc = "pan"
    /\ currentBuffer' = IF ok THEN sf.page ELSE NoPage
    /\ locked' = IF ok THEN locked ELSE locked \ {sf.page}
    /\ front' = sf.page
    /\ sf' = [pc |-> "idle", page |-> NoPage]
    /\ UNCHANGED <<pending, quit, enabled, info, poster, opens>>

(* fb_close: let the pan in flight finish, ...                             *)
FbClose ==
    /\ sf.pc = "idle"
    /\ Goto(IF enabled THEN "closeLock" ELSE "closed")
    /\ UNCHANGED <<pending, quit, enabled, info, currentBuffer, locked, front, poster, opens>>

(* ... tell the thread to quit, ...                                        *)
Quit ==
    /\ sf.pc = "quitLock"
    /\ quit' = TRUE
    /\ poster' = IF poster.pc = "waitPost" THEN [poster EXCEPT !.pc = "lock"] ELSE poster
    /\ Goto("join")
    /\ UNCHANGED <<pending, enabled, info, currentBuffer, locked, front, opens>>

(* ... and join it.                                                        *)
Join ==
    /\ sf.pc = "join"
    /\ poster.pc = "none"
    /\ enabled' = FALSE
    /\ quit' = FALSE
    /\ Goto("closed")
    /\ UNCHANGED <<pending, info, currentBuffer, locked, front, poster, opens>>

-----------------------------------------------------------------------------
(* fb_post_thread                                                          *)

(* Under the mutex: exit, take the queued pan, or wait for one.            *)
TakePan ==
    /\ poster.pc = "lock"
    /\ poster' = IF quit THEN [pc |-> "none", page |-> NoPage]
                 ELSE IF pending THEN [pc |-> "pan", page |-> info]
                 ELSE [pc |-> "waitPost", page |-> NoPage]
    /\ UNCHANGED <<pending, quit, enabled, info, currentBuffer, locked, sf, front, opens>>

(* The ioctl returns, successfully or not, when the DMA is done.           *)
PanReturns ==
    /\ poster.pc = "pan"
    /\ poster' = [pc |-> "done", page |-> NoPage]
    /\ UNCHANGED <<pending, quit, enabled, info, currentBuffer, locked, sf, front, opens>>

(* Mutant: cond_idle not signalled.                                        *)
PanDoneSilently ==
    /\ poster.pc = "done"
    /\ pending' = FALSE
    /\ poster' = [poster EXCEPT !.pc = IF quit THEN "none" ELSE "waitPost"]
    /\ UNCHANGED <<quit, enabled, info, currentBuffer, locked, sf, front, opens>>

(* pending = 0 and broadcast on cond_idle; the mutex is held on into the   *)
(* next round of the loop, which finds nothing pending.                    *)
PanDone ==
    /\ poster.pc = "done"
    /\ pending' = FALSE
    /\ poster' = [poster EXCEPT !.pc = IF quit THEN "none" ELSE "waitPost"]
    /\ sf' = CASE sf.pc = "waitIdle"  -> [sf EXCEPT !.pc = "waitLock"]
               [] sf.pc = "closeIdle" -> [sf EXCEPT !.pc = "closeLock"]
               [] OTHER               -> sf
    /\ UNCHANGED <<quit, enabled, info, currentBuffer, locked, front, opens>>

-----------------------------------------------------------------------------
Posting ==
    \/ FbPostEnter
    \/ WaitIdle
    \/ SwapLocks
    \/ QueuePan
    \/ \E ok \in BOOLEAN : PanNow(ok)
    \/ Quit
    \/ Join

PostThread == TakePan \/ PanReturns \/ PanDone

Next ==
    \/ \E async \in BOOLEAN : FbDeviceOpen(async)
    \/ \E p \in Page : Draw(p)
    \/ FbClose
    \/ Posting
    \/ PostThread
    \/ SpuriousWake

(* Both threads are scheduled, and a pan ends.                             *)
Fairness == WF_vars(Posting) /\ WF_vars(PostThread)

Spec == Init /\ [][Next]_vars

FairSpec == Spec /\ Fairness

-----------------------------------------------------------------------------
(* Properties                                                              *)

(* The type invariant.                                                     *)
TypeOK ==
    /\ pending \in BOOLEAN /\ quit \in BOOLEAN /\ enabled \in BOOLEAN
    /\ info \in Page \cup {NoPage}
    /\ currentBuffer \in Page \cup {NoPage}
    /\ locked \in SUBSET Page
    /\ sf \in [pc : {"closed", "idle", "draw", "waitLock", "waitIdle", "release", "queueLock",
                     "pan", "closeLock", "closeIdle", "quitLock", "join"},
               page : Page \cup {NoPage}]
    /\ front \in Page \cup {NoPage}
    /\ poster \in [pc : {"none", "lock", "waitPost", "pan", "done"},
                   page : Page \cup {NoPage}]
    /\ opens \in 0..MaxOpen

(* "el buffer que SF vuelve a dibujar ya esta en la GRAM del panel"        *)
(* (framebuffer.cpp): SurfaceFlinger never draws the page that is queued   *)
(* or being sent to the panel.                                             *)
NoTearing ==
    /\ TypeOK
    /\ (sf.pc = "draw" /\ poster.pc = "pan") => sf.page # poster.page
    /\ (sf.pc = "draw" /\ pending) => sf.page # info

(* A queued page is never replaced before fb_post_thread has shown it.     *)
NoFrameDropped == [][pending /\ pending' => info' = info]_vars

(* fb_post and fb_close return: neither a signal sent before the other     *)
(* side waits nor a quit during a pan leaves SurfaceFlinger hanging.       *)
SurfaceFlingerReturns == sf.pc \notin {"idle", "draw", "closed"} ~> sf.pc \in {"idle", "closed"}

(* Every queued page is eventually sent to the panel.                      *)
PanHappens == pending ~> ~pending
=============================================================================
