---------------------------- MODULE RilWakeLock ----------------------------
(***************************************************************************)
(* libril's wake lock for unsolicited responses (src/ril/libril/ril.cpp,   *)
(* RIL_onUnsolicitedResponse and the timer behind it).                     *)
(*                                                                         *)
(* Every response of type WAKE_PARTIAL grabs the wake lock "radio-         *)
(* interface" and leaves a one-second timer that releases it; a newer      *)
(* response cancels the older one's timer by setting its userParam.  The   *)
(* vendor RIL reports on several threads and the timers run on libril's    *)
(* event thread; s_last_wake_timeout_info is shared without a mutex.  The  *)
(* kernel's lock is not counted: one release undoes any number of grabs.   *)
(***************************************************************************)
EXTENDS Naturals, Sequences, SequencesExt

CONSTANTS Thread,   \* the vendor RIL's threads
          Info,     \* addresses malloc may return for a UserCallbackInfo
          MaxMsg,   \* bound: unsolicited responses reported
          NoInfo

ASSUME WakeLockAssumption == NoInfo \notin Info /\ MaxMsg \in Nat

VARIABLES
    lock,       \* the kernel holds the wake lock
    last,       \* s_last_wake_timeout_info
    allocated,  \* UserCallbackInfo blocks allocated now
    userParam,  \* userParam[i] # NULL, the cancellation mark of block i
    timers,     \* timer_list: equal delays, so in order of creation
    firing,     \* the block userTimerCallback is working on, or NoInfo
    th,         \* th[u]: vendor thread u inside RIL_onUnsolicitedResponse
    msgs,       \* responses reported so far
    strayMark   \* history: a cancellation was written to a freed block

vars == <<lock, last, allocated, userParam, timers, firing, th, msgs, strayMark>>

ThIdle == [pc |-> "idle", info |-> NoInfo]

Init ==
    /\ lock = FALSE
    /\ last = NoInfo
    /\ allocated = {}
    /\ userParam = [i \in Info |-> FALSE]
    /\ timers = <<>>
    /\ firing = NoInfo
    /\ th = [u \in Thread |-> ThIdle]
    /\ msgs = 0
    /\ strayMark = FALSE

-----------------------------------------------------------------------------
(* RIL_onUnsolicitedResponse for a WAKE_PARTIAL response: the lock is      *)
(* taken before anything else is done.                                     *)
GrabPartialWakeLock(u) ==
    /\ th[u].pc = "idle"
    /\ msgs < MaxMsg
    /\ msgs' = msgs + 1
    /\ lock' = TRUE
    /\ th' = [th EXCEPT ![u].pc = "send"]
    /\ UNCHANGED <<last, allocated, userParam, timers, firing, strayMark>>

(* error_exit, when the response function rejects the payload              *)
ErrorExit(u) ==
    /\ th[u].pc = "send"
    /\ lock' = FALSE
    /\ th' = [th EXCEPT ![u] = ThIdle]
    /\ UNCHANGED <<last, allocated, userParam, timers, firing, msgs, strayMark>>

(* The response has been sent; "if (s_last_wake_timeout_info != NULL)"     *)
TestLast(u) ==
    /\ th[u].pc = "send"
    /\ th' = [th EXCEPT ![u] = [pc |-> IF last = NoInfo THEN "create" ELSE "cancel",
                                info |-> last]]
    /\ UNCHANGED <<lock, last, allocated, userParam, timers, firing, msgs, strayMark>>

(* Mutant: the old timer cancelled, no new one set.                        *)
CancelOnly(u) ==
    /\ th[u].pc = "cancel"
    /\ userParam' = [userParam EXCEPT ![th[u].info] = TRUE]
    /\ strayMark' = (strayMark \/ th[u].info \notin allocated)
    /\ th' = [th EXCEPT ![u] = ThIdle]
    /\ UNCHANGED <<lock, last, allocated, timers, firing, msgs>>

(* "Cancel the previous request": the store goes to the address that was   *)
(* tested, which may have been freed, or reused, since.                    *)
CancelPrevious(u) ==
    /\ th[u].pc = "cancel"
    /\ userParam' = [userParam EXCEPT ![th[u].info] = TRUE]
    /\ strayMark' = (strayMark \/ th[u].info \notin allocated)
    /\ th' = [th EXCEPT ![u] = [pc |-> "create", info |-> NoInfo]]
    /\ UNCHANGED <<lock, last, allocated, timers, firing, msgs>>

(* internalRequestTimedCallback                                            *)
RequestTimedCallback(u, i) ==
    /\ th[u].pc = "create"
    /\ i \notin allocated
    /\ allocated' = allocated \cup {i}
    /\ userParam' = [userParam EXCEPT ![i] = FALSE]
    /\ timers' = Append(timers, i)
    /\ th' = [th EXCEPT ![u] = [pc |-> "store", info |-> i]]
    /\ UNCHANGED <<lock, last, firing, msgs, strayMark>>

(* "s_last_wake_timeout_info = ..."                                        *)
StoreLast(u) ==
    /\ th[u].pc = "store"
    /\ last' = th[u].info
    /\ th' = [th EXCEPT ![u] = ThIdle]
    /\ UNCHANGED <<lock, allocated, userParam, timers, firing, msgs, strayMark>>

-----------------------------------------------------------------------------
(* Mutant: the test of param inverted.                                     *)
WakeTimeoutInverted ==
    /\ firing = NoInfo
    /\ timers # <<>>
    /\ firing' = Head(timers)
    /\ timers' = Tail(timers)
    /\ lock' = (lock /\ ~userParam[Head(timers)])
    /\ UNCHANGED <<last, allocated, userParam, th, msgs, strayMark>>

(* The event thread: userTimerCallback, calling wakeTimeoutCallback        *)
WakeTimeout ==
    /\ firing = NoInfo
    /\ timers # <<>>
    /\ firing' = Head(timers)
    /\ timers' = Tail(timers)
    /\ lock' = (lock /\ userParam[Head(timers)])
    /\ UNCHANGED <<last, allocated, userParam, th, msgs, strayMark>>

(* Mutant: free(p_info) left out.                                          *)
KeepTimer ==
    /\ firing # NoInfo
    /\ last' = IF last = firing THEN NoInfo ELSE last
    /\ firing' = NoInfo
    /\ UNCHANGED <<lock, allocated, userParam, timers, th, msgs, strayMark>>

(* "if (s_last_wake_timeout_info == p_info)", then free(p_info)            *)
FreeTimer ==
    /\ firing # NoInfo
    /\ last' = IF last = firing THEN NoInfo ELSE last
    /\ allocated' = allocated \ {firing}
    /\ firing' = NoInfo
    /\ UNCHANGED <<lock, userParam, timers, th, msgs, strayMark>>

-----------------------------------------------------------------------------
Continue(u) ==
    \/ ErrorExit(u)
    \/ TestLast(u)
    \/ CancelPrevious(u)
    \/ \E i \in Info : RequestTimedCallback(u, i)
    \/ StoreLast(u)

EventThread == WakeTimeout \/ FreeTimer

Next ==
    \/ \E u \in Thread : GrabPartialWakeLock(u) \/ Continue(u)
    \/ EventThread

(* Threads inside libril keep running, and every timer expires.            *)
Fairness ==
    /\ \A u \in Thread : WF_vars(Continue(u))
    /\ WF_vars(EventThread)

Spec == Init /\ [][Next]_vars

FairSpec == Spec /\ Fairness

-----------------------------------------------------------------------------
(* Properties                                                              *)

(* The type invariant.                                                     *)
TypeOK ==
    /\ lock \in BOOLEAN
    /\ last \in Info \cup {NoInfo}
    /\ allocated \in SUBSET Info
    /\ userParam \in [Info -> BOOLEAN]
    /\ timers \in Seq(Info)
    /\ firing \in Info \cup {NoInfo}
    /\ th \in [Thread -> [pc : {"idle", "send", "cancel", "create", "store"},
                          info : Info \cup {NoInfo}]]
    /\ msgs \in 0..MaxMsg
    /\ strayMark \in BOOLEAN

(* "as we exit we'll either release it immediately or set a timer to       *)
(* release it later" (ril.cpp:2799): whenever the lock is held, a thread   *)
(* that will see to it is still inside RIL_onUnsolicitedResponse, or a     *)
(* timer that has not been cancelled is running.  Racing cancellations,    *)
(* even one that hits a reused block, never disarm the last timer.         *)
LockHasReleaser ==
    /\ TypeOK
    /\ lock => \/ \E u \in Thread : th[u].pc \in {"send", "cancel", "create"}
               \/ \E k \in 1..Len(timers) : ~userParam[timers[k]]

(* The blocks timer_list refers to are allocated, each listed once.        *)
TimersAllocated ==
    /\ ToSet(timers) \cup ({firing} \ {NoInfo}) = allocated
    /\ IsInjective(timers)
    /\ firing \notin ToSet(timers)

(* The phone can go back to sleep: every grab is followed by a release.    *)
LockReleased == lock ~> ~lock

(* "We're using param != NULL as a cancellation mechanism" (ril.cpp:2766): *)
(* the mark is written to a timer that still exists.                       *)
CancelsLiveTimer == ~strayMark

(* "doing this after grabing the wakelock incase getting the               *)
(* elapsedRealTime might cause us to goto sleep" (ril.cpp:2815): the lock  *)
(* is held from the grab until the response has been sent.                 *)
AwakeWhileSending == \A u \in Thread : th[u].pc = "send" => lock
=============================================================================
