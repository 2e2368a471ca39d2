------------------------------ MODULE RilEvent ------------------------------
(***************************************************************************)
(* libril's event loop (src/ril/libril/ril_event.cpp) with the four events *)
(* ril.cpp registers in it.                                                *)
(*                                                                         *)
(* The loop thread copies the descriptor set, works out a time-out and     *)
(* sleeps in select() without holding listMutex; other threads change the  *)
(* lists under it and then write a byte to a pipe the loop watches.  What  *)
(* select() found is collected into pending_list first and called back     *)
(* afterwards, so a callback can undo what a later one was queued for.     *)
(***************************************************************************)
EXTENDS Naturals, Sequences

CONSTANTS MAX_FD_EVENTS,  \* slots of watch_table
          Fd,             \* Fd[e]: descriptor number of event e
          Timer,          \* timer events (UserCallbackInfo blocks)
          Delay,          \* relative times timers are set with
          MaxTime,        \* bound: the clock
          MaxConn,        \* bound: clients that connect
          NoEvent

(* s_wakeupfd_event, s_listen_event, s_debug_event, s_commands_event       *)
Event == {"wakeup", "listen", "debug", "commands"}

Persistent == {"wakeup", "debug", "commands"}

ASSUME RilEventAssumption ==
    /\ MAX_FD_EVENTS \in Nat
    /\ Fd \in [Event -> Nat]
    /\ Delay \subseteq Nat
    /\ MaxTime \in Nat
    /\ MaxConn \in Nat
    /\ NoEvent \notin Event \cup Timer

VARIABLES
    watch,      \* watch_table, readFds and nfds
    timer_list, \* timer events, as a sequence
    due,        \* due[t]: the timeout field of timer t
    fired,      \* timers that have been called back
    pending,    \* pending_list
    now,        \* the clock
    pipe,       \* whether the wake-up pipe holds a byte
    writeFd,    \* whether s_fdWakeupWrite has been assigned
    loop,       \* the loop thread: its place and the arguments of select
    main,       \* where RIL_register is
    vendor,     \* a timer whose thread has yet to wake the loop
    input,      \* events whose descriptor has something to read
    client,     \* what s_fdCommand names; "closed" by the debug socket
    conns,      \* clients that have connected
    mutexLost   \* history: ril_event_del returned without MUTEX_RELEASE

vars == <<watch, timer_list, due, fired, pending, now, pipe, writeFd, loop, main,
          vendor, input, client, conns, mutexLost>>

Slots == 1..MAX_FD_EVENTS

Watched(w) == {w.table[i] : i \in Slots} \ {NoEvent}

Ready == input \cup (IF pipe THEN {"wakeup"} ELSE {})

(* The loop thread outside select: the arguments it had are dead.          *)
At(pc, rfds) == [pc |-> pc, rfds |-> rfds, limit |-> 0, timed |-> FALSE, until |-> 0]

(* State after ril_event_init; RIL_startEventLoop has returned or will.    *)
Init ==
    /\ watch = [table |-> [i \in Slots |-> NoEvent], fds |-> {}, nfds |-> 0]
    /\ timer_list = <<>>
    /\ due = [t \in Timer |-> 0]
    /\ fired = {}
    /\ pending = <<>>
    /\ now = 0
    /\ pipe = FALSE
    /\ writeFd = FALSE
    /\ loop = At("pipe", {})
    /\ main = "addListen"
    /\ vendor = NoEvent
    /\ input = {}
    /\ client = "none"
    /\ conns = 0
    /\ mutexLost = FALSE

Goto(pc) == loop' = [loop EXCEPT !.pc = pc]

-----------------------------------------------------------------------------
(* The lists                                                               *)

(* Mutant: nfds is the highest descriptor, or two more.                    *)
AddOff(w, e, n) ==
    LET i == CHOOSE i \in Slots : w.table[i] = NoEvent /\ \A j \in Slots : j < i => w.table[j] # NoEvent
    IN  [table |-> [w.table EXCEPT ![i] = e], fds |-> w.fds \cup {Fd[e]},
         nfds  |-> IF Fd[e] >= w.nfds THEN Fd[e] + n ELSE w.nfds]

AddShort(w, e) == AddOff(w, e, 0)

(* ril_event_add: the first free slot; with none left nothing is said.     *)
Add(w, e) ==
    IF \A i \in Slots : w.table[i] # NoEvent THEN w
    ELSE LET i == CHOOSE i \in Slots : w.table[i] = NoEvent /\ \A j \in Slots : j < i => w.table[j] # NoEvent
         IN  [table |-> [w.table EXCEPT ![i] = e],
              fds   |-> w.fds \cup {Fd[e]},
              nfds  |-> IF Fd[e] >= w.nfds THEN Fd[e] + 1 ELSE w.nfds]

HighestFd(events) ==
    IF events = {} THEN 0
    ELSE CHOOSE n \in {Fd[e] : e \in events} : \A e \in events : Fd[e] <= n

(* removeWatch recomputes nfds when the highest descriptor goes.           *)
Remove(w, e) ==
    LET table == [i \in Slots |-> IF w.table[i] = e THEN NoEvent ELSE w.table[i]]
    IN  [table |-> table,
         fds   |-> w.fds \ {Fd[e]},
         nfds  |-> IF Fd[e] + 1 = w.nfds
                   THEN HighestFd({table[i] : i \in Slots} \ {NoEvent}) + 1 ELSE w.nfds]

(* ril_timer_add: before the first timer that is not earlier.              *)
Inserted(list, timeout, t, at) ==
    LET k == CHOOSE k \in 0..Len(list) :
                /\ \A j \in 1..k : timeout[list[j]] < at
                /\ k < Len(list) => timeout[list[k + 1]] >= at
    IN  SubSeq(list, 1, k) \o <<t>> \o SubSeq(list, k + 1, Len(list))

Listed == {timer_list[k] : k \in 1..Len(timer_list)}

Pending == {pending[k] : k \in 1..Len(pending)}

(* A timer block that is not in use is set; every block is used once.      *)
SetTimer(t, d) ==
    /\ t \notin Listed \cup Pending \cup fired
    /\ now + d < MaxTime
    /\ timer_list' = Inserted(timer_list, due, t, now + d)
    /\ due' = [due EXCEPT ![t] = now + d]

-----------------------------------------------------------------------------
(* The other threads                                                       *)

(* Mutant: the loop is not woken.                                          *)
TriggerNone == pipe' = pipe

(* write(s_fdWakeupWrite): before eventLoop has made the pipe, the byte    *)
(* goes to descriptor 0.                                                   *)
TriggerEvLoop == pipe' = (pipe \/ writeFd)

(* RIL_register: rilEventAddWakeup of the listening and the debug socket.  *)
Register ==
    \/ /\ main = "addListen" /\ ~mutexLost
       /\ main' = "wakeListen"
       /\ watch' = Add(watch, "listen")
       /\ UNCHANGED pipe
    \/ /\ main = "addDebug" /\ ~mutexLost
       /\ main' = "wakeDebug"
       /\ watch' = Add(watch, "debug")
       /\ UNCHANGED pipe
    \/ /\ main \in {"wakeListen", "wakeDebug"}
       /\ main' = IF main = "wakeListen" THEN "addDebug" ELSE "done"
       /\ TriggerEvLoop
       /\ UNCHANGED watch

RegisterStep ==
    /\ Register
    /\ UNCHANGED <<timer_list, due, fired, pending, now, writeFd, loop, vendor, input,
                   client, conns, mutexLost>>

(* internalRequestTimedCallback on a vendor thread: ril_timer_add ...      *)
RequestTimedCallback(t, d) ==
    /\ vendor = NoEvent /\ ~mutexLost
    /\ SetTimer(t, d)
    /\ vendor' = t
    /\ UNCHANGED <<watch, fired, pending, now, pipe, writeFd, loop, main, input, client,
                   conns, mutexLost>>

(* Mutant: triggerEvLoop not called.                                       *)
VendorSilent ==
    /\ vendor # NoEvent
    /\ vendor' = NoEvent
    /\ UNCHANGED <<watch, timer_list, due, fired, pending, now, pipe, writeFd, loop, main,
                   input, client, conns, mutexLost>>

(* ... and triggerEvLoop.                                                  *)
VendorTriggers ==
    /\ vendor # NoEvent
    /\ vendor' = NoEvent
    /\ TriggerEvLoop
    /\ UNCHANGED <<watch, timer_list, due, fired, pending, now, writeFd, loop, main,
                   input, client, conns, mutexLost>>

-----------------------------------------------------------------------------
(* The loop thread                                                         *)

listVars == <<timer_list, due, fired, pending>>

restVars == <<now, main, vendor, conns, mutexLost>>

(* eventLoop: pipe(), then the wake-up event joins the table.              *)
MakePipe ==
    /\ loop.pc = "pipe"
    /\ Goto("watchPipe")
    /\ writeFd' = TRUE
    /\ UNCHANGED <<watch, listVars, pipe, input, client, restVars>>

WatchPipe ==
    /\ loop.pc = "watchPipe" /\ ~mutexLost
    /\ Goto("copy")
    /\ watch' = Add(watch, "wakeup")
    /\ UNCHANGED <<listVars, pipe, writeFd, input, client, restVars>>

(* ril_event_loop, without the mutex: the set is copied, ...               *)
CopyFds ==
    /\ loop.pc = "copy"
    /\ loop' = [loop EXCEPT !.pc = "calc", !.rfds = watch.fds]
    /\ UNCHANGED <<watch, listVars, pipe, writeFd, input, client, restVars>>

(* ... calcNextTimeout looks at the first timer, ...                       *)
CalcNextTimeout ==
    /\ loop.pc = "calc"
    /\ loop' = [loop EXCEPT !.pc = "enter",
                    !.timed = (timer_list # <<>>),
                    !.until = IF timer_list # <<>> /\ due[Head(timer_list)] > now
                              THEN due[Head(timer_list)] ELSE now]
    /\ UNCHANGED <<watch, listVars, pipe, writeFd, input, client, restVars>>

(* ... and nfds is read as select is called.                               *)
EnterSelect ==
    /\ loop.pc = "enter"
    /\ loop' = [loop EXCEPT !.pc = "select", !.limit = watch.nfds]
    /\ UNCHANGED <<watch, listVars, pipe, writeFd, input, client, restVars>>

Found == {f \in loop.rfds : f < loop.limit /\ \E e \in Ready : Fd[e] = f}

BadFd == client = "closed" /\ Fd["commands"] \in loop.rfds /\ Fd["commands"] < loop.limit

TimedOut == loop.timed /\ now >= loop.until

(* select returns the descriptors that are ready, or none at the time-out; *)
(* with a closed descriptor it fails, and the loop ends.                   *)
SelectReturns ==
    /\ loop.pc = "select"
    /\ BadFd \/ Found # {} \/ TimedOut
    /\ loop' = IF BadFd THEN At("dead", {}) ELSE At("timeouts", Found)
    /\ UNCHANGED <<watch, listVars, pipe, writeFd, input, client, restVars>>

(* EINTR: a signal, when there is nothing to report.                       *)
Interrupted ==
    /\ loop.pc = "select"
    /\ ~BadFd /\ Found = {} /\ ~TimedOut
    /\ loop' = At("copy", {})
    /\ UNCHANGED <<watch, listVars, pipe, writeFd, input, client, restVars>>

(* processTimeouts: the leading timers that are due (now > timeout).       *)
ProcessTimeouts ==
    /\ loop.pc = "timeouts" /\ ~mutexLost
    /\ Goto("reads")
    /\ LET k == CHOOSE k \in 0..Len(timer_list) :
                   /\ \A j \in 1..k : now > due[timer_list[j]]
                   /\ k < Len(timer_list) => ~(now > due[timer_list[k + 1]])
       IN  /\ pending' = pending \o SubSeq(timer_list, 1, k)
           /\ timer_list' = SubSeq(timer_list, k + 1, Len(timer_list))
    /\ UNCHANGED <<watch, due, fired, pipe, writeFd, input, client, restVars>>

(* Mutants: the persist flag ignored, either way.                          *)
RemovedAlways(e) == {e}

RemovedNever(e) == {}

(* What processReadReadies takes out of the table for a ready event.       *)
RemovedOnce(e) == {e} \ Persistent

(* processReadReadies, in the order of the table.                          *)
ProcessReadReadies ==
    /\ loop.pc = "reads" /\ ~mutexLost
    /\ loop' = At("fire", {})
    /\ LET hit(e) == e # NoEvent /\ Fd[e] \in loop.rfds
           ready == SelectSeq(watch.table, hit)
           gone  == UNION {RemovedOnce(ready[k]) : k \in 1..Len(ready)}
       IN  /\ pending' = pending \o ready
           /\ watch' = IF gone = {} THEN watch ELSE Remove(watch, CHOOSE e \in gone : TRUE)
    /\ UNCHANGED <<timer_list, due, fired, pipe, writeFd, input, client, restVars>>

-----------------------------------------------------------------------------
(* firePending: one callback at a time                                     *)

Fires(e) ==
    /\ loop.pc = "fire"
    /\ pending # <<>>
    /\ Head(pending) = e
    /\ pending' = Tail(pending)

PendingDone ==
    /\ loop.pc = "fire"
    /\ pending = <<>>
    /\ Goto("copy")
    /\ UNCHANGED <<watch, listVars, pipe, writeFd, input, client, restVars>>

(* userTimerCallback, which frees the block.                               *)
TimerCallback(t) ==
    /\ Fires(t)
    /\ fired' = fired \cup {t}
    /\ due' = [due EXCEPT ![t] = 0]
    /\ UNCHANGED <<watch, timer_list, pipe, writeFd, loop, input, client, restVars>>

(* processWakeupCallback drains the pipe.                                  *)
WakeupCallback ==
    /\ Fires("wakeup")
    /\ pipe' = FALSE
    /\ UNCHANGED <<watch, timer_list, due, fired, writeFd, loop, input, client, restVars>>

(* listenCallback for the phone process: its event joins the table, and    *)
(* onNewCommandConnect sets a wake-lock timer on this thread.              *)
AcceptCallback ==
    /\ Fires("listen") /\ ~mutexLost
    /\ client' = "open"
    /\ input' = input \ {"listen"}
    /\ watch' = Add(watch, "commands")
    /\ \/ \E t \in Timer, d \in Delay : SetTimer(t, d)
       \/ UNCHANGED <<timer_list, due>>
    /\ UNCHANGED <<fired, pipe, writeFd, loop, restVars>>

(* listenCallback, accept failed or another peer: listen again.            *)
RejectCallback ==
    /\ Fires("listen") /\ ~mutexLost
    /\ input' = input \ {"listen"}
    /\ watch' = Add(watch, "listen")
    /\ UNCHANGED <<timer_list, due, fired, pipe, writeFd, loop, client, restVars>>

(* processCommandsCallback with data to read.                              *)
CommandsCallback ==
    /\ Fires("commands")
    /\ client # "hungup"
    /\ input' = input \ {"commands"}
    /\ UNCHANGED <<watch, timer_list, due, fired, pipe, writeFd, loop, client, restVars>>

(* processCommandsCallback at the end of the stream: ril_event_del, whose  *)
(* early return keeps the mutex, then listen again.                        *)
HangUpCallback ==
    /\ Fires("commands") /\ ~mutexLost
    /\ client = "hungup"
    /\ client' = "none"
    /\ input' = input \ {"commands"}
    /\ IF "commands" \in Watched(watch)
       THEN /\ watch' = Add(Remove(watch, "commands"), "listen")
            /\ UNCHANGED mutexLost
       ELSE /\ mutexLost' = TRUE
            /\ UNCHANGED watch
    /\ UNCHANGED <<timer_list, due, fired, pipe, writeFd, loop, now, main, vendor, conns>>

(* debugCallback; command 1 also closes the client's descriptor.           *)
DebugCallback(radioOff) ==
    /\ Fires("debug")
    /\ client' = IF radioOff /\ client \in {"open", "hungup"} THEN "closed" ELSE client
    /\ input' = (input \ {"debug"}) \ (IF client' = "closed" THEN {"commands"} ELSE {})
    /\ UNCHANGED <<watch, timer_list, due, fired, pipe, writeFd, loop, restVars>>

-----------------------------------------------------------------------------
(* Clients and time                                                        *)

ClientConnects ==
    /\ conns < MaxConn /\ "listen" \notin input
    /\ conns' = conns + 1
    /\ input' = input \cup {"listen"}
    /\ UNCHANGED <<watch, listVars, now, pipe, writeFd, loop, main, vendor, client, mutexLost>>

ClientSends(hangUp) ==
    /\ client = "open"
    /\ input' = input \cup {"commands"}
    /\ client' = IF hangUp THEN "hungup" ELSE "open"
    /\ UNCHANGED <<watch, listVars, pipe, writeFd, loop, restVars>>

(* RIL_register listens on the debug socket after the client's.            *)
DebugConnects ==
    /\ main \in {"addDebug", "wakeDebug", "done"}
    /\ input' = input \cup {"debug"}
    /\ UNCHANGED <<watch, listVars, pipe, writeFd, loop, client, restVars>>

Tick ==
    /\ now < MaxTime
    /\ now' = now + 1
    /\ UNCHANGED <<watch, listVars, pipe, writeFd, loop, main, vendor, input, client, conns, mutexLost>>

-----------------------------------------------------------------------------
LoopStep ==
    \/ MakePipe \/ WatchPipe
    \/ CopyFds \/ CalcNextTimeout \/ EnterSelect \/ SelectReturns
    \/ ProcessTimeouts \/ ProcessReadReadies \/ PendingDone
    \/ \E t \in Timer : TimerCallback(t)
    \/ WakeupCallback \/ AcceptCallback \/ RejectCallback
    \/ CommandsCallback \/ HangUpCallback
    \/ \E radioOff \in BOOLEAN : DebugCallback(radioOff)

Environment ==
    \/ ClientConnects
    \/ \E hangUp \in BOOLEAN : ClientSends(hangUp)
    \/ DebugConnects
    \/ Interrupted

Next ==
    \/ LoopStep
    \/ RegisterStep
    \/ \E t \in Timer, d \in Delay : RequestTimedCallback(t, d)
    \/ VendorTriggers
    \/ Environment
    \/ Tick

(* Threads that are not waiting keep running, and time passes.             *)
Fairness == WF_vars(LoopStep) /\ WF_vars(RegisterStep) /\ WF_vars(VendorTriggers) /\ WF_vars(Tick)

Spec == Init /\ [][Next]_vars

FairSpec == Spec /\ Fairness

-----------------------------------------------------------------------------
(* Properties                                                              *)

(* The type invariant.                                                     *)
TypeOK ==
    /\ watch \in [table : [Slots -> Event \cup {NoEvent}], fds : SUBSET {Fd[e] : e \in Event},
                  nfds : 0..(HighestFd(Event) + 1)]
    /\ timer_list \in Seq(Timer)
    /\ due \in [Timer -> 0..MaxTime]
    /\ fired \subseteq Timer
    /\ pending \in Seq(Event \cup Timer)
    /\ now \in 0..MaxTime
    /\ pipe \in BOOLEAN /\ writeFd \in BOOLEAN /\ mutexLost \in BOOLEAN
    /\ main \in {"addListen", "wakeListen", "addDebug", "wakeDebug", "done"}
    /\ vendor \in Timer \cup {NoEvent}
    /\ input \subseteq Event \ {"wakeup"}
    /\ client \in {"none", "open", "hungup", "closed"}
    /\ conns \in 0..MaxConn

(* readFds, nfds and watch_table are three copies of one fact, updated by  *)
(* add and remove on different threads: the set holds exactly the watched  *)
(* descriptors, all below nfds, and no event sits in two slots.            *)
TableConsistent ==
    /\ TypeOK
    /\ watch.fds = {Fd[e] : e \in Watched(watch)}
    /\ \A f \in watch.fds : f < watch.nfds
    /\ \A i, j \in Slots : watch.table[i] = watch.table[j] /\ watch.table[i] # NoEvent => i = j

(* "note: non-persistent so we can accept only one connection at a time"   *)
(* (ril.cpp:2633): while a client's event is watched or queued, the        *)
(* listening event is neither, and s_fdCommand is free whenever            *)
(* listenCallback runs (the assert at ril.cpp:2270).                       *)
OneClientAtATime ==
    LET live(e) == e \in Watched(watch) \cup Pending
    IN  /\ ~(live("listen") /\ live("commands"))
        /\ live("listen") => client = "none"

(* assert (fd == s_fdCommand) in processCommandsCallback (ril.cpp:2188),   *)
(* for a callback that was queued in one batch with others.                *)
CommandsAssert ==
    loop.pc = "fire" /\ pending # <<>> /\ Head(pending) = "commands" => client # "closed"

(* ril_event_del is only reached for an event that is in the table, so its *)
(* early return without MUTEX_RELEASE (ril_event.cpp:321) never happens.   *)
MutexKept == ~mutexLost

(* No lost wake-up: a timer set by any thread, at whatever point of the    *)
(* loop's unlocked preparation for select, is called back.                 *)
TimersFire == \A t \in Timer : t \in Listed ~> t \in fired \/ loop.pc = "dead"

(* The same for descriptors: an event added by RIL_register or by a        *)
(* callback is served once its descriptor is readable.                     *)
ReadyServed ==
    \A e \in {"listen", "debug", "commands"} :
        e \in input /\ e \in Watched(watch) ~> e \notin input \/ loop.pc = "dead"

(* "walk list, see if now >= ev->timeout for any events"                   *)
(* (ril_event.cpp:168): no timer that has reached its timeout is left.     *)
DueTimersFire == [][ProcessTimeouts => \A k \in 1..Len(timer_list') : due[timer_list'[k]] > now]_vars
=============================================================================
