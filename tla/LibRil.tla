------------------------------- MODULE LibRil -------------------------------
(***************************************************************************)
(* libril's request list and command socket (src/ril/libril/ril.cpp).      *)
(*                                                                         *)
(* The event thread accepts one client at a time, reads its requests,      *)
(* notices when it goes away and then cancels what it left pending.  The   *)
(* vendor RIL answers requests, and reports network time (NITZ), on        *)
(* threads of its own; these write to the same socket.  File descriptors   *)
(* are numbers the kernel hands out again after a close, so a number read  *)
(* from s_fdCommand may name another connection when it is used.           *)
(***************************************************************************)
EXTENDS Naturals

CONSTANTS Req,      \* addresses of RequestInfo blocks
          Thread,   \* the vendor RIL's threads
          Fd,       \* file descriptor numbers accept may return
          MaxConn,  \* bound: connections made
          MaxNitz,  \* bound: NITZ reports
          DebugUsed,\* whether the rild-debug socket is used
          NoReq, NoFd

ASSUME LibRilAssumption ==
    /\ NoReq \notin Req
    /\ NoFd \notin Fd
    /\ MaxConn \in Nat
    /\ MaxNitz \in Nat
    /\ DebugUsed \in BOOLEAN

VARIABLES
    ri,           \* ri[r]: the RequestInfo at r
    held,         \* requests the vendor RIL is working on
    conn,         \* connections accepted so far; the last one is the current
    gone,         \* connections whose client has closed its end
    fdTable,      \* fdTable[fd]: the connection behind fd, 0 if fd is closed
    s_fdCommand,
    listening,    \* s_listen_event is in the watch table
    cmdEvent,     \* the fd of s_commands_event in the watch table, or NoFd
    evPc,         \* where the event thread is
    th,           \* th[u]: vendor thread u inside libril
    nitz,         \* s_lastNITZTimeData: number of the report kept, 0 if none
    nitzCount,    \* NITZ reports received so far
    nitzGot,      \* history: reports written to a client
    raced,        \* history: requests out of the list when it was cancelled
    misdelivered  \* history: <<from, to>>, answers written to another client

vars == <<ri, held, conn, gone, fdTable, s_fdCommand, listening, cmdEvent,
          evPc, th, nitz, nitzCount, nitzGot, raced, misdelivered>>

eventVars == <<conn, s_fdCommand, listening, cmdEvent, evPc>>

FreeRi == [st |-> "free", conn |-> 0, cancelled |-> FALSE]

ThIdle == [pc |-> "idle", r |-> NoReq, nitz |-> 0, fd |-> NoFd, failed |-> FALSE]

Init ==
    /\ ri = [r \in Req |-> FreeRi]
    /\ held = {}
    /\ conn = 0
    /\ gone = {}
    /\ fdTable = [fd \in Fd |-> 0]
    /\ s_fdCommand = NoFd
    /\ listening = TRUE
    /\ cmdEvent = NoFd
    /\ evPc = "loop"
    /\ th = [u \in Thread |-> ThIdle]
    /\ nitz = 0
    /\ nitzCount = 0
    /\ nitzGot = {}
    /\ raced = {}
    /\ misdelivered = {}

(* There is a client at the other end of fd.                               *)
Connected(fd) == fdTable[fd] # 0 /\ fdTable[fd] \notin gone

(* Whether blockingWrite succeeds.  The socket is O_NONBLOCK, so a client  *)
(* that reads too slowly makes a write fail just as a dead one does.       *)
WriteResults(fd) == IF Connected(fd) THEN {TRUE, FALSE} ELSE {FALSE}

-----------------------------------------------------------------------------
(* The event thread                                                        *)

(* Mutant: onCommandsSocketClosed not called.                              *)
CancelNothing ==
    /\ UNCHANGED ri
    /\ raced' = raced \cup {r \in Req : ri[r].st = "taken"}

(* onCommandsSocketClosed: mark what is in the list.                       *)
CancelListed ==
    /\ ri' = [r \in Req |-> IF ri[r].st = "listed" THEN [ri[r] EXCEPT !.cancelled = TRUE] ELSE ri[r]]
    /\ raced' = raced \cup {r \in Req : ri[r].st = "taken"}

(* Mutant: s_listen_event registered as persistent.                        *)
AcceptPersistent(fd) ==
    /\ evPc = "loop"
    /\ listening
    /\ conn < MaxConn
    /\ fdTable[fd] = 0
    /\ conn' = conn + 1
    /\ fdTable' = [fdTable EXCEPT ![fd] = conn + 1]
    /\ s_fdCommand' = fd
    /\ cmdEvent' = fd
    /\ evPc' = "announce"
    /\ UNCHANGED <<ri, held, gone, listening, th, nitz, nitzCount, nitzGot, raced, misdelivered>>

(* listenCallback for a client of the phone process.  s_listen_event is    *)
(* not persistent, so it left the watch table when it fired.               *)
Accept(fd) ==
    /\ evPc = "loop"
    /\ listening
    /\ conn < MaxConn
    /\ fdTable[fd] = 0
    /\ conn' = conn + 1
    /\ fdTable' = [fdTable EXCEPT ![fd] = conn + 1]
    /\ s_fdCommand' = fd
    /\ cmdEvent' = fd
    /\ listening' = FALSE
    /\ evPc' = "announce"
    /\ UNCHANGED <<ri, held, gone, th, nitz, nitzCount, nitzGot, raced, misdelivered>>

(* listenCallback for any other peer: close, cancel, listen again.         *)
RejectPeer ==
    /\ evPc = "loop"
    /\ listening
    /\ CancelListed
    /\ UNCHANGED <<held, gone, fdTable, eventVars, th, nitz, nitzCount, nitzGot, misdelivered>>

(* onNewCommandConnect, first half: RADIO_STATE_CHANGED.  blockingWrite    *)
(* closes the descriptor when the write fails.                             *)
Announce ==
    /\ evPc = "announce"
    /\ evPc' = IF nitz # 0 THEN "nitz" ELSE "loop"
    /\ \E ok \in WriteResults(s_fdCommand) :
          fdTable' = IF ok THEN fdTable ELSE [fdTable EXCEPT ![s_fdCommand] = 0]
    /\ UNCHANGED <<ri, held, conn, gone, s_fdCommand, listening, cmdEvent, th,
                   nitz, nitzCount, nitzGot, raced, misdelivered>>

(* Second half: the report kept for this client is sent ...                *)
ResendNitz ==
    /\ evPc = "nitz"
    /\ evPc' = "nitzFree"
    /\ \E ok \in WriteResults(s_fdCommand) :
          /\ nitzGot' = IF ok THEN nitzGot \cup {nitz} ELSE nitzGot
          /\ fdTable' = IF ok THEN fdTable ELSE [fdTable EXCEPT ![s_fdCommand] = 0]
    /\ UNCHANGED <<ri, held, conn, gone, s_fdCommand, listening, cmdEvent, th,
                   nitz, nitzCount, raced, misdelivered>>

(* ... and freed, whatever came of it.                                     *)
DropNitz ==
    /\ evPc = "nitzFree"
    /\ evPc' = "loop"
    /\ nitz' = 0
    /\ UNCHANGED <<ri, held, conn, gone, fdTable, s_fdCommand, listening, cmdEvent, th,
                   nitzCount, nitzGot, raced, misdelivered>>

(* processCommandBuffer: a RequestInfo is allocated, listed and dispatched.*)
(* A dispatch function that cannot parse its parcel gives up after the     *)
(* request has been listed (invalidCommandBlock).                          *)
Command(r, valid) ==
    /\ evPc = "loop"
    /\ cmdEvent # NoFd
    /\ Connected(cmdEvent)
    /\ ri[r].st = "free"
    /\ ri' = [ri EXCEPT ![r] = [st |-> "listed", conn |-> conn, cancelled |-> FALSE]]
    /\ held' = IF valid THEN held \cup {r} ELSE held
    /\ UNCHANGED <<gone, fdTable, eventVars, th, nitz, nitzCount, nitzGot, raced, misdelivered>>

(* issueLocalRequest, from the debug socket.  Command 1, radio off, also   *)
(* closes the client's socket, without touching the watch table.           *)
LocalRequest(r, radioOff) ==
    /\ DebugUsed
    /\ evPc = "loop"
    /\ ri[r].st = "free"
    /\ ri' = [ri EXCEPT ![r] = [st |-> "listed", conn |-> 0, cancelled |-> FALSE]]
    /\ held' = held \cup {r}
    /\ IF radioOff
       THEN /\ fdTable' = [fd \in Fd |-> IF fd = s_fdCommand THEN 0 ELSE fdTable[fd]]
            /\ s_fdCommand' = NoFd
       ELSE UNCHANGED <<fdTable, s_fdCommand>>
    /\ UNCHANGED <<conn, gone, listening, cmdEvent, evPc, th, nitz, nitzCount,
                   nitzGot, raced, misdelivered>>

(* processCommandsCallback, end of stream or read error, first half.       *)
CloseCommand ==
    /\ evPc = "loop"
    /\ cmdEvent # NoFd
    /\ ~Connected(cmdEvent)
    /\ s_fdCommand # NoFd
    /\ fdTable' = [fdTable EXCEPT ![s_fdCommand] = 0]
    /\ s_fdCommand' = NoFd
    /\ cmdEvent' = NoFd
    /\ evPc' = "closed"
    /\ UNCHANGED <<ri, held, conn, gone, listening, th, nitz, nitzCount, nitzGot, raced, misdelivered>>

(* Mutant: s_listen_event not added back.                                  *)
NotListenAgain ==
    /\ evPc = "closed"
    /\ evPc' = "loop"
    /\ CancelListed
    /\ UNCHANGED <<held, conn, gone, fdTable, s_fdCommand, listening, cmdEvent, th, nitz,
                   nitzCount, nitzGot, misdelivered>>

(* Second half: listen again and cancel.                                   *)
ListenAgain ==
    /\ evPc = "closed"
    /\ evPc' = "loop"
    /\ listening' = TRUE
    /\ CancelListed
    /\ UNCHANGED <<held, conn, gone, fdTable, s_fdCommand, cmdEvent, th, nitz,
                   nitzCount, nitzGot, misdelivered>>

(* select() on a descriptor that somebody closed fails with EBADF, and     *)
(* ril_event_loop returns for any errno but EINTR.                         *)
LoopDies ==
    /\ evPc = "loop"
    /\ cmdEvent # NoFd
    /\ fdTable[cmdEvent] = 0
    /\ evPc' = "dead"
    /\ UNCHANGED <<ri, held, conn, gone, fdTable, s_fdCommand, listening, cmdEvent, th,
                   nitz, nitzCount, nitzGot, raced, misdelivered>>

-----------------------------------------------------------------------------
(* The vendor RIL's threads                                                *)

(* Mutant: the request found but not unlinked.                             *)
DequeueKeeps(u, r) ==
    /\ th[u].pc = "idle"
    /\ r \in held
    /\ ri[r].st = "listed"
    /\ th' = [th EXCEPT ![u] = [ThIdle EXCEPT !.pc = "taken", !.r = r]]
    /\ UNCHANGED <<ri, held, gone, fdTable, eventVars, nitz, nitzCount, nitzGot, raced, misdelivered>>

(* checkAndDequeueRequestInfo                                              *)
Dequeue(u, r) ==
    /\ th[u].pc = "idle"
    /\ r \in held
    /\ ri[r].st = "listed"
    /\ held' = held \ {r}
    /\ ri' = [ri EXCEPT ![r].st = "taken"]
    /\ th' = [th EXCEPT ![u] = [ThIdle EXCEPT !.pc = "taken", !.r = r]]
    /\ UNCHANGED <<gone, fdTable, eventVars, nitz, nitzCount, nitzGot, raced, misdelivered>>

(* RIL_onRequestComplete goes on with the block it took out: local and     *)
(* cancelled requests are not answered.                                    *)
Respond(u) ==
    /\ th[u].pc = "taken"
    /\ th' = [th EXCEPT ![u].pc =
                IF ri[th[u].r].conn = 0 \/ ri[th[u].r].cancelled THEN "finish" ELSE "send"]
    /\ UNCHANGED <<ri, held, gone, fdTable, eventVars, nitz, nitzCount, nitzGot, raced, misdelivered>>

(* RIL_onUnsolicitedResponse(RIL_UNSOL_NITZ_TIME_RECEIVED)                 *)
ReportNitz(u) ==
    /\ th[u].pc = "idle"
    /\ nitzCount < MaxNitz
    /\ nitzCount' = nitzCount + 1
    /\ th' = [th EXCEPT ![u] = [ThIdle EXCEPT !.pc = "send", !.nitz = nitzCount + 1]]
    /\ UNCHANGED <<ri, held, gone, fdTable, eventVars, nitz, nitzGot, raced, misdelivered>>

(* sendResponseRaw reads s_fdCommand; a later change of it goes unnoticed. *)
SendResponseRaw(u) ==
    /\ th[u].pc = "send"
    /\ th' = [th EXCEPT ![u] = [th[u] EXCEPT
                !.pc = IF s_fdCommand = NoFd THEN "finish" ELSE "write",
                !.fd = s_fdCommand,
                !.failed = (s_fdCommand = NoFd)]]
    /\ UNCHANGED <<ri, held, gone, fdTable, eventVars, nitz, nitzCount, nitzGot, raced, misdelivered>>

(* blockingWrite of header and data under s_writeMutex, to whatever the    *)
(* number names by now.                                                    *)
BlockingWrite(u) ==
    /\ th[u].pc = "write"
    /\ \E ok \in WriteResults(th[u].fd) :
          LET to == fdTable[th[u].fd]
              r  == th[u].r
          IN  /\ th' = [th EXCEPT ![u] = [th[u] EXCEPT !.pc = IF ok THEN "finish" ELSE "close",
                                                       !.failed = ~ok]]
              /\ nitzGot' = IF ok /\ r = NoReq THEN nitzGot \cup {th[u].nitz} ELSE nitzGot
              /\ misdelivered' = IF ok /\ r # NoReq /\ ri[r].conn # to
                                 THEN misdelivered \cup {<<ri[r].conn, to>>} ELSE misdelivered
    /\ UNCHANGED <<ri, held, gone, fdTable, eventVars, nitz, nitzCount, raced>>

(* close(fd) after a failed write                                          *)
CloseAfterError(u) ==
    /\ th[u].pc = "close"
    /\ th' = [th EXCEPT ![u].pc = "finish"]
    /\ fdTable' = [fdTable EXCEPT ![th[u].fd] = 0]
    /\ UNCHANGED <<ri, held, gone, eventVars, nitz, nitzCount, nitzGot, raced, misdelivered>>

(* free(pRI); for NITZ, a report that could not be sent replaces the one   *)
(* kept so far.                                                            *)
Finish(u) ==
    /\ th[u].pc = "finish"
    /\ th' = [th EXCEPT ![u] = ThIdle]
    /\ ri' = [r \in Req |-> IF r = th[u].r THEN FreeRi ELSE ri[r]]
    /\ raced' = raced \ {th[u].r}
    /\ nitz' = IF th[u].r = NoReq /\ th[u].failed THEN th[u].nitz ELSE nitz
    /\ UNCHANGED <<held, gone, fdTable, eventVars, nitzCount, nitzGot, misdelivered>>

(* The client process closes its end, or dies.                             *)
ClientCloses ==
    /\ conn > 0
    /\ conn \notin gone
    /\ gone' = gone \cup {conn}
    /\ UNCHANGED <<ri, held, fdTable, eventVars, th, nitz, nitzCount, nitzGot, raced, misdelivered>>

-----------------------------------------------------------------------------
EventLoop ==
    \/ \E fd \in Fd : Accept(fd)
    \/ Announce
    \/ ResendNitz
    \/ DropNitz
    \/ CloseCommand
    \/ ListenAgain
    \/ LoopDies

Incoming ==
    \/ RejectPeer
    \/ \E r \in Req, valid \in BOOLEAN : Command(r, valid)
    \/ \E r \in Req, radioOff \in BOOLEAN : LocalRequest(r, radioOff)

VendorStep(u) ==
    \/ Respond(u)
    \/ SendResponseRaw(u)
    \/ BlockingWrite(u)
    \/ CloseAfterError(u)
    \/ Finish(u)

Next ==
    \/ EventLoop
    \/ Incoming
    \/ \E u \in Thread : VendorStep(u) \/ ReportNitz(u) \/ \E r \in Req : Dequeue(u, r)
    \/ ClientCloses

(* A thread inside libril keeps running; select() reports a hang-up.       *)
Fairness ==
    /\ WF_vars(Announce \/ ResendNitz \/ DropNitz \/ CloseCommand \/ ListenAgain \/ LoopDies)
    /\ WF_vars(\E u \in Thread : VendorStep(u))

Spec == Init /\ [][Next]_vars

FairSpec == Spec /\ Fairness

-----------------------------------------------------------------------------
(* Properties                                                              *)

Conns == 0..MaxConn

(* The type invariant.                                                     *)
TypeOK ==
    /\ ri \in [Req -> [st : {"free", "listed", "taken"}, conn : Conns, cancelled : BOOLEAN]]
    /\ held \in SUBSET Req
    /\ conn \in Conns
    /\ gone \in SUBSET Conns
    /\ fdTable \in [Fd -> Conns]
    /\ s_fdCommand \in Fd \cup {NoFd}
    /\ listening \in BOOLEAN
    /\ cmdEvent \in Fd \cup {NoFd}
    /\ evPc \in {"loop", "announce", "nitz", "nitzFree", "closed", "dead"}
    /\ th \in [Thread -> [pc : {"idle", "taken", "send", "write", "close", "finish"},
                          r : Req \cup {NoReq}, nitz : 0..MaxNitz,
                          fd : Fd \cup {NoFd}, failed : BOOLEAN]]
    /\ nitz \in 0..MaxNitz
    /\ nitzCount \in 0..MaxNitz
    /\ nitzGot \in SUBSET (1..MaxNitz)
    /\ raced \in SUBSET Req
    /\ misdelivered \in SUBSET (Conns \X Conns)

(* The two asserts of the socket callbacks: listenCallback never runs      *)
(* while there is a client ("accept only one connection at a time"), and   *)
(* processCommandsCallback only runs for the descriptor in s_fdCommand.    *)
(* Here each select finds one descriptor; RilEvent has the batches.        *)
CallbackAsserts ==
    /\ listening => s_fdCommand = NoFd /\ cmdEvent = NoFd
    /\ (evPc = "loop" /\ cmdEvent # NoFd /\ fdTable[cmdEvent] # 0) => s_fdCommand = cmdEvent

(* onCommandsSocketClosed reaches every request that is still listed: one  *)
(* that is not cancelled belongs to the client connected now, unless it    *)
(* had been taken out of the list when its own client was cancelled.       *)
CancelReachesListed ==
    evPc # "closed" =>
        \A r \in Req : (ri[r].st # "free" /\ ri[r].conn # 0 /\ ~ri[r].cancelled) =>
            \/ ri[r].conn = conn /\ cmdEvent # NoFd
            \/ r \in raced

(* Two completions never work on the same RequestInfo, and none works on   *)
(* a block that is listed or already freed.                                *)
RequestInfoOwned ==
    /\ TypeOK
    /\ \A u \in Thread : th[u].r # NoReq =>
          /\ ri[th[u].r].st = "taken"
          /\ th[u].r \notin held
          /\ \A v \in Thread \ {u} : th[v].r # th[u].r

(* A client that goes away is noticed: libril listens again, or its event  *)
(* loop has died because somebody else closed the descriptor.              *)
HangUpNoticed == conn \in gone ~> (listening \/ evPc = "dead")

(* "mark pending requests as cancelled so we dont report responses"        *)
(* (ril.cpp:2164): no answer to a request of an earlier client reaches a   *)
(* later one.                                                              *)
AnswersReachTheirClient == misdelivered = {}

(* "keep a copy of the last NITZ response around so we can deliver it when *)
(* it is connected" (ril.cpp:2861): the copy is given up only once it has  *)
(* been written to a client, or for a newer report.                        *)
NitzKeptUntilDelivered ==
    [][nitz # 0 /\ nitz' # nitz => nitz \in nitzGot \/ nitz' > nitz]_vars
=============================================================================
