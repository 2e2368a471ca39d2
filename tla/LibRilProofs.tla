----------------------------- MODULE LibRilProofs -----------------------------
(***************************************************************************)
(* Proofs about libril's request list and command socket: for any number   *)
(* of requests, vendor threads, descriptors and connections the socket     *)
(* callbacks' asserts hold, a RequestInfo has one owner, and what a client *)
(* leaves in the list is cancelled.                                        *)
(***************************************************************************)
EXTENDS LibRil, TLAPS

(* One client at a time: s_fdCommand is the descriptor being watched, and  *)
(* the listening socket is watched exactly when no client's is.  The debug *)
(* socket's radio-off closes a descriptor that stays in the watch table.   *)
Socket ==
    /\ listening => cmdEvent = NoFd /\ evPc = "loop"
    /\ s_fdCommand # NoFd => s_fdCommand = cmdEvent
    /\ (cmdEvent # NoFd /\ fdTable[cmdEvent] # 0) => s_fdCommand = cmdEvent
    /\ evPc \in {"announce", "nitz", "nitzFree"} => s_fdCommand # NoFd
    /\ evPc = "closed" => cmdEvent = NoFd

(* A RequestInfo a vendor thread works on is out of the list, not with the *)
(* vendor any more, and no other thread's.                                 *)
Owned ==
    \A u \in Thread : th[u].r # NoReq =>
        /\ ri[th[u].r].st = "taken"
        /\ th[u].r \notin held
        /\ \A v \in Thread \ {u} : th[v].r # th[u].r

(* What a thread inside libril has in hand.                                *)
InHand ==
    /\ \A u \in Thread :
          /\ th[u].pc = "taken" => th[u].r \in Req
          /\ th[u].pc # "idle" => th[u].r \in Req \/ th[u].nitz # 0
          /\ th[u].pc \in {"write", "close"} => th[u].fd \in Fd
    /\ evPc = "nitz" => nitz # 0

(* The inductive invariant.                                                *)
RilInv == TypeOK /\ Socket /\ Owned /\ InHand /\ CancelReachesListed

(* The types of the RequestInfo blocks and of the threads.                 *)
RequestInfo == [st : {"free", "listed", "taken"}, conn : Conns, cancelled : BOOLEAN]

ThreadState ==
    [pc : {"idle", "taken", "send", "write", "close", "finish"}, r : Req \cup {NoReq},
     nitz : 0..MaxNitz, fd : Fd \cup {NoFd}, failed : BOOLEAN]

(* A block is FreeRi, or newly listed for some connection.                 *)
LEMMA RequestInfoType ==
    /\ FreeRi \in RequestInfo
    /\ \A c \in Conns : [st |-> "listed", conn |-> c, cancelled |-> FALSE] \in RequestInfo
    /\ \A i \in RequestInfo : [i EXCEPT !.cancelled = TRUE] \in RequestInfo
    /\ \A i \in RequestInfo : [i EXCEPT !.st = "taken"] \in RequestInfo
<1>1. 0 \in Conns
  BY LibRilAssumption DEF Conns
<1> QED
  BY <1>1, Zenon DEF FreeRi, RequestInfo

(* Threads start idle; then they have a request or a report.               *)
LEMMA ThreadStateType ==
    /\ ThIdle \in ThreadState
    /\ \A r \in Req : [ThIdle EXCEPT !.pc = "taken", !.r = r] \in ThreadState
    /\ \A n \in 0..MaxNitz : [ThIdle EXCEPT !.pc = "send", !.nitz = n] \in ThreadState
<1>1. 0 \in 0..MaxNitz
  BY LibRilAssumption
<1> QED
  BY <1>1, Zenon DEF ThIdle, ThreadState

(* RIL_register: no client, no request, the listening socket watched.      *)
LEMMA InitInv == Init => RilInv
<1> SUFFICES ASSUME Init
             PROVE  RilInv
  OBVIOUS
<1> USE LibRilAssumption
<1>1. ri \in [Req -> RequestInfo]
  BY RequestInfoType, Zenon DEF Init
<1>2. th \in [Thread -> ThreadState]
  BY ThreadStateType, Zenon DEF Init
<1>3. listening \in BOOLEAN
  BY Zenon DEF Init
<1>4. TypeOK
  BY <1>1, <1>2, <1>3, SMT DEF Init, TypeOK, Conns, RequestInfo, ThreadState
<1>5. Socket /\ Owned /\ InHand
  BY SMT DEF Init, Socket, Owned, InHand, ThIdle
<1>6. CancelReachesListed
  BY SMT DEF Init, CancelReachesListed, FreeRi
<1> QED
  BY <1>4, <1>5, <1>6 DEF RilInv

(* blockingWrite succeeds or fails.                                        *)
LEMMA WriteResultsType == \A fd : WriteResults(fd) \subseteq BOOLEAN
  BY Zenon DEF WriteResults

(* onCommandsSocketClosed changes marks only.                              *)
LEMMA CancelListedType ==
    ASSUME TypeOK, CancelListed
    PROVE  ri' \in [Req -> RequestInfo] /\ raced' \in SUBSET Req
<1>1. ri \in [Req -> RequestInfo] /\ raced \in SUBSET Req
  BY DEF TypeOK, RequestInfo
<1>2. \A r \in Req : ri[r] \in RequestInfo /\ [ri[r] EXCEPT !.cancelled = TRUE] \in RequestInfo
  BY <1>1, RequestInfoType
<1>3. ri' \in [Req -> RequestInfo]
  BY <1>2, Zenon DEF CancelListed
<1>4. raced' \in SUBSET Req
  BY <1>1 DEF CancelListed
<1> QED
  BY <1>3, <1>4

(* Every step keeps the types.                                             *)
LEMMA TypeStep == RilInv /\ [Next]_vars => TypeOK'
<1> SUFFICES ASSUME RilInv, [Next]_vars
             PROVE  TypeOK'
  OBVIOUS
<1> USE LibRilAssumption
<1>0. /\ TypeOK
      /\ ri \in [Req -> RequestInfo]
      /\ th \in [Thread -> ThreadState]
  BY DEF RilInv, TypeOK, RequestInfo, ThreadState
<1>1. ASSUME NEW fd \in Fd, Accept(fd) PROVE TypeOK'
  <2>1. listening' \in BOOLEAN
    BY <1>1, Zenon DEF Accept
  <2> QED
    BY <1>0, <1>1, <2>1, SMT DEF TypeOK, Accept, Conns
<1>2. CASE RejectPeer
  BY <1>0, <1>2, CancelListedType DEF TypeOK, RejectPeer, eventVars, RequestInfo
<1>3. CASE Announce
  <2>1. fdTable' = fdTable \/ fdTable' = [fdTable EXCEPT ![s_fdCommand] = 0]
    BY <1>3, Zenon DEF Announce
  <2>2. fdTable' \in [Fd -> Conns]
    BY <1>0, <2>1, SMT DEF TypeOK, Conns
  <2> QED
    BY <1>0, <1>3, <2>2, SMT DEF TypeOK, Announce
<1>4. CASE ResendNitz
  <2>1. nitz \in 1..MaxNitz
    BY <1>0, <1>4, SMT DEF RilInv, InHand, TypeOK, ResendNitz
  <2> QED
    <3>1. /\ fdTable' = fdTable \/ fdTable' = [fdTable EXCEPT ![s_fdCommand] = 0]
          /\ nitzGot' = nitzGot \/ nitzGot' = nitzGot \cup {nitz}
      BY <1>4, Zenon DEF ResendNitz
    <3>2. fdTable' \in [Fd -> Conns]
      BY <1>0, <3>1, SMT DEF TypeOK, Conns
    <3>3. nitzGot' \in SUBSET (1..MaxNitz)
      BY <1>0, <2>1, <3>1, Zenon DEF TypeOK
    <3> QED
      BY <1>0, <1>4, <3>2, <3>3, SMT DEF TypeOK, ResendNitz
<1>5. CASE DropNitz
  BY <1>0, <1>5, SMT DEF TypeOK, DropNitz
<1>6. ASSUME NEW r \in Req, NEW valid \in BOOLEAN, Command(r, valid) PROVE TypeOK'
  <2>1. ri' \in [Req -> RequestInfo]
    BY <1>0, <1>6, RequestInfoType, Zenon DEF TypeOK, Command
  <2> QED
    BY <1>0, <1>6, <2>1, SMT DEF TypeOK, Command, eventVars, RequestInfo
<1>7. ASSUME NEW r \in Req, NEW radioOff \in BOOLEAN, LocalRequest(r, radioOff) PROVE TypeOK'
  <2>1. 0 \in Conns
    BY DEF Conns
  <2>2. ri' \in [Req -> RequestInfo]
    BY <1>0, <1>7, <2>1, RequestInfoType, Zenon DEF LocalRequest
  <2>3. fdTable' \in [Fd -> Conns] /\ s_fdCommand' \in Fd \cup {NoFd}
    BY <1>0, <1>7, <2>1, SMT DEF TypeOK, LocalRequest
  <2> QED
    BY <1>0, <1>7, <2>2, <2>3, SMT DEF TypeOK, LocalRequest, RequestInfo
<1>8. CASE CloseCommand
  BY <1>0, <1>8, SMT DEF TypeOK, CloseCommand, Conns
<1>9. CASE ListenAgain
  <2>1. listening' \in BOOLEAN
    BY <1>9, Zenon DEF ListenAgain
  <2> QED
    BY <1>0, <1>9, <2>1, CancelListedType DEF TypeOK, ListenAgain, RequestInfo
<1>10. CASE LoopDies
  BY <1>0, <1>10, SMT DEF TypeOK, LoopDies
<1>11. ASSUME NEW u \in Thread, NEW r \in Req, Dequeue(u, r) PROVE TypeOK'
  <2>1. ri' \in [Req -> RequestInfo]
    BY <1>0, <1>11, RequestInfoType, Zenon DEF Dequeue
  <2>2. th' \in [Thread -> ThreadState]
    BY <1>0, <1>11, ThreadStateType, Zenon DEF Dequeue
  <2> QED
    BY <1>0, <1>11, <2>1, <2>2, SMT DEF TypeOK, Dequeue, eventVars, RequestInfo, ThreadState
<1>12. ASSUME NEW u \in Thread, Respond(u) PROVE TypeOK'
  <2>1. th' \in [Thread -> ThreadState]
    BY <1>0, <1>12, SMT DEF Respond, ThreadState
  <2> QED
    BY <1>0, <1>12, <2>1, SMT DEF TypeOK, Respond, eventVars, ThreadState
<1>13. ASSUME NEW u \in Thread, ReportNitz(u) PROVE TypeOK'
  <2>1. nitzCount + 1 \in 0..MaxNitz
    BY <1>0, <1>13, SMT DEF TypeOK, ReportNitz
  <2>2. th' \in [Thread -> ThreadState]
    BY <1>0, <1>13, <2>1, ThreadStateType, Zenon DEF ReportNitz
  <2> QED
    BY <1>0, <1>13, <2>1, <2>2, SMT DEF TypeOK, ReportNitz, eventVars, ThreadState
<1>14. ASSUME NEW u \in Thread, SendResponseRaw(u) PROVE TypeOK'
  <2>1. th' \in [Thread -> ThreadState]
    <3>1. th[u] \in ThreadState /\ s_fdCommand \in Fd \cup {NoFd}
      BY <1>0 DEF TypeOK
    <3>2. [th[u] EXCEPT !.pc = IF s_fdCommand = NoFd THEN "finish" ELSE "write",
                        !.fd = s_fdCommand,
                        !.failed = (s_fdCommand = NoFd)] \in ThreadState
      BY <3>1, Zenon DEF ThreadState
    <3> QED
      BY <1>0, <1>14, <3>2, Zenon DEF SendResponseRaw
  <2> QED
    BY <1>0, <1>14, <2>1, SMT DEF TypeOK, SendResponseRaw, eventVars, ThreadState
<1>15. ASSUME NEW u \in Thread, BlockingWrite(u) PROVE TypeOK'
  <2> DEFINE to == fdTable[th[u].fd]
             r  == th[u].r
  <2>1. PICK ok \in BOOLEAN :
           /\ th' = [th EXCEPT ![u] = [th[u] EXCEPT !.pc = IF ok THEN "finish" ELSE "close",
                                                    !.failed = ~ok]]
           /\ nitzGot' = IF ok /\ r = NoReq THEN nitzGot \cup {th[u].nitz} ELSE nitzGot
           /\ misdelivered' = IF ok /\ r # NoReq /\ ri[r].conn # to
                              THEN misdelivered \cup {<<ri[r].conn, to>>} ELSE misdelivered
    BY <1>15, WriteResultsType, Zenon DEF BlockingWrite
  <2>2. th' \in [Thread -> ThreadState]
    <3>1. th[u] \in ThreadState
      BY <1>0
    <3>2. [th[u] EXCEPT !.pc = IF ok THEN "finish" ELSE "close", !.failed = ~ok] \in ThreadState
      BY <3>1, Zenon DEF ThreadState
    <3> QED
      BY <1>0, <2>1, <3>2, Zenon
  <2>3. r \in Req \cup {NoReq} /\ th[u].fd \in Fd /\ to \in Conns
    BY <1>0, <1>15, SMT DEF TypeOK, BlockingWrite, RilInv, InHand
  <2>4. r = NoReq => th[u].nitz \in 1..MaxNitz
    BY <1>0, <1>15, SMT DEF TypeOK, BlockingWrite, RilInv, InHand
  <2>5. nitzGot' \in SUBSET (1..MaxNitz)
    BY <1>0, <2>1, <2>4, SMT DEF TypeOK
  <2>6. misdelivered' \in SUBSET (Conns \X Conns)
    BY <1>0, <2>1, <2>3, SMT DEF TypeOK
  <2> QED
    BY <1>0, <1>15, <2>2, <2>5, <2>6, SMT DEF TypeOK, BlockingWrite, eventVars, ThreadState
<1>16. ASSUME NEW u \in Thread, CloseAfterError(u) PROVE TypeOK'
  <2>1. th' \in [Thread -> ThreadState]
    BY <1>0, <1>16, SMT DEF CloseAfterError, ThreadState
  <2>2. fdTable' \in [Fd -> Conns]
    <3>1. fdTable \in [Fd -> Conns] /\ 0 \in Conns
      BY <1>0 DEF TypeOK, Conns
    <3> QED
      BY <1>16, <3>1, Zenon DEF CloseAfterError
  <2> QED
    BY <1>0, <1>16, <2>1, <2>2, SMT DEF TypeOK, CloseAfterError, eventVars, ThreadState
<1>17. ASSUME NEW u \in Thread, Finish(u) PROVE TypeOK'
  <2>1. ri' \in [Req -> RequestInfo]
    BY <1>0, <1>17, RequestInfoType, Zenon DEF Finish
  <2>2. th' \in [Thread -> ThreadState]
    BY <1>0, <1>17, ThreadStateType, Zenon DEF Finish
  <2> QED
    BY <1>0, <1>17, <2>1, <2>2, SMT DEF TypeOK, Finish, eventVars, RequestInfo, ThreadState
<1>18. CASE ClientCloses
  BY <1>0, <1>18, SMT DEF TypeOK, ClientCloses, eventVars
<1>19. CASE UNCHANGED vars
  BY <1>0, <1>19 DEF TypeOK, vars
<1> QED
  BY <1>1, <1>2, <1>3, <1>4, <1>5, <1>6, <1>7, <1>8, <1>9, <1>10, <1>11, <1>12, <1>13, <1>14,
     <1>15, <1>16, <1>17, <1>18, <1>19 DEF Next, EventLoop, Incoming, VendorStep

(* The vendor's threads, and requests coming in, change nothing the event  *)
(* thread does with its descriptors, except to close one.                  *)
LEMMA SocketKept ==
    ASSUME RilInv, UNCHANGED eventVars,
           \A fd \in Fd : fdTable'[fd] = fdTable[fd] \/ fdTable'[fd] = 0
    PROVE  Socket'
  BY SMT DEF RilInv, TypeOK, Socket, eventVars

(* Every step keeps one client at a time.                                  *)
LEMMA SocketStep == RilInv /\ [Next]_vars => Socket'
<1> SUFFICES ASSUME RilInv, [Next]_vars
             PROVE  Socket'
  OBVIOUS
<1> USE LibRilAssumption
<1>0. TypeOK /\ Socket
  BY DEF RilInv
<1>1. ASSUME NEW fd \in Fd, Accept(fd) PROVE Socket'
  BY <1>0, <1>1, SMT DEF TypeOK, Accept, Socket
<1>2. CASE RejectPeer
  BY <1>2, SocketKept DEF RejectPeer
<1>3. CASE Announce \/ ResendNitz
  <2>1. fdTable' = fdTable \/ fdTable' = [fdTable EXCEPT ![s_fdCommand] = 0]
    BY <1>3, Zenon DEF Announce, ResendNitz
  <2> QED
    BY <1>0, <1>3, <2>1, SMT DEF TypeOK, Announce, ResendNitz, Socket
<1>4. CASE DropNitz \/ LoopDies
  BY <1>0, <1>4, SMT DEF TypeOK, DropNitz, LoopDies, Socket
<1>5. ASSUME NEW r \in Req, NEW valid \in BOOLEAN, Command(r, valid) PROVE Socket'
  BY <1>5, SocketKept DEF Command
<1>6. ASSUME NEW r \in Req, NEW radioOff \in BOOLEAN, LocalRequest(r, radioOff) PROVE Socket'
  BY <1>0, <1>6, SMT DEF TypeOK, LocalRequest, Socket
<1>7. CASE CloseCommand
  BY <1>0, <1>7, SMT DEF TypeOK, CloseCommand, Socket
<1>8. CASE ListenAgain
  BY <1>0, <1>8, SMT DEF TypeOK, ListenAgain, Socket
<1>9. ASSUME NEW u \in Thread, VendorStep(u) PROVE Socket'
  <2>1. UNCHANGED eventVars
    BY <1>9, Zenon DEF VendorStep, Respond, SendResponseRaw, BlockingWrite, CloseAfterError, Finish
  <2>2. fdTable' = fdTable \/ fdTable' = [fdTable EXCEPT ![th[u].fd] = 0]
    BY <1>9, Zenon DEF VendorStep, Respond, SendResponseRaw, BlockingWrite, CloseAfterError, Finish
  <2>3. \A fd \in Fd : fdTable'[fd] = fdTable[fd] \/ fdTable'[fd] = 0
    BY <1>0, <2>2, SMT DEF TypeOK
  <2> QED
    BY <2>1, <2>3, SocketKept
<1>10. ASSUME NEW u \in Thread, ReportNitz(u) PROVE Socket'
  BY <1>10, SocketKept DEF ReportNitz
<1>11. ASSUME NEW u \in Thread, NEW r \in Req, Dequeue(u, r) PROVE Socket'
  BY <1>11, SocketKept DEF Dequeue
<1>12. CASE ClientCloses
  BY <1>12, SocketKept DEF ClientCloses
<1>13. CASE UNCHANGED vars
  BY <1>13, SocketKept DEF vars, eventVars
<1> QED
  BY <1>1, <1>2, <1>3, <1>4, <1>5, <1>6, <1>7, <1>8, <1>9, <1>10, <1>11, <1>12, <1>13
     DEF Next, EventLoop, Incoming

(* Every step keeps what the threads have in hand.                         *)
LEMMA InHandStep == RilInv /\ [Next]_vars => InHand'
<1> SUFFICES ASSUME RilInv, [Next]_vars
             PROVE  InHand'
  OBVIOUS
<1> USE LibRilAssumption
<1>0. TypeOK /\ InHand
  BY DEF RilInv
<1>1. CASE EventLoop
  BY <1>0, <1>1, SMT DEF EventLoop, Accept, Announce, ResendNitz, DropNitz, CloseCommand,
                         ListenAgain, LoopDies, InHand
<1>2. CASE Incoming
  BY <1>0, <1>2, SMT DEF Incoming, RejectPeer, Command, LocalRequest, eventVars, InHand
<1>3. ASSUME NEW u \in Thread, Respond(u) PROVE InHand'
  BY <1>0, <1>3, SMT DEF TypeOK, Respond, eventVars, InHand
<1>4. ASSUME NEW u \in Thread, SendResponseRaw(u) PROVE InHand'
  BY <1>0, <1>4, SMT DEF TypeOK, SendResponseRaw, eventVars, InHand
<1>5. ASSUME NEW u \in Thread, BlockingWrite(u) PROVE InHand'
  <2>1. PICK pc \in {"finish", "close"}, b \in BOOLEAN :
           th' = [th EXCEPT ![u] = [th[u] EXCEPT !.pc = pc, !.failed = b]]
    BY <1>5, Zenon DEF BlockingWrite
  <2>2. UNCHANGED <<nitz, evPc>> /\ th[u].pc = "write"
    BY <1>5 DEF BlockingWrite, eventVars
  <2> QED
    BY <1>0, <2>1, <2>2, SMT DEF TypeOK, InHand
<1>6. ASSUME NEW u \in Thread, CloseAfterError(u) PROVE InHand'
  BY <1>0, <1>6, SMT DEF TypeOK, CloseAfterError, eventVars, InHand
<1>7. ASSUME NEW u \in Thread, Finish(u) PROVE InHand'
  BY <1>0, <1>7, SMT DEF TypeOK, Finish, ThIdle, eventVars, InHand
<1>8. ASSUME NEW u \in Thread, ReportNitz(u) PROVE InHand'
  BY <1>0, <1>8, SMT DEF TypeOK, ReportNitz, ThIdle, eventVars, InHand
<1>9. ASSUME NEW u \in Thread, NEW r \in Req, Dequeue(u, r) PROVE InHand'
  BY <1>0, <1>9, SMT DEF TypeOK, Dequeue, ThIdle, eventVars, InHand
<1>10. CASE ClientCloses \/ UNCHANGED vars
  BY <1>0, <1>10 DEF ClientCloses, vars, eventVars, InHand
<1> QED
  BY <1>1, <1>2, <1>3, <1>4, <1>5, <1>6, <1>7, <1>8, <1>9, <1>10 DEF Next, VendorStep

(* A step that leaves the threads' requests, and what is taken or held of  *)
(* them, leaves their owners.                                              *)
LEMMA OwnedKept ==
    ASSUME RilInv,
           \A u \in Thread : th'[u].r = th[u].r,
           \A r \in Req : ri[r].st = "taken" => ri'[r].st = "taken" /\ (r \in held' => r \in held)
    PROVE  Owned'
  BY SMT DEF RilInv, TypeOK, Owned

(* Every step keeps the owners of the RequestInfo blocks.                  *)
LEMMA OwnedStep == RilInv /\ [Next]_vars => Owned'
<1> SUFFICES ASSUME RilInv, [Next]_vars
             PROVE  Owned'
  OBVIOUS
<1> USE LibRilAssumption
<1>0. TypeOK /\ Owned
  BY DEF RilInv
<1>1. CASE CancelListed /\ UNCHANGED <<th, held>>
  BY <1>0, <1>1, OwnedKept, SMT DEF TypeOK, CancelListed
<1>2. CASE UNCHANGED <<ri, held, th>>
  BY <1>2, OwnedKept
<1>3. ASSUME NEW r \in Req, NEW valid \in BOOLEAN, Command(r, valid) PROVE Owned'
  BY <1>0, <1>3, OwnedKept, SMT DEF TypeOK, Command
<1>4. ASSUME NEW r \in Req, NEW radioOff \in BOOLEAN, LocalRequest(r, radioOff) PROVE Owned'
  BY <1>0, <1>4, OwnedKept, SMT DEF TypeOK, LocalRequest
<1>5. ASSUME NEW u \in Thread, Respond(u) \/ SendResponseRaw(u) \/ CloseAfterError(u) PROVE Owned'
  <2>1. \A v \in Thread : th'[v].r = th[v].r
    <3>1. CASE Respond(u) \/ CloseAfterError(u)
      BY <1>0, <3>1, SMT DEF TypeOK, Respond, CloseAfterError
    <3>2. CASE SendResponseRaw(u)
      <4>1. PICK pc, fd, b :
               th' = [th EXCEPT ![u] = [th[u] EXCEPT !.pc = pc, !.fd = fd, !.failed = b]]
        BY <3>2, Zenon DEF SendResponseRaw
      <4> QED
        BY <1>0, <4>1, SMT DEF TypeOK
    <3> QED
      BY <1>5, <3>1, <3>2
  <2>2. UNCHANGED <<ri, held>>
    BY <1>5 DEF Respond, SendResponseRaw, CloseAfterError
  <2> QED
    BY <2>1, <2>2, OwnedKept
<1>6. ASSUME NEW u \in Thread, BlockingWrite(u) PROVE Owned'
  <2>1. PICK pc, b : th' = [th EXCEPT ![u] = [th[u] EXCEPT !.pc = pc, !.failed = b]]
    BY <1>6, Zenon DEF BlockingWrite
  <2>2. UNCHANGED <<ri, held>>
    BY <1>6 DEF BlockingWrite
  <2> QED
    BY <1>0, <2>1, <2>2, OwnedKept, SMT DEF TypeOK
<1>7. ASSUME NEW u \in Thread, Finish(u) PROVE Owned'
  BY <1>0, <1>7, SMT DEF TypeOK, Finish, ThIdle, Owned
<1>8. ASSUME NEW u \in Thread, ReportNitz(u) PROVE Owned'
  BY <1>0, <1>8, SMT DEF TypeOK, ReportNitz, ThIdle, Owned
<1>9. ASSUME NEW u \in Thread, NEW r \in Req, Dequeue(u, r) PROVE Owned'
  BY <1>0, <1>9, SMT DEF TypeOK, Dequeue, ThIdle, Owned
<1> QED
  BY <1>1, <1>2, <1>3, <1>4, <1>5, <1>6, <1>7, <1>8, <1>9, Zenon
     DEF Next, VendorStep, EventLoop, Incoming, Accept, Announce, ResendNitz, DropNitz, CloseCommand,
         ListenAgain, LoopDies, RejectPeer, ClientCloses, vars

(* Every step keeps the requests of earlier clients cancelled.             *)
LEMMA CancelStep == RilInv /\ [Next]_vars => CancelReachesListed'
<1> SUFFICES ASSUME RilInv, [Next]_vars
             PROVE  CancelReachesListed'
  OBVIOUS
<1> USE LibRilAssumption
<1>0. TypeOK /\ Socket /\ CancelReachesListed
  BY DEF RilInv
<1>1. ASSUME NEW fd \in Fd, Accept(fd) PROVE CancelReachesListed'
  BY <1>0, <1>1, SMT DEF TypeOK, Accept, Socket, CancelReachesListed
<1>2. CASE CancelListed
  BY <1>0, <1>2, SMT DEF TypeOK, CancelListed, CancelReachesListed
<1>3. CASE Announce \/ ResendNitz \/ DropNitz \/ LoopDies
  BY <1>0, <1>3, SMT DEF Announce, ResendNitz, DropNitz, LoopDies, CancelReachesListed
<1>4. CASE CloseCommand
  BY <1>4, SMT DEF CloseCommand, CancelReachesListed
<1>5. ASSUME NEW r \in Req, NEW valid \in BOOLEAN, Command(r, valid) PROVE CancelReachesListed'
  BY <1>0, <1>5, SMT DEF TypeOK, Command, eventVars, CancelReachesListed
<1>6. ASSUME NEW r \in Req, NEW radioOff \in BOOLEAN, LocalRequest(r, radioOff)
      PROVE  CancelReachesListed'
  BY <1>0, <1>6, SMT DEF TypeOK, LocalRequest, CancelReachesListed
<1>7. CASE UNCHANGED <<ri, raced, conn, cmdEvent, evPc>>
  BY <1>0, <1>7 DEF CancelReachesListed
<1>8. ASSUME NEW u \in Thread, Finish(u) PROVE CancelReachesListed'
  BY <1>0, <1>8, SMT DEF TypeOK, Finish, FreeRi, eventVars, CancelReachesListed
<1>9. ASSUME NEW u \in Thread, NEW r \in Req, Dequeue(u, r) PROVE CancelReachesListed'
  BY <1>0, <1>9, SMT DEF TypeOK, Dequeue, eventVars, CancelReachesListed
<1> QED
  BY <1>1, <1>2, <1>3, <1>4, <1>5, <1>6, <1>7, <1>8, <1>9, Zenon
     DEF Next, VendorStep, EventLoop, Incoming, ListenAgain, RejectPeer, Respond, SendResponseRaw,
         BlockingWrite, CloseAfterError, ReportNitz, ClientCloses, eventVars, vars

(* The inductive invariant holds in every reachable state.                 *)
LEMMA Invariance == Spec => []RilInv
<1>1. RilInv /\ [Next]_vars => RilInv'
  BY TypeStep, SocketStep, InHandStep, OwnedStep, CancelStep DEF RilInv
<1> QED
  BY <1>1, InitInv, PTL DEF Spec

(* listenCallback and processCommandsCallback: their asserts never fail.   *)
THEOREM CallbackAssertsHold == Spec => []CallbackAsserts
<1>1. RilInv => CallbackAsserts
  BY DEF RilInv, Socket, CallbackAsserts
<1> QED
  BY <1>1, Invariance, PTL

(* checkAndDequeueRequestInfo and RIL_onRequestComplete: a RequestInfo is  *)
(* completed by one thread, once.                                          *)
THEOREM RequestInfoOwnedHolds == Spec => []RequestInfoOwned
<1>1. RilInv => RequestInfoOwned
  BY DEF RilInv, Owned, RequestInfoOwned
<1> QED
  BY <1>1, Invariance, PTL

(* onCommandsSocketClosed: only requests a vendor thread had already taken *)
(* out of the list stay uncancelled when their client is gone.             *)
THEOREM CancelReachesListedHolds == Spec => []CancelReachesListed
<1>1. RilInv => CancelReachesListed
  BY DEF RilInv
<1> QED
  BY <1>1, Invariance, PTL
=============================================================================
