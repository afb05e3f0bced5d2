------------------------- MODULE PipeServer_proofs -------------------------
(***************************************************************************)
(* Theorems about PipeServer, for any number of pipe instances, clients    *)
(* and callback threads.  All of them rest on one inductive invariant,     *)
(* IInv, whose parts say who holds which mutex, in which state an instance *)
(* is that the accept loop has or had in hand, and how far the session in  *)
(* the cell has come.                                                      *)
(***************************************************************************)
EXTENDS PipeServer, TLAPS

(* A thread holds the mutexes that its program counter says it holds, the  *)
(* pipe's only for the connection in the cell, and none without one.       *)
LockOwners ==
  /\ cellLock = Server <=> spc \in {"pipeRead", "reading", "pipeWrite", "writing"}
  /\ \A t \in Callbacks : cellLock = t <=> cb[t] \in {"lockPipe", "writing"}
  /\ \A h \in Handles :
       pipeLock[h] = Server <=> spc \in {"reading", "writing"} /\ h = cell
  /\ \A h \in Handles : \A t \in Callbacks :
       pipeLock[h] = t <=> cb[t] = "writing" /\ h = cell
  /\ cellLock # None => cell # None

(* An instance has been created by the loop, is in its hands, in the cell, *)
(* or done with; the state the system keeps for it agrees.                 *)
InstanceStates ==
  /\ \A h \in Handles :
       h \notin served /\ h # pipe => hstate[h] \in {"none", "closed"}
  /\ \A h \in served :
       h # cell => hstate[h] = IF main = "exited" THEN "closed" ELSE "disconnected"
  /\ cell # None => cell \in served /\ hstate[cell] \in {"connected", "broken"}
  /\ pipe # None => pipe \notin served
  /\ spc = "connect" => hstate[pipe] \in {"listening", "connected", "broken"}
  /\ spc = "store" => hstate[pipe] \in {"connected", "broken"}
  /\ main = "exited" => spc = "stopped"

(* Nothing is read from an instance before its session, and within the     *)
(* session one frame is between being read and being answered.             *)
RequestProgress ==
  /\ \A h \in Handles : taken[h] \in {replied[h], replied[h] + 1}
  /\ \A h \in Handles : taken[h] <= sent[h]
  /\ \A h \in Handles : h \notin served => taken[h] = replied[h]
  /\ spc \in {"lockRead", "pipeRead", "reading"} => taken[cell] = replied[cell]
  /\ spc \in {"dispatch", "lockWrite", "pipeWrite", "writing"}
       => taken[cell] = replied[cell] + 1

(* handle_requests returns for a client that left or for a limit.          *)
ReasonToHangUp ==
  spc = "cleanup" => hstate[cell] = "broken" \/ request \in {"big", "huge"}

(* After a session taken up too late the loop goes to its check and ends.  *)
LateSession ==
  late = 0 \/ (late = 1 /\ shutdown /\ spc \in InSession \cup {"check", "stopped"})

IInv ==
  /\ TypeOK
  /\ CellTracksSession
  /\ LockOwners
  /\ InstanceStates
  /\ RequestProgress
  /\ ReasonToHangUp
  /\ LateSession

-----------------------------------------------------------------------------

LEMMA InitIInv == Init => IInv
<1> SUFFICES ASSUME Init PROVE IInv
  OBVIOUS
<1> USE ConstantsAssumption DEF Init
<1>1. TypeOK
  <2>1. 0 \in 0 .. OutCap /\ 0 \in 0 .. MaxSent
    OBVIOUS
  <2> QED BY <2>1 DEF TypeOK
<1>2. CellTracksSession BY DEF CellTracksSession, InSession
<1>3. LockOwners BY DEF LockOwners, Threads
<1>4. InstanceStates BY DEF InstanceStates
<1>5. RequestProgress BY DEF RequestProgress
<1>6. ReasonToHangUp /\ LateSession BY DEF ReasonToHangUp, LateSession
<1> QED BY <1>1, <1>2, <1>3, <1>4, <1>5, <1>6 DEF IInv

LEMMA ServerStepIInv == ASSUME IInv, ServerStep PROVE IInv'
<1> USE ConstantsAssumption
    DEF IInv, TypeOK, CellTracksSession, LockOwners, InstanceStates,
        RequestProgress, ReasonToHangUp, LateSession, InSession, Threads,
        local, locks, orchestr, os, traffic, history, RequestKinds, FrameKinds
<1>1. CASE CheckShutdown BY <1>1 DEF CheckShutdown
<1>2. CASE CreateFails BY <1>2 DEF CreateFails
<1>3. CASE Connected BY <1>3 DEF Connected
<1>4. CASE ConnectFails BY <1>4 DEF ConnectFails
<1>5. CASE AcceptFailed BY <1>5 DEF AcceptFailed
<1>6. CASE \E h \in Handles : CreatePipe(h) BY <1>6 DEF CreatePipe
<1>7. CASE StoreConnection BY <1>7 DEF StoreConnection, Disconnect
<1>8. CASE LockCell BY <1>8 DEF LockCell
<1>9. CASE EndSession BY <1>9 DEF EndSession, Disconnect
<1>10. CASE LockPipe BY <1>10 DEF LockPipe
<1>11. CASE \E kind \in RequestKinds : ReadFrame(kind) BY <1>11 DEF ReadFrame, Unlock
<1>12. CASE ReadFails BY <1>12 DEF ReadFails, Unlock
<1>13. CASE ReadTooLarge BY <1>13 DEF ReadTooLarge, Unlock
<1>14. CASE Dispatch BY <1>14 DEF Dispatch
<1>15. CASE WriteReply BY <1>15 DEF WriteReply, WriteFrame, Unlock
<1>16. CASE WriteReplyFails BY <1>16 DEF WriteReplyFails, WriteFails, Unlock
<1> QED BY <1>1, <1>2, <1>3, <1>4, <1>5, <1>6, <1>7, <1>8, <1>9, <1>10, <1>11,
           <1>12, <1>13, <1>14, <1>15, <1>16 DEF ServerStep, ServerLocks

LEMMA CallbackStepIInv ==
  ASSUME IInv, NEW t \in Callbacks, CallCallback(t) \/ CallbackStep(t)
  PROVE  IInv'
<1> USE ConstantsAssumption
    DEF IInv, TypeOK, CellTracksSession, LockOwners, InstanceStates,
        RequestProgress, ReasonToHangUp, LateSession, InSession, Threads,
        local, locks, orchestr, os, traffic, history
<1>1. CASE CallCallback(t) BY <1>1 DEF CallCallback
<1>2. CASE CallbackLockCell(t) BY <1>2 DEF CallbackLockCell
<1>3. CASE CallbackLockPipe(t) BY <1>3 DEF CallbackLockPipe
<1>4. CASE CallbackTooLarge(t) BY <1>4 DEF CallbackTooLarge
<1>5. CASE CallbackWrite(t) BY <1>5 DEF CallbackWrite, WriteFrame, Unlock
<1>6. CASE CallbackWriteFails(t) BY <1>6 DEF CallbackWriteFails, WriteFails, Unlock
<1> QED BY <1>1, <1>2, <1>3, <1>4, <1>5, <1>6 DEF CallbackStep

LEMMA MainStepIInv == ASSUME IInv, CtrlC \/ MainStep PROVE IInv'
<1> USE ConstantsAssumption
    DEF IInv, TypeOK, CellTracksSession, LockOwners, InstanceStates,
        RequestProgress, ReasonToHangUp, LateSession, InSession, Threads,
        local, locks, orchestr, os, traffic, history
<1>1. CASE CtrlC BY <1>1 DEF CtrlC
<1>2. CASE ShutdownSlept BY <1>2 DEF ShutdownSlept
<1>3. CASE Exit BY <1>3 DEF Exit
<1> QED BY <1>1, <1>2, <1>3 DEF MainStep

LEMMA ClientStepIInv ==
  ASSUME IInv, NEW c \in Clients, ClientStep(c)
  PROVE  IInv'
<1> USE ConstantsAssumption
    DEF IInv, TypeOK, CellTracksSession, LockOwners, InstanceStates,
        RequestProgress, ReasonToHangUp, LateSession, InSession, Threads,
        local, locks, orchestr, os, traffic, history
<1>1. CASE ClientWaits(c) BY <1>1 DEF ClientWaits
<1>2. CASE ClientGivesUp(c) BY <1>2 DEF ClientGivesUp
<1>3. ASSUME NEW h \in Handles, ClientConnects(c, h) PROVE IInv'
  BY <1>3 DEF ClientConnects
<1>4. ASSUME NEW h \in Handles, ClientSends(c, h) PROVE IInv'
  BY <1>4 DEF ClientSends
<1>5. ASSUME NEW h \in Handles, ClientReads(c, h) PROVE IInv'
  BY <1>5 DEF ClientReads
<1>6. ASSUME NEW h \in Handles, ClientCloses(c, h) PROVE IInv'
  BY <1>6 DEF ClientCloses
<1> QED BY <1>1, <1>2, <1>3, <1>4, <1>5, <1>6 DEF ClientStep

LEMMA StutterIInv == ASSUME IInv, UNCHANGED vars PROVE IInv'
BY DEF vars, IInv, TypeOK, CellTracksSession, LockOwners, InstanceStates,
       RequestProgress, ReasonToHangUp, LateSession, InSession, Threads,
       local, locks, orchestr, os, traffic, history

(* In every reachable state the mutexes, the instances and the session in  *)
(* the cell are as the accept loop's program counter says: the invariant   *)
(* of run_accept_loop, handle_requests and send_callback.                  *)
THEOREM InductiveInvariant == Spec => []IInv
<1>1. ASSUME IInv, [Next]_vars PROVE IInv'
  BY <1>1, ServerStepIInv, CallbackStepIInv, MainStepIInv, ClientStepIInv,
     StutterIInv DEF Next
<1> QED BY <1>1, InitIInv, PTL DEF Spec

-----------------------------------------------------------------------------
(* What follows from it.                                                   *)

(* Every variable stays in its type: the program counters, the two locks,  *)
(* and the counts of frames, which no step drives past their bounds.       *)
THEOREM TypeCorrect == Spec => []TypeOK
BY InductiveInvariant, PTL DEF IInv

(* The cell is occupied exactly during a session (server.rs:275-295), so   *)
(* handle_requests never fails to find its connection.                     *)
THEOREM CellCorrect == Spec => []CellTracksSession
BY InductiveInvariant, PTL DEF IInv

(* The pipe's mutex is only held inside the cell's, by one thread.         *)
THEOREM LockOrder == Spec => []LockNesting
<1>1. IInv => LockNesting
  BY ConstantsAssumption DEF IInv, TypeOK, LockOwners, LockNesting, Threads
<1> QED BY <1>1, InductiveInvariant, PTL

(* At most one client is attached to the daemon, or could become so.       *)
THEOREM SingleInstance == Spec => []OneLiveInstance
<1>1. IInv => OneLiveInstance
  BY ConstantsAssumption
     DEF IInv, TypeOK, CellTracksSession, InstanceStates, InSession,
         OneLiveInstance, Live
<1> QED BY <1>1, InductiveInvariant, PTL

(* The handles that are open are those of the sessions so far and the one  *)
(* being accepted.                                                         *)
THEOREM OpenHandles == Spec => []HandleAccounting
<1>1. IInv => HandleAccounting
  BY ConstantsAssumption
     DEF IInv, TypeOK, CellTracksSession, InstanceStates, InSession,
         HandleAccounting
<1> QED BY <1>1, InductiveInvariant, PTL

(* No request is read before the one before it was answered, and none is   *)
(* answered twice.                                                         *)
THEOREM InOrder == Spec => []OneRequestInFlight
<1>1. IInv => OneRequestInFlight
  BY DEF IInv, RequestProgress, OneRequestInFlight
<1> QED BY <1>1, InductiveInvariant, PTL

(* Ctrl+C leaves room for one more session at most.                        *)
THEOREM OneLateSession == Spec => []AtMostOneLateSession
<1>1. IInv => AtMostOneLateSession
  BY DEF IInv, LateSession, AtMostOneLateSession
<1> QED BY <1>1, InductiveInvariant, PTL

-----------------------------------------------------------------------------
(* What no step does.                                                      *)

(* Whoever writes a frame, handler or callback, holds both mutexes and     *)
(* writes to the connection in the cell.                                   *)
THEOREM WritesExcluded == Spec => WritesUnderLocks
<1> DEFINE A == \A h \in Handles : unread'[h] > unread[h] =>
                  h = cell /\ hstate[h] = "connected"
                    /\ cellLock # None /\ pipeLock[h] = cellLock
<1>1. ASSUME IInv, Next PROVE A
  <2> USE <1>1, ConstantsAssumption
      DEF IInv, TypeOK, CellTracksSession, LockOwners, InstanceStates, Threads,
          InSession, local, locks, orchestr, os, traffic, history
  <2>1. CASE ServerStep
    BY <2>1 DEF ServerStep, ServerLocks, CheckShutdown, CreateFails, Connected,
                ConnectFails, AcceptFailed, CreatePipe, StoreConnection, LockCell,
                EndSession, LockPipe, ReadFrame, ReadFails, ReadTooLarge, Dispatch,
                WriteReply, WriteReplyFails, WriteFrame, Disconnect, Unlock
  <2>2. ASSUME NEW t \in Callbacks, CallCallback(t) \/ CallbackStep(t) PROVE A
    BY <2>2 DEF CallCallback, CallbackStep, CallbackLockCell, CallbackLockPipe,
                CallbackTooLarge, CallbackWrite, CallbackWriteFails, WriteFrame
  <2>3. CASE CtrlC \/ MainStep
    BY <2>3 DEF CtrlC, MainStep, ShutdownSlept, Exit
  <2>4. ASSUME NEW c \in Clients, ClientStep(c) PROVE A
    BY <2>4 DEF ClientStep, ClientWaits, ClientGivesUp, ClientConnects,
                ClientSends, ClientReads, ClientCloses
  <2> QED BY <2>1, <2>2, <2>3, <2>4 DEF Next
<1>2. IInv /\ [Next]_vars => [A]_vars
  BY <1>1
<1> QED BY <1>2, InductiveInvariant, PTL DEF Spec, WritesUnderLocks

(* A client that is still connected is disconnected only because of a      *)
(* frame or a response above MAX_PAYLOAD_SIZE.                             *)
THEOREM HangUpsJustified == Spec => HangsUpOnlyOnLimit
<1> DEFINE A == \A h \in Handles :
                  hstate[h] = "connected" /\ hstate'[h] # "connected"
                    /\ peer'[h] # None => request \in {"big", "huge"}
<1>1. ASSUME IInv, Next PROVE A
  <2> USE <1>1, ConstantsAssumption
      DEF IInv, TypeOK, CellTracksSession, InstanceStates, ReasonToHangUp,
          InSession, local, locks, orchestr, os, traffic, history
  <2>1. CASE ServerStep
    BY <2>1 DEF ServerStep, ServerLocks, CheckShutdown, CreateFails, Connected,
                ConnectFails, AcceptFailed, CreatePipe, StoreConnection, LockCell,
                EndSession, LockPipe, ReadFrame, ReadFails, ReadTooLarge, Dispatch,
                WriteReply, WriteReplyFails, WriteFrame, Disconnect, Unlock
  <2>2. ASSUME NEW t \in Callbacks, CallCallback(t) \/ CallbackStep(t) PROVE A
    BY <2>2 DEF CallCallback, CallbackStep, CallbackLockCell, CallbackLockPipe,
                CallbackTooLarge, CallbackWrite, CallbackWriteFails
  <2>3. CASE CtrlC \/ MainStep
    BY <2>3 DEF CtrlC, MainStep, ShutdownSlept, Exit
  <2>4. ASSUME NEW c \in Clients, ClientStep(c) PROVE A
    BY <2>4 DEF ClientStep, ClientWaits, ClientGivesUp, ClientConnects,
                ClientSends, ClientReads, ClientCloses
  <2> QED BY <2>1, <2>2, <2>3, <2>4 DEF Next
<1>2. IInv /\ [Next]_vars => [A]_vars
  BY <1>1
<1> QED BY <1>2, InductiveInvariant, PTL DEF Spec, HangsUpOnlyOnLimit

-----------------------------------------------------------------------------
(* PipeServer implements RpcSession.                                       *)

LEMMA SessionInit == Init => Session!Init
BY ConstantsAssumption DEF Init, Session!Init, SessionStatus

(* Steps that leave the mapped state alone: all but four.                  *)
LEMMA SessionStutter ==
  ASSUME UNCHANGED <<cell, sent, replied, served>>
  PROVE  UNCHANGED Session!vars
BY DEF Session!vars, SessionStatus

LEMMA SessionStep == ASSUME IInv, [Next]_vars PROVE [Session!Next]_(Session!vars)
<1> USE ConstantsAssumption
    DEF IInv, TypeOK, CellTracksSession, InstanceStates, RequestProgress, InSession
<1>1. CASE StoreConnection
  <2>1. Session!Open(pipe)
    BY <1>1 DEF StoreConnection, SessionStatus, Session!Open, traffic
  <2> QED BY <1>1, <2>1 DEF StoreConnection, Session!Next
<1>2. CASE EndSession
  <2>1. Session!Close(cell)
    BY <1>2 DEF EndSession, SessionStatus, Session!Close, traffic, history
  <2> QED BY <1>2, <2>1 DEF EndSession, Session!Next
<1>3. CASE WriteReply
  <2>1. Session!Answer(cell)
    BY <1>3 DEF WriteReply, SessionStatus, Session!Answer, history
  <2> QED BY <1>3, <2>1 DEF WriteReply, Session!Next
<1>4. ASSUME NEW c \in Clients, NEW h \in Handles, ClientSends(c, h)
      PROVE  Session!Next
  <2>1. Session!Ask(h)
    BY <1>4 DEF ClientSends, SessionStatus, Session!Ask, history
  <2> QED BY <2>1 DEF Session!Next
<1>5. CASE ServerStep /\ ~StoreConnection /\ ~EndSession /\ ~WriteReply
  <2>1. UNCHANGED <<cell, sent, replied, served>>
    BY <1>5 DEF ServerStep, ServerLocks, CheckShutdown, CreateFails, Connected,
                ConnectFails, AcceptFailed, CreatePipe, LockCell, LockPipe, ReadFrame,
                ReadFails, ReadTooLarge, Dispatch, WriteReplyFails, traffic, history
  <2> QED BY <2>1, SessionStutter
<1>6. ASSUME NEW t \in Callbacks, CallCallback(t) \/ CallbackStep(t)
      PROVE  UNCHANGED Session!vars
  <2>1. UNCHANGED <<cell, sent, replied, served>>
    BY <1>6 DEF CallCallback, CallbackStep, CallbackLockCell, CallbackLockPipe,
                CallbackTooLarge, CallbackWrite, CallbackWriteFails, traffic, history
  <2> QED BY <2>1, SessionStutter
<1>7. CASE CtrlC \/ MainStep \/ UNCHANGED vars
  <2>1. UNCHANGED <<cell, sent, replied, served>>
    BY <1>7 DEF CtrlC, MainStep, ShutdownSlept, Exit, vars, traffic, history
  <2> QED BY <2>1, SessionStutter
<1>8. ASSUME NEW c \in Clients, ClientStep(c),
             \A h \in Handles : ~ClientSends(c, h)
      PROVE  UNCHANGED Session!vars
  <2>1. UNCHANGED <<cell, sent, replied, served>>
    BY <1>8 DEF ClientStep, ClientWaits, ClientGivesUp, ClientConnects,
                ClientReads, ClientCloses, traffic, history
  <2> QED BY <2>1, SessionStutter
<1> QED BY <1>1, <1>2, <1>3, <1>4, <1>5, <1>6, <1>7, <1>8 DEF Next

(* The server with its threads, locks, pipe instances and shutdown is an   *)
(* RpcSession: one session at a time, answered in order, closed for good.  *)
THEOREM Refinement == Spec => ImplementsRpcSession
BY SessionInit, SessionStep, InductiveInvariant, PTL
   DEF Spec, ImplementsRpcSession, Session!Spec
=============================================================================
