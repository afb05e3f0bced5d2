----------------------------- MODULE PipeServer -----------------------------
(***************************************************************************)
(* The daemon's IPC core (src/ipc/server.rs) with the orchestrator that    *)
(* runs it (src/daemon/core.rs): the accept-loop thread, the threads that  *)
(* call send_callback, the main task with its Ctrl+C handler, and, as the  *)
(* environment, clients and the named-pipe objects of the operating        *)
(* system.                                                                 *)
(*                                                                         *)
(* Frames are counted, not spelled out: a pipe keeps the order of what is  *)
(* written to it, so the frame the server reads next is always the oldest  *)
(* unread one, and its kind is chosen when it is read.                     *)
(***************************************************************************)
EXTENDS Naturals

CONSTANTS
  Handles,    \* the pipe instances the system has the resources to create
  Clients,    \* processes that connect to the pipe
  Callbacks,  \* daemon threads that call send_callback
  Server,     \* the blocking thread that runs run_accept_loop
  None,       \* no handle, no thread, no client, no request
  MaxSent,    \* frames a client sends in one session: bounds the model
  OutCap      \* frames the outbound buffer of a pipe holds before a write blocks

Threads == Callbacks \cup {Server}

ASSUME ConstantsAssumption ==
  /\ Server \notin Callbacks
  /\ None \notin Handles \cup Clients \cup Threads
  /\ MaxSent \in Nat
  /\ OutCap \in Nat \ {0}

VARIABLES
  spc,        \* where the accept-loop thread is
  pipe,       \* its local pipe handle, between creation and the cell
  request,    \* kind of the frame handle_requests is working on
  cell,       \* the handle in the ActiveConnectionCell
  cellLock,   \* the thread that holds the cell's mutex
  pipeLock,   \* the thread that holds ActiveConnection.pipe, per handle
  cb,         \* where each call of send_callback is
  main,       \* where the main task is
  shutdown,   \* the value of the shutdown watch channel
  hstate,     \* state of each pipe instance, as the operating system keeps it
  peer,       \* the client that holds the other end of an instance
  waiting,    \* clients that wait for an instance to connect to
  unread,     \* frames in the outbound buffer of an instance
  sent,       \* frames the client has written to an instance
  taken,      \* frames the server has read from it
  replied,    \* frames of it that the server has answered
  served,     \* history: handles that have been in the cell
  late        \* history: sessions taken up after shutdown was signalled

local    == <<spc, pipe, request>>
locks    == <<cellLock, pipeLock>>
orchestr == <<main, shutdown>>
os       == <<hstate, peer, waiting, unread>>
traffic  == <<sent, taken, replied>>
history  == <<served, late>>
vars == <<local, cell, locks, cb, orchestr, os, traffic, history>>

(* A request is answered ("call"), is a system/shutdown ("shutdown"), has  *)
(* a signed response above MAX_PAYLOAD_SIZE ("big": it echoes the id or    *)
(* the method of a request just below the limit), or does not parse        *)
(* ("bad").  The header of a "huge" frame announces more than the limit.   *)
RequestKinds == {"call", "shutdown", "big", "bad"}
FrameKinds == RequestKinds \cup {"huge"}

TypeOK ==
  /\ spc \in {"check", "create", "connect", "failed", "store", "lockRead",
              "pipeRead", "reading", "dispatch", "lockWrite", "pipeWrite",
              "writing", "cleanup", "stopped"}
  /\ pipe \in Handles \cup {None}
  /\ request \in FrameKinds \cup {None}
  /\ cell \in Handles \cup {None}
  /\ cellLock \in Threads \cup {None}
  /\ pipeLock \in [Handles -> Threads \cup {None}]
  /\ cb \in [Callbacks -> {"idle", "lockCell", "lockPipe", "writing", "ok", "failed"}]
  /\ main \in {"select", "sleeping", "returned", "exited"}
  /\ shutdown \in BOOLEAN
  /\ hstate \in [Handles -> {"none", "listening", "connected", "broken",
                             "disconnected", "closed"}]
  /\ peer \in [Handles -> Clients \cup {None}]
  /\ waiting \in SUBSET Clients
  /\ unread \in [Handles -> 0 .. OutCap]
  /\ sent \in [Handles -> 0 .. MaxSent]
  /\ taken \in [Handles -> 0 .. MaxSent]
  /\ replied \in [Handles -> 0 .. MaxSent]
  /\ served \in SUBSET Handles
  /\ late \in Nat

Init ==
  /\ spc = "check"
  /\ pipe = None
  /\ request = None
  /\ cell = None
  /\ cellLock = None
  /\ pipeLock = [h \in Handles |-> None]
  /\ cb = [t \in Callbacks |-> "idle"]
  /\ main = "select"
  /\ shutdown = FALSE
  /\ hstate = [h \in Handles |-> "none"]
  /\ peer = [h \in Handles |-> None]
  /\ waiting = {}
  /\ unread = [h \in Handles |-> 0]
  /\ sent = [h \in Handles |-> 0]
  /\ taken = [h \in Handles |-> 0]
  /\ replied = [h \in Handles |-> 0]
  /\ served = {}
  /\ late = 0

-----------------------------------------------------------------------------
(* The named pipe and the two mutexes.                                     *)

(* PipeHandle::disconnect, which Drop runs: the instance is disconnected,  *)
(* what the client has not read is discarded, the handle stays open.       *)
Disconnect(h) ==
  /\ hstate' = [hstate EXCEPT ![h] = "disconnected"]
  /\ unread' = [unread EXCEPT ![h] = 0]

(* A faulty variant, as are those below, of the operation it is named      *)
(* after: with PIPE_NOWAIT a full buffer does not block the writer.        *)
WriteFrameNoWait(h) ==
  /\ hstate[h] = "connected"
  /\ unread' = [unread EXCEPT ![h] = @ + 1]

(* WriteFile: blocks while the buffer is full, fails once the client has   *)
(* closed its end.                                                         *)
WriteFrame(h) ==
  /\ hstate[h] = "connected"
  /\ unread[h] < OutCap
  /\ unread' = [unread EXCEPT ![h] = @ + 1]

WriteFails(h) == hstate[h] # "connected"

(* The guards of the cell and of the pipe go out of scope together.        *)
Unlock ==
  /\ cellLock' = None
  /\ pipeLock' = [pipeLock EXCEPT ![cell] = None]

-----------------------------------------------------------------------------
(* Faulty variants.  Each stands for a plausible slip in the operation it   *)
(* is named after; a property of the runs must fail when it replaces it.   *)

(* The watch channel is not consulted before an accept.                    *)
CheckShutdownNever ==
  /\ spc = "check"
  /\ spc' = "create"
  /\ UNCHANGED <<pipe, request, cell, locks, cb, orchestr, os, traffic, history>>

(* No CloseHandle when ConnectNamedPipe fails.                             *)
ConnectFailsLeaks ==
  /\ spc = "connect"
  /\ hstate[pipe] = "broken"
  /\ hstate' = [hstate EXCEPT ![pipe] = "disconnected"]
  /\ pipe' = None
  /\ spc' = "failed"
  /\ UNCHANGED <<request, cell, locks, cb, orchestr, peer, waiting, unread,
                 traffic, history>>

(* A failed accept is retried without a look at the flag.                  *)
AcceptFailedRetries ==
  /\ spc = "failed"
  /\ spc' = "create"
  /\ UNCHANGED <<pipe, request, cell, locks, cb, orchestr, os, traffic, history>>

(* A frame that does not parse ends the session, as with `?`.              *)
ReadFrameOrHangUp(kind) ==
  /\ spc = "reading"
  /\ taken[cell] < sent[cell]
  /\ taken' = [taken EXCEPT ![cell] = @ + 1]
  /\ request' = kind
  /\ Unlock
  /\ spc' = IF kind = "bad" THEN "cleanup" ELSE "dispatch"
  /\ UNCHANGED <<pipe, cell, cb, orchestr, os, sent, replied, history>>

(* A frame that does not parse is skipped.                                 *)
ReadFrameOrSkip(kind) ==
  /\ spc = "reading"
  /\ taken[cell] < sent[cell]
  /\ taken' = [taken EXCEPT ![cell] = @ + 1]
  /\ request' = kind
  /\ Unlock
  /\ spc' = IF kind = "bad" THEN "lockRead" ELSE "dispatch"
  /\ UNCHANGED <<pipe, cell, cb, orchestr, os, sent, replied, history>>

(* The guards outlive handle_requests.                                     *)
ReadFailsLocked ==
  /\ spc = "reading"
  /\ hstate[cell] # "connected"
  /\ taken[cell] = sent[cell]
  /\ spc' = "cleanup"
  /\ UNCHANGED <<pipe, request, cell, locks, cb, orchestr, os, traffic, history>>

(* A response is written a second time.                                    *)
WriteReplyAgain ==
  /\ spc = "writing"
  /\ WriteFrame(cell)
  /\ replied' = [replied EXCEPT ![cell] = @ + 1]
  /\ Unlock
  /\ request' = None
  /\ spc' \in {"lockRead", "lockWrite"}
  /\ UNCHANGED <<pipe, cell, cb, orchestr, hstate, peer, waiting, sent, taken, history>>

(* No cell.take() after handle_requests.                                   *)
EndSessionKeepsCell ==
  /\ spc = "cleanup"
  /\ cellLock = None
  /\ request' = None
  /\ spc' = "check"
  /\ UNCHANGED <<pipe, cell, locks, cb, orchestr, os, traffic, history>>

(* No Drop for PipeHandle: the client stays attached to its instance.      *)
EndSessionWithoutDrop ==
  /\ spc = "cleanup"
  /\ cellLock = None
  /\ cell' = None
  /\ request' = None
  /\ spc' = "check"
  /\ UNCHANGED <<pipe, locks, cb, orchestr, os, traffic, history>>

(* send_callback lets go of the cell before it takes the pipe's mutex.     *)
CallbackLockCellBriefly(t) ==
  /\ main # "exited"
  /\ cb[t] = "lockCell"
  /\ cellLock = None
  /\ cb' = [cb EXCEPT ![t] = IF cell = None THEN "failed" ELSE "lockPipe"]
  /\ UNCHANGED <<local, cell, locks, orchestr, os, traffic, history>>

(* send_callback writes without the pipe's mutex.                          *)
CallbackLockPipeNever(t) ==
  /\ cb[t] = "lockPipe"
  /\ pipeLock[cell] = None
  /\ cb' = [cb EXCEPT ![t] = "writing"]
  /\ UNCHANGED <<local, cell, locks, orchestr, os, traffic, history>>

(* send_callback returns an error with its guards alive.                   *)
CallbackTooLargeLocked(t) ==
  /\ cb[t] = "lockPipe"
  /\ pipeLock[cell] = None
  /\ cb' = [cb EXCEPT ![t] = "failed"]
  /\ UNCHANGED <<local, cell, locks, orchestr, os, traffic, history>>

-----------------------------------------------------------------------------
(* run_accept_loop, on the thread Server.                                  *)

CheckShutdown ==
  /\ spc = "check"
  /\ spc' = IF shutdown THEN "stopped" ELSE "create"
  /\ UNCHANGED <<pipe, request, cell, locks, cb, orchestr, os, traffic, history>>

(* CreateNamedPipeW: from now on a client can connect to the instance.     *)
CreatePipe(h) ==
  /\ spc = "create"
  /\ hstate[h] = "none"
  /\ hstate' = [hstate EXCEPT ![h] = "listening"]
  /\ pipe' = h
  /\ spc' = "connect"
  /\ UNCHANGED <<request, cell, locks, cb, orchestr, peer, waiting, unread,
                 traffic, history>>

CreateFails ==
  /\ spc = "create"
  /\ spc' = "failed"
  /\ UNCHANGED <<pipe, request, cell, locks, cb, orchestr, os, traffic, history>>

(* ConnectNamedPipe blocks until a client has connected.  It also succeeds *)
(* for a client that connected during the call and has left since.         *)
Connected ==
  /\ spc = "connect"
  /\ hstate[pipe] \in {"connected", "broken"}
  /\ spc' = "store"
  /\ UNCHANGED <<pipe, request, cell, locks, cb, orchestr, os, traffic, history>>

(* It fails for a client that came and left before the call; the handle is *)
(* closed on this path.                                                    *)
ConnectFails ==
  /\ spc = "connect"
  /\ hstate[pipe] = "broken"
  /\ hstate' = [hstate EXCEPT ![pipe] = "closed"]
  /\ pipe' = None
  /\ spc' = "failed"
  /\ UNCHANGED <<request, cell, locks, cb, orchestr, peer, waiting, unread,
                 traffic, history>>

(* A failed accept: the loop ends on shutdown, else sleeps and retries.    *)
AcceptFailed ==
  /\ spc = "failed"
  /\ spc' = IF shutdown THEN "stopped" ELSE "check"
  /\ UNCHANGED <<pipe, request, cell, locks, cb, orchestr, os, traffic, history>>

(* The connection goes into the cell, whatever was there is disconnected.  *)
StoreConnection ==
  /\ spc = "store"
  /\ cellLock = None
  /\ cell' = pipe
  /\ IF cell = None THEN UNCHANGED <<hstate, unread>> ELSE Disconnect(cell)
  /\ pipe' = None
  /\ spc' = "lockRead"
  /\ served' = served \cup {pipe}
  /\ late' = IF shutdown THEN late + 1 ELSE late
  /\ UNCHANGED <<request, locks, cb, orchestr, peer, waiting, traffic>>

-----------------------------------------------------------------------------
(* handle_requests, on the thread Server.                                  *)

(* Takes the cell's mutex, to read a frame or to write a response; without *)
(* a connection in the cell the handler returns.                           *)
LockCell ==
  /\ spc \in {"lockRead", "lockWrite"}
  /\ cellLock = None
  /\ IF cell = None
     THEN spc' = "cleanup" /\ UNCHANGED cellLock
     ELSE /\ cellLock' = Server
          /\ spc' = IF spc = "lockRead" THEN "pipeRead" ELSE "pipeWrite"
  /\ UNCHANGED <<pipe, request, cell, pipeLock, cb, orchestr, os, traffic, history>>

LockPipe ==
  /\ spc \in {"pipeRead", "pipeWrite"}
  /\ pipeLock[cell] = None
  /\ pipeLock' = [pipeLock EXCEPT ![cell] = Server]
  /\ spc' = IF spc = "pipeRead" THEN "reading" ELSE "writing"
  /\ UNCHANGED <<pipe, request, cell, cellLock, cb, orchestr, os, traffic, history>>

(* read_frame returns a frame, for which it waits with both mutexes held;  *)
(* what a client wrote before it closed its end can still be read.  A      *)
(* frame that does not parse is answered without dispatch.                 *)
ReadFrame(kind) ==
  /\ spc = "reading"
  /\ taken[cell] < sent[cell]
  /\ taken' = [taken EXCEPT ![cell] = @ + 1]
  /\ request' = kind
  /\ Unlock
  /\ spc' = IF kind = "bad" THEN "lockWrite" ELSE "dispatch"
  /\ UNCHANGED <<pipe, cell, cb, orchestr, os, sent, replied, history>>

(* read_frame fails at the end of the stream, and the handler returns.     *)
ReadFails ==
  /\ spc = "reading"
  /\ hstate[cell] # "connected"
  /\ taken[cell] = sent[cell]
  /\ Unlock
  /\ spc' = "cleanup"
  /\ UNCHANGED <<pipe, request, cell, cb, orchestr, os, traffic, history>>

(* It also fails on a header above MAX_PAYLOAD_SIZE.                       *)
ReadTooLarge ==
  /\ spc = "reading"
  /\ taken[cell] < sent[cell]
  /\ request' = "huge"
  /\ Unlock
  /\ spc' = "cleanup"
  /\ UNCHANGED <<pipe, cell, cb, orchestr, os, traffic, history>>

(* dispatch, sign_response and encode_frame, with no mutex held.  The      *)
(* handler of system/shutdown only builds its answer; a response too large *)
(* to be framed makes the handler return.                                  *)
Dispatch ==
  /\ spc = "dispatch"
  /\ spc' = IF request = "big" THEN "cleanup" ELSE "lockWrite"
  /\ UNCHANGED <<pipe, request, cell, locks, cb, orchestr, os, traffic, history>>

WriteReply ==
  /\ spc = "writing"
  /\ WriteFrame(cell)
  /\ replied' = [replied EXCEPT ![cell] = @ + 1]
  /\ Unlock
  /\ request' = None
  /\ spc' = "lockRead"
  /\ UNCHANGED <<pipe, cell, cb, orchestr, hstate, peer, waiting, sent, taken, history>>

WriteReplyFails ==
  /\ spc = "writing"
  /\ WriteFails(cell)
  /\ Unlock
  /\ spc' = "cleanup"
  /\ UNCHANGED <<pipe, request, cell, cb, orchestr, os, traffic, history>>

(* handle_requests has returned: the connection leaves the cell, and Drop  *)
(* disconnects it.                                                         *)
EndSession ==
  /\ spc = "cleanup"
  /\ cellLock = None
  /\ cell' = None
  /\ IF cell = None THEN UNCHANGED <<hstate, unread>> ELSE Disconnect(cell)
  /\ request' = None
  /\ spc' = "check"
  /\ UNCHANGED <<pipe, locks, cb, orchestr, peer, waiting, traffic, history>>

-----------------------------------------------------------------------------
(* send_callback, on a thread t of Callbacks.                              *)

CallCallback(t) ==
  /\ main # "exited"
  /\ cb[t] \in {"idle", "ok", "failed"}
  /\ cb' = [cb EXCEPT ![t] = "lockCell"]
  /\ UNCHANGED <<local, cell, locks, orchestr, os, traffic, history>>

CallbackLockCell(t) ==
  /\ main # "exited"
  /\ cb[t] = "lockCell"
  /\ cellLock = None
  /\ IF cell = None
     THEN cb' = [cb EXCEPT ![t] = "failed"] /\ UNCHANGED cellLock
     ELSE cb' = [cb EXCEPT ![t] = "lockPipe"] /\ cellLock' = t
  /\ UNCHANGED <<local, cell, pipeLock, orchestr, os, traffic, history>>

CallbackLockPipe(t) ==
  /\ cb[t] = "lockPipe"
  /\ pipeLock[cell] = None
  /\ pipeLock' = [pipeLock EXCEPT ![cell] = t]
  /\ cb' = [cb EXCEPT ![t] = "writing"]
  /\ UNCHANGED <<local, cell, cellLock, orchestr, os, traffic, history>>

(* encode_frame refuses the payload: both guards are dropped again.        *)
CallbackTooLarge(t) ==
  /\ cb[t] = "lockPipe"
  /\ pipeLock[cell] = None
  /\ cellLock' = None
  /\ cb' = [cb EXCEPT ![t] = "failed"]
  /\ UNCHANGED <<local, cell, pipeLock, orchestr, os, traffic, history>>

CallbackWrite(t) ==
  /\ cb[t] = "writing"
  /\ WriteFrame(cell)
  /\ Unlock
  /\ cb' = [cb EXCEPT ![t] = "ok"]
  /\ UNCHANGED <<local, cell, orchestr, hstate, peer, waiting, traffic, history>>

CallbackWriteFails(t) ==
  /\ cb[t] = "writing"
  /\ WriteFails(cell)
  /\ Unlock
  /\ cb' = [cb EXCEPT ![t] = "failed"]
  /\ UNCHANGED <<local, cell, orchestr, os, traffic, history>>

-----------------------------------------------------------------------------
(* AppDaemon::run on the main task.  Its other branch, the accept loop     *)
(* returning while main still waits for Ctrl+C, cannot be taken: the loop  *)
(* returns only after shutdown, which only the Ctrl+C branch calls.        *)

CtrlC ==
  /\ main = "select"
  /\ shutdown' = TRUE
  /\ main' = "sleeping"
  /\ UNCHANGED <<local, cell, locks, cb, os, traffic, history>>

(* The 500 ms are over, run and main return.                               *)
ShutdownSlept ==
  /\ main = "sleeping"
  /\ main' = "returned"
  /\ UNCHANGED <<local, cell, locks, cb, shutdown, os, traffic, history>>

(* The tokio runtime is dropped, which waits for its blocking thread; then *)
(* the process ends and the system closes its handles.                     *)
Exit ==
  /\ main = "returned"
  /\ spc = "stopped"
  /\ main' = "exited"
  /\ hstate' = [h \in Handles |-> IF hstate[h] = "none" THEN "none" ELSE "closed"]
  /\ UNCHANGED <<local, cell, locks, cb, shutdown, peer, waiting, unread,
                 traffic, history>>

-----------------------------------------------------------------------------
(* Clients.                                                                *)

ClientWaits(c) ==
  /\ c \notin waiting
  /\ \A h \in Handles : peer[h] # c
  /\ waiting' = waiting \cup {c}
  /\ UNCHANGED <<local, cell, locks, cb, orchestr, hstate, peer, unread,
                 traffic, history>>

(* ConnectAsync runs into its timeout.                                     *)
ClientGivesUp(c) ==
  /\ c \in waiting
  /\ waiting' = waiting \ {c}
  /\ UNCHANGED <<local, cell, locks, cb, orchestr, hstate, peer, unread,
                 traffic, history>>

ClientConnects(c, h) ==
  /\ c \in waiting
  /\ hstate[h] = "listening"
  /\ hstate' = [hstate EXCEPT ![h] = "connected"]
  /\ peer' = [peer EXCEPT ![h] = c]
  /\ waiting' = waiting \ {c}
  /\ UNCHANGED <<local, cell, locks, cb, orchestr, unread, traffic, history>>

ClientSends(c, h) ==
  /\ peer[h] = c
  /\ hstate[h] = "connected"
  /\ sent[h] < MaxSent
  /\ sent' = [sent EXCEPT ![h] = @ + 1]
  /\ UNCHANGED <<local, cell, locks, cb, orchestr, os, taken, replied, history>>

ClientReads(c, h) ==
  /\ peer[h] = c
  /\ unread[h] > 0
  /\ unread' = [unread EXCEPT ![h] = @ - 1]
  /\ UNCHANGED <<local, cell, locks, cb, orchestr, hstate, peer, waiting,
                 traffic, history>>

(* The client disposes of its stream, or its process dies.                 *)
ClientCloses(c, h) ==
  /\ peer[h] = c
  /\ peer' = [peer EXCEPT ![h] = None]
  /\ hstate' = [hstate EXCEPT ![h] = IF @ = "connected" THEN "broken" ELSE @]
  /\ unread' = [unread EXCEPT ![h] = 0]
  /\ UNCHANGED <<local, cell, locks, cb, orchestr, waiting, traffic, history>>

-----------------------------------------------------------------------------

(* Steps of the accept-loop thread that wait for a mutex.                  *)
ServerLocks == StoreConnection \/ LockCell \/ EndSession

ServerStep ==
  \/ CheckShutdown \/ CreateFails \/ Connected \/ ConnectFails \/ AcceptFailed
  \/ \E h \in Handles : CreatePipe(h)
  \/ ServerLocks \/ LockPipe
  \/ \E kind \in RequestKinds : ReadFrame(kind)
  \/ ReadFails \/ ReadTooLarge \/ Dispatch \/ WriteReply \/ WriteReplyFails

(* The threads end with the process.                                       *)
CallbackStep(t) ==
  /\ main # "exited"
  /\ \/ CallbackLockCell(t) \/ CallbackLockPipe(t) \/ CallbackTooLarge(t)
     \/ CallbackWrite(t) \/ CallbackWriteFails(t)

MainStep == ShutdownSlept \/ Exit

ClientStep(c) ==
  \/ ClientWaits(c) \/ ClientGivesUp(c)
  \/ \E h \in Handles :
       \/ ClientConnects(c, h) \/ ClientSends(c, h)
       \/ ClientReads(c, h) \/ ClientCloses(c, h)

Next ==
  \/ ServerStep
  \/ \E t \in Callbacks : CallCallback(t) \/ CallbackStep(t)
  \/ CtrlC \/ MainStep
  \/ \E c \in Clients : ClientStep(c)

Spec == Init /\ [][Next]_vars

-----------------------------------------------------------------------------
(* Fairness.                                                               *)

(* Threads of the daemon run until they block; a thread that waits for a   *)
(* mutex which is free again and again gets it in the end.  Nothing is     *)
(* assumed of Ctrl+C, of the clients, nor that a callback is ever sent.    *)
Fairness ==
  /\ WF_vars(ServerStep)
  /\ SF_vars(ServerLocks)
  /\ WF_vars(MainStep)
  /\ \A t \in Callbacks :
       WF_vars(CallbackStep(t)) /\ SF_vars(CallbackLockCell(t))

FairSpec == Spec /\ Fairness

(* What a liveness property asks of the clients is part of the property.   *)

(* Clients read what the server writes to them.                            *)
ReadingClients ==
  \A c \in Clients : \A h \in Handles : WF_vars(ClientReads(c, h))

(* No client stays for ever.                                               *)
LeavingClients ==
  \A c \in Clients : \A h \in Handles : WF_vars(ClientCloses(c, h))

(* There is always another client that tries until it is connected.        *)
ArrivingClients ==
  \A c \in Clients :
    /\ WF_vars(ClientWaits(c))
    /\ SF_vars(\E h \in Handles : ClientConnects(c, h))

-----------------------------------------------------------------------------
(* Safety.                                                                 *)

InSession == {"lockRead", "pipeRead", "reading", "dispatch", "lockWrite",
              "pipeWrite", "writing", "cleanup"}

(* The cell holds a connection exactly while handle_requests runs and until *)
(* its connection is taken out: the handler never finds the cell empty, and *)
(* a new connection never meets an old one in it.                           *)
CellTracksSession ==
  /\ cell # None <=> spc \in InSession
  /\ pipe # None <=> spc \in {"connect", "store"}

(* The pipe's mutex is only ever held inside the cell's, by the same       *)
(* thread and for the connection that is in the cell, so the two cannot be *)
(* taken in opposite orders by the handler and a callback.                 *)
LockNesting ==
  \A h \in Handles : pipeLock[h] # None => pipeLock[h] = cellLock /\ h = cell

(* An instance a client can connect to, or that still has one.             *)
Live(h) == hstate[h] \in {"listening", "connected", "broken"}

(* Never two instances a client could be attached to: there is no client   *)
(* the daemon has accepted and forgotten, and none while another is served. *)
OneLiveInstance ==
  \A g, h \in Handles : Live(g) /\ Live(h) => g = h

(* While the daemon runs, the open handles are the one being accepted and  *)
(* those of all sessions so far: a failed accept leaves none behind, and a *)
(* session leaves its own, since Drop disconnects without CloseHandle.     *)
HandleAccounting ==
  main # "exited" =>
    {h \in Handles : hstate[h] \notin {"none", "closed"}}
      = served \cup ({pipe} \ {None})

(* Requests are handled one at a time and answered at most once: a frame   *)
(* is read only after the one before it has been answered.                 *)
OneRequestInFlight ==
  \A h \in Handles :
    /\ taken[h] \in {replied[h], replied[h] + 1}
    /\ taken[h] <= sent[h]
    /\ h = cell /\ spc \in {"lockRead", "pipeRead", "reading"}
         => taken[h] = replied[h]

(* The shutdown flag is read before the accept and not after it: once it   *)
(* is set, one more session is possible, and no second one.                *)
AtMostOneLateSession == late <= 1

(* A frame enters a pipe only while its writer holds both mutexes and the  *)
(* pipe is the one in the cell, whoever writes: responses and callbacks do *)
(* not mix, and nothing is written to a client that was replaced or left.  *)
WritesUnderLocks ==
  [][\A h \in Handles : unread'[h] > unread[h] =>
       h = cell /\ hstate[h] = "connected"
         /\ cellLock # None /\ pipeLock[h] = cellLock]_vars

(* The server hangs up on a client that is still connected only for a      *)
(* frame or a response above MAX_PAYLOAD_SIZE: not for a request that does *)
(* not parse or is not authorised, a callback that failed, or Ctrl+C.      *)
HangsUpOnlyOnLimit ==
  [][\A h \in Handles :
       hstate[h] = "connected" /\ hstate'[h] # "connected" /\ peer'[h] # None
         => request \in {"big", "huge"}]_vars

(* PipeServer implements RpcSession, a session being a handle.             *)
SessionStatus(h) ==
  IF h = cell THEN "open" ELSE IF h \in served THEN "closed" ELSE "fresh"

Session == INSTANCE RpcSession WITH
  Sessions <- Handles, MaxAsk <- MaxSent,
  status <- [h \in Handles |-> SessionStatus(h)],
  asked <- sent, answered <- replied

ImplementsRpcSession == Session!Spec

-----------------------------------------------------------------------------
(* Liveness.                                                               *)

(* If the clients read their responses, every request of a session is      *)
(* answered, or the session ends: neither a callback nor the order of      *)
(* locks can keep the handler from answering.                              *)
RequestAnswered ==
  ReadingClients =>
    \A h \in Handles : \A n \in 1 .. MaxSent :
      h = cell /\ sent[h] >= n ~> replied[h] >= n \/ h # cell

(* If every client leaves in the end, a callback returns while the daemon  *)
(* runs: it waits for an idle client, but not for ever.                    *)
CallbackReturns ==
  LeavingClients =>
    \A t \in Callbacks :
      cb[t] = "lockCell" ~> cb[t] \in {"ok", "failed"} \/ main = "exited"

(* After Ctrl+C the process ends, if another client comes and goes.        *)
ShutdownCompletes ==
  LeavingClients /\ ArrivingClients => (shutdown ~> main = "exited")

-----------------------------------------------------------------------------
(* What the documentation says of this code, and TLC refutes.              *)

(* server.rs:235: the connection stays in the cell, "so callbacks (e.g.    *)
(* SMTC events) can write back to the client at any time".  The handler    *)
(* waits for an idle client's next request with both mutexes held.         *)
CallbacksAtAnyTime ==
  ReadingClients =>
    \A t \in Callbacks : \A h \in Handles :
      cb[t] = "lockCell" /\ cell = h ~> cb[t] \in {"ok", "failed"} \/ cell # h
=============================================================================
