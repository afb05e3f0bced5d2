----------------------------- MODULE RpcClient -----------------------------
(***************************************************************************)
(* The .NET client (examples/csharp/DaemonRpcClient.cs): calls that write  *)
(* their request and wait for its answer, the read loop that completes     *)
(* them, the 30 s timer, Dispose, and the two ends of the pipe.  The       *)
(* daemon appears as what PipeServer promises: it reads whole frames in    *)
(* order and answers each once, and a session may end at any time.         *)
(*                                                                         *)
(* A frame is written in two parts, so the pipe to the daemon carries      *)
(* headers and bodies; the pipe back carries frames, which the daemon      *)
(* writes in one piece.                                                    *)
(***************************************************************************)
EXTENDS Naturals, Sequences, FiniteSets

CONSTANTS
  Calls,      \* invocations of CallAsync
  None,       \* no call
  Notices,    \* notifications the daemon sends: bounds the model
  WireCap,    \* request bodies the pipe to the daemon holds
  InboxCap    \* frames the pipe back to the client holds

ASSUME ConstantsAssumption ==
  /\ IsFiniteSet(Calls)
  /\ None \notin Calls \cup [to : Calls, of : Calls]
  /\ Notices \in Nat
  /\ WireCap \in Nat \ {0}
  /\ InboxCap \in Nat \ {0}

VARIABLES
  nextId,     \* _nextId
  id,         \* the id of each call, 0 before it begins
  at,         \* where each call is in CallAsync
  tcs,        \* its TaskCompletionSource
  outcome,    \* how it returned
  pending,    \* _pending: the call registered under an id
  wire,       \* headers and bodies on the way to the daemon
  session,    \* whether the daemon still serves this connection
  inbox,      \* frames on the way back
  loop,       \* where ReadLoopAsync is
  routed,     \* the call it has taken out of _pending, and whose answer it has
  disposal,   \* how far Dispose is
  answerTo,   \* history: whose request the answer given to a call answered
  overlapped, \* history: whether a call began while another was in progress
  noticed     \* history: notifications sent

callState == <<nextId, id, at, tcs, outcome, pending>>
daemon    == <<wire, session>>
reader    == <<loop, routed>>
history   == <<answerTo, overlapped, noticed>>
vars == <<callState, daemon, inbox, reader, disposal, history>>

(* The ids that Interlocked.Increment hands out, one per call.             *)
Ids == 1 .. Cardinality(Calls)

Parts == [part : {"head", "body"}, of : Calls]

(* An answer carries the id it was asked under.  A frame verifies or not:  *)
(* not if it is unsigned, if the two canonical forms differ, or if it is   *)
(* older than 30 s; Exchange says when the forms differ.                   *)
Frames == [kind : {"answer"}, id : Ids, of : Calls, verifies : BOOLEAN]
            \cup [kind : {"notice"}, verifies : {FALSE}]

TypeOK ==
  /\ nextId \in {0} \cup Ids
  /\ id \in [Calls -> {0} \cup Ids]
  /\ at \in [Calls -> {"idle", "header", "body", "await", "returned"}]
  /\ tcs \in [Calls -> {"unset", "result", "canceled"}]
  /\ outcome \in [Calls -> {"none", "answer", "timeout", "broken"}]
  /\ pending \in [Ids -> Calls \cup {None}]
  /\ wire \in Seq(Parts)
  /\ session \in {"open", "ended"}
  /\ inbox \in Seq(Frames) /\ Len(inbox) <= InboxCap
  /\ loop \in {"reading", "routing", "handler", "ended", "faulted", "stuck"}
  /\ routed \in [to : Calls, of : Calls] \cup {None}
  /\ disposal \in {"no", "cancelled", "done", "threw"}
  /\ answerTo \in [Calls -> Calls \cup {None}]
  /\ overlapped \in BOOLEAN
  /\ noticed \in 0 .. Notices

Init ==
  /\ nextId = 0
  /\ id = [k \in Calls |-> 0]
  /\ at = [k \in Calls |-> "idle"]
  /\ tcs = [k \in Calls |-> "unset"]
  /\ outcome = [k \in Calls |-> "none"]
  /\ pending = [n \in Ids |-> None]
  /\ wire = <<>>
  /\ session = "open"
  /\ inbox = <<>>
  /\ loop = "reading"
  /\ routed = None
  /\ disposal = "no"
  /\ answerTo = [k \in Calls |-> None]
  /\ overlapped = FALSE
  /\ noticed = 0

-----------------------------------------------------------------------------
(* CallAsync: where a call is, and how it returns.                         *)

InProgress(k) == at[k] \in {"header", "body", "await"}

Overlaps ==
  overlapped' = (overlapped \/ \E j \in Calls : InProgress(j))

Returns(k, how) ==
  /\ at' = [at EXCEPT ![k] = "returned"]
  /\ outcome' = [outcome EXCEPT ![k] = how]

(* The handler of OperationCanceledException.                              *)
TimesOut(k) ==
  /\ pending' = [pending EXCEPT ![id[k]] = None]
  /\ Returns(k, "timeout")

-----------------------------------------------------------------------------
(* Faulty variants of operations below, which the runs must notice.        *)

(* `_nextId++`: two calls may read the counter before either writes it.    *)
BeginRacy(k) ==
  /\ at[k] = "idle"
  /\ nextId' \in {nextId, nextId + 1}
  /\ id' = [id EXCEPT ![k] = nextId + 1]
  /\ pending' = [pending EXCEPT ![nextId + 1] = k]
  /\ at' = [at EXCEPT ![k] = "header"]
  /\ Overlaps
  /\ UNCHANGED <<tcs, outcome, daemon, inbox, reader, disposal, answerTo,
                 noticed>>

(* The timer is armed before the write and cancels it.                     *)
WriteCancelledByTimer(k) ==
  /\ at[k] \in {"header", "body"}
  /\ TimesOut(k)
  /\ UNCHANGED <<nextId, id, tcs, daemon, inbox, reader, disposal, history>>

(* No CancelAfter.                                                         *)
TimerFiresOnDispose(k) ==
  /\ at[k] = "await"
  /\ tcs[k] = "unset"
  /\ disposal # "no"
  /\ tcs' = [tcs EXCEPT ![k] = "canceled"]
  /\ UNCHANGED <<nextId, id, at, outcome, pending, daemon, inbox, reader,
                 disposal, history>>

(* No TryRemove after a timeout.                                           *)
ReturnTimeoutRegistered(k) ==
  /\ at[k] = "await"
  /\ tcs[k] = "canceled"
  /\ Returns(k, "timeout")
  /\ UNCHANGED <<nextId, id, tcs, pending, daemon, inbox, reader, disposal, history>>

(* send_callback does not wait for room in the pipe.                       *)
NotifyNoWait ==
  /\ session = "open"
  /\ noticed < Notices
  /\ inbox' = Append(inbox, [kind |-> "notice", verifies |-> FALSE])
  /\ noticed' = noticed + 1
  /\ UNCHANGED <<callState, daemon, reader, disposal, answerTo,
                 overlapped>>

(* ReadFrameAsync without a token.                                         *)
EndLoopAtEnd ==
  /\ loop = "reading"
  /\ session = "ended" /\ inbox = <<>>
  /\ loop' = "handler"
  /\ UNCHANGED <<callState, daemon, inbox, routed, disposal, history>>

-----------------------------------------------------------------------------
(* CallAsync.                                                              *)

(* A call begins: it takes its id and registers under it, even after       *)
(* Dispose, which CallAsync does not look for.                             *)
Begin(k) ==
  /\ at[k] = "idle"
  /\ nextId' = nextId + 1
  /\ id' = [id EXCEPT ![k] = nextId + 1]
  /\ pending' = [pending EXCEPT ![nextId + 1] = k]
  /\ at' = [at EXCEPT ![k] = "header"]
  /\ Overlaps
  /\ UNCHANGED <<tcs, outcome, daemon, inbox, reader, disposal, answerTo,
                 noticed>>

(* WriteFrameAsync writes the length, then the payload.  Other calls may   *)
(* run between the two.  The payload waits for room in the pipe, and so    *)
(* long no timer runs.  With its token cancelled it does not even start.   *)
WriteHeader(k) ==
  /\ at[k] = "header"
  /\ disposal = "no"
  /\ session = "open"
  /\ wire' = Append(wire, [part |-> "head", of |-> k])
  /\ at' = [at EXCEPT ![k] = "body"]
  /\ UNCHANGED <<nextId, id, tcs, outcome, pending, session, inbox, reader,
                 disposal, history>>

WriteBody(k) ==
  /\ at[k] = "body"
  /\ session = "open"
  /\ Cardinality({i \in DOMAIN wire : wire[i].part = "body"}) < WireCap
  /\ wire' = Append(wire, [part |-> "body", of |-> k])
  /\ at' = [at EXCEPT ![k] = "await"]
  /\ UNCHANGED <<nextId, id, tcs, outcome, pending, session, inbox, reader,
                 disposal, history>>

(* The pipe is broken, or Dispose has disposed of the token the timer is   *)
(* to be linked to: the exception leaves CallAsync, which does not remove  *)
(* its registration.                                                       *)
WriteBreaks(k) ==
  /\ \/ at[k] \in {"header", "body"} /\ session = "ended"
     \/ at[k] = "await" /\ tcs[k] = "unset" /\ disposal = "done"
  /\ Returns(k, "broken")
  /\ UNCHANGED <<nextId, id, tcs, pending, daemon, inbox, reader, disposal, history>>

(* Dispose cancels the write, which is reported as a timeout.              *)
WriteCancelled(k) ==
  /\ at[k] \in {"header", "body"}
  /\ disposal # "no"
  /\ TimesOut(k)
  /\ UNCHANGED <<nextId, id, tcs, daemon, inbox, reader, disposal, history>>

(* The 30 s are over, or Dispose has cancelled the linked token.           *)
TimerFires(k) ==
  /\ at[k] = "await"
  /\ tcs[k] = "unset"
  /\ tcs' = [tcs EXCEPT ![k] = "canceled"]
  /\ UNCHANGED <<nextId, id, at, outcome, pending, daemon, inbox, reader,
                 disposal, history>>

ReturnAnswer(k) ==
  /\ at[k] = "await"
  /\ tcs[k] = "result"
  /\ Returns(k, "answer")
  /\ UNCHANGED <<nextId, id, tcs, pending, daemon, inbox, reader, disposal, history>>

ReturnTimeout(k) ==
  /\ at[k] = "await"
  /\ tcs[k] = "canceled"
  /\ TimesOut(k)
  /\ UNCHANGED <<nextId, id, tcs, daemon, inbox, reader, disposal, history>>

-----------------------------------------------------------------------------
(* The daemon's end.                                                       *)

HeadsWhole == wire[1].part = "head" /\ wire[2] = [part |-> "body", of |-> wire[1].of]

(* It reads a whole request and answers it.                                *)
Answer(verifies) ==
  /\ session = "open"
  /\ Len(wire) >= 2 /\ HeadsWhole
  /\ Len(inbox) < InboxCap
  /\ wire' = SubSeq(wire, 3, Len(wire))
  /\ inbox' = Append(inbox, [kind |-> "answer", id |-> id[wire[1].of],
                             of |-> wire[1].of, verifies |-> verifies])
  /\ UNCHANGED <<callState, session, reader, disposal, history>>

(* What follows a header is not its body.  As soon as enough has arrived   *)
(* the bytes of another header are taken for JSON and answered with a      *)
(* parse error; then text is taken for a length, above 1 MiB, and the      *)
(* daemon hangs up.  The disconnect discards the parse error, too.         *)
Misread ==
  /\ session = "open"
  /\ Len(wire) >= 3 /\ ~HeadsWhole
  /\ session' = "ended"
  /\ wire' = <<>>
  /\ inbox' = <<>>
  /\ UNCHANGED <<callState, reader, disposal, history>>

(* The session ends for another reason; what was written may be lost.      *)
EndSession ==
  /\ session = "open"
  /\ session' = "ended"
  /\ wire' = <<>>
  /\ inbox' \in {inbox, <<>>}
  /\ UNCHANGED <<callState, reader, disposal, history>>

(* send_callback with an RpcNotification, which nothing signs.             *)
Notify ==
  /\ session = "open"
  /\ noticed < Notices
  /\ Len(inbox) < InboxCap
  /\ inbox' = Append(inbox, [kind |-> "notice", verifies |-> FALSE])
  /\ noticed' = noticed + 1
  /\ UNCHANGED <<callState, daemon, reader, disposal, answerTo,
                 overlapped>>

-----------------------------------------------------------------------------
(* ReadLoopAsync.                                                          *)

(* A frame that does not verify is dropped, and so is an answer nobody     *)
(* waits for; else its call is taken out of _pending.  Notices never       *)
(* verify, so that OnNotification is not called.                           *)
TakeFrame ==
  /\ loop = "reading"
  /\ inbox # <<>>
  /\ inbox' = Tail(inbox)
  /\ LET f == Head(inbox) IN
       IF f.kind = "answer" /\ f.verifies /\ pending[f.id] # None
       THEN /\ routed' = [to |-> pending[f.id], of |-> f.of]
            /\ pending' = [pending EXCEPT ![f.id] = None]
            /\ loop' = "routing"
       ELSE UNCHANGED <<routed, pending, loop>>
  /\ UNCHANGED <<nextId, id, at, tcs, outcome, daemon, disposal, answerTo,
                 overlapped, noticed>>

(* TrySetResult: the timer may have been faster.                           *)
SetResult ==
  /\ loop = "routing"
  /\ IF tcs[routed.to] = "unset"
     THEN /\ tcs' = [tcs EXCEPT ![routed.to] = "result"]
          /\ answerTo' = [answerTo EXCEPT ![routed.to] = routed.of]
     ELSE UNCHANGED <<tcs, answerTo>>
  /\ routed' = None
  /\ loop' = "reading"
  /\ UNCHANGED <<nextId, id, at, outcome, pending, daemon, inbox, disposal,
                 overlapped, noticed>>

(* End of stream or cancellation: OnDisconnected is called.  The calls     *)
(* that wait are not told.                                                 *)
EndLoop ==
  /\ loop = "reading"
  /\ disposal # "no" \/ (session = "ended" /\ inbox = <<>>)
  /\ loop' = "handler"
  /\ UNCHANGED <<callState, daemon, inbox, routed, disposal, history>>

(* The application's handler of OnDisconnected returns, or throws, which   *)
(* the `finally' lets pass: the task of the loop has failed.  If it calls  *)
(* Dispose it gets back at once when somebody else is at it; else it waits *)
(* for the loop, that is, for itself.                                      *)
HandlerReturns ==
  /\ loop = "handler"
  /\ loop' \in {"ended", "faulted"}
  /\ UNCHANGED <<callState, daemon, inbox, routed, disposal, history>>

HandlerDisposes ==
  /\ loop = "handler"
  /\ disposal = "no"
  /\ disposal' = "cancelled"
  /\ loop' = "stuck"
  /\ UNCHANGED <<callState, daemon, inbox, routed, history>>

-----------------------------------------------------------------------------
(* Dispose, called outside of the loop.  A second call returns at once.    *)

StartDispose ==
  /\ disposal = "no"
  /\ disposal' = "cancelled"
  /\ UNCHANGED <<callState, daemon, inbox, reader, history>>

(* The loop has failed: its exception comes out of Dispose, which closes   *)
(* and kills nothing any more.                                             *)
DisposeThrows ==
  /\ disposal = "cancelled"
  /\ loop = "faulted"
  /\ disposal' = "threw"
  /\ UNCHANGED <<callState, daemon, inbox, reader, history>>

(* The read loop is over: the pipe is closed and the daemon killed.        *)
FinishDispose ==
  /\ disposal = "cancelled"
  /\ loop = "ended"
  /\ disposal' = "done"
  /\ session' = "ended"
  /\ wire' = <<>>
  /\ inbox' = <<>>
  /\ UNCHANGED <<callState, reader, history>>

-----------------------------------------------------------------------------

CallStep(k) ==
  \/ WriteHeader(k) \/ WriteBody(k) \/ WriteBreaks(k) \/ WriteCancelled(k)
  \/ TimerFires(k) \/ ReturnAnswer(k) \/ ReturnTimeout(k)

LoopStep == TakeFrame \/ SetResult \/ EndLoop \/ HandlerReturns

DisposeStep == DisposeThrows \/ FinishDispose

Next ==
  \/ \E k \in Calls : Begin(k) \/ CallStep(k)
  \/ \E verifies \in BOOLEAN : Answer(verifies)
  \/ Misread \/ EndSession \/ Notify
  \/ LoopStep \/ HandlerDisposes
  \/ StartDispose \/ DisposeStep

Spec == Init /\ [][Next]_vars

(* The daemon goes on reading: PipeServer's RequestAnswered promises it to *)
(* a client whose read loop runs.                                          *)
Fairness ==
  /\ \A k \in Calls : WF_vars(CallStep(k))
  /\ WF_vars(LoopStep) /\ WF_vars(DisposeStep)
  /\ WF_vars(Misread \/ \E verifies \in BOOLEAN : Answer(verifies))

FairSpec == Spec /\ Fairness

-----------------------------------------------------------------------------
(* Properties.                                                             *)

(* A call is completed by the answer to its own request, or by none: not   *)
(* by one that comes after its timeout, or to another call.                *)
OwnAnswer ==
  \A k \in Calls :
    /\ answerTo[k] \in {k, None}
    /\ outcome[k] = "answer" => answerTo[k] = k

(* A call that can still be answered is registered under its own id, and   *)
(* _pending holds nothing else, except the calls whose write threw: those  *)
(* stay for ever.                                                          *)
PendingAccounting ==
  \A k \in Calls :
    /\ InProgress(k) /\ tcs[k] = "unset"
         => pending[id[k]] = k \/ (routed # None /\ routed.to = k)
    /\ \A n \in Ids : pending[n] = k =>
         id[k] = n /\ (InProgress(k) \/ outcome[k] = "broken")

(* What the daemon has yet to read is whole frames, the last one perhaps   *)
(* unfinished.                                                             *)
Whole ==
  \A i \in DOMAIN wire :
    /\ wire[i].part = IF i % 2 = 1 THEN "head" ELSE "body"
    /\ i % 2 = 0 => wire[i].of = wire[i - 1].of

(* The frames are whole as long as the application makes its calls one     *)
(* after the other: no call that gives up, for whatever reason, leaves a   *)
(* header in the pipe before the next call's.                              *)
SerialFramesWhole == ~overlapped => Whole

(* Every call returns, answered or not.                                    *)
CallReturns ==
  \A k \in Calls : at[k] = "header" ~> at[k] = "returned"

(* Dispose returns or throws, unless it was called by the handler it waits *)
(* for; and so does every call in progress, whoever called it.             *)
DisposeReturns ==
  /\ disposal = "cancelled" /\ loop # "stuck" ~> disposal \in {"done", "threw"}
  /\ disposal = "cancelled" ~> \A k \in Calls : ~InProgress(k)

(* protocol.rs:11: a frame is "[4-byte LE payload_length][N-byte payload]". *)
(* Calls that overlap mix theirs.                                          *)
FramesWhole == Whole
=============================================================================
