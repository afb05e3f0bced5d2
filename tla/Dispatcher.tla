----------------------------- MODULE Dispatcher -----------------------------
(***************************************************************************)
(* How a request ages: it is signed by the client, waits in the pipe for   *)
(* its turn behind others, is verified and dispatched by the one thread of *)
(* the daemon (src/rpc/dispatcher.rs, src/auth/hmac.rs), and its answer is *)
(* signed and goes back, while the client's 30 s timer runs.  system/delay *)
(* sleeps on that one thread.                                              *)
(*                                                                         *)
(* The client and the daemon are on one machine and share its two clocks:  *)
(* the one timers run on, and the wall clock of the timestamps, which may  *)
(* be adjusted at any time.  A signature is "good" or not; CanonicalJson   *)
(* has what it is computed from.                                           *)
(***************************************************************************)
EXTENDS Naturals, Sequences

CONSTANTS
  Calls,      \* calls of the client
  None,       \* no call, no time
  Window,     \* TS_WINDOW_MS, on both sides
  Timeout,    \* timeoutSec of CallAsync
  Delays,     \* the ms a system/delay asks for: 0 if they are missing
  Sent,       \* the requests that are sent
  Epoch,      \* where the wall clock starts
  Settings,   \* what it may be set to
  MaxAdjusted,\* how often: bounds the model
  MaxTime     \* end of the clock: bounds the model

(* The smtc/* and update/* handlers are stubs that accept anything.        *)
Plain == {"system/ping", "system/shutdown", "stub", "unknown"}
Toasts == {"toast/show", "toast/clear"}

(* A frame is a request, or something else: text, or any other JSON.       *)
Auths == {"good", "wrong", "missing"}
Requests ==
  [form : {"other"}]
  \cup [form : {"request"}, method : Plain, auth : Auths]
  \cup [form : {"request"}, method : Toasts, params : {"good", "bad"}, auth : Auths]
  \cup [form : {"request"}, method : {"system/delay"}, ms : Delays, auth : Auths]

(* Of these, INVALID_REQUEST and INVALID_PARAMS are never used.            *)
Codes == {"result", "PARSE_ERROR", "METHOD_NOT_FOUND", "INTERNAL_ERROR",
          "INVALID_REQUEST", "INVALID_PARAMS", "AUTH_FAILED", "AUTH_TS_MISSING"}

ASSUME ConstantsAssumption ==
  /\ None \notin Calls \cup Nat \cup Requests \cup Codes
  /\ Window \in Nat /\ Timeout \in Nat /\ Window <= Timeout
  /\ Delays \subseteq Nat
  /\ Sent \subseteq Requests
  /\ Epoch \in Nat /\ Settings \subseteq Nat /\ MaxAdjusted \in Nat
  /\ MaxTime \in Nat

-----------------------------------------------------------------------------
(* dispatch, as a function of the request and the time.                    *)

IsAuthFree(r) == r.method = "system/ping"

(* A faulty variant: a window twice as wide.                               *)
TsInWindowWide(now, ts) == now <= ts + 2 * Window /\ ts <= now + 2 * Window

(* A faulty variant: the bound is excluded.                                *)
TsInWindowStrict(now, ts) == now < ts + Window /\ ts < now + Window

TsInWindow(now, ts) == now <= ts + Window /\ ts <= now + Window

(* The error that verify_request_hmac and dispatch make of a request.      *)
AuthErrors(r, ts, now) ==
  IF IsAuthFree(r) THEN {}
  ELSE IF r.auth = "missing" THEN {"AUTH_TS_MISSING"}
  ELSE IF r.auth = "wrong" \/ ~TsInWindow(now, ts) THEN {"AUTH_FAILED"}
  ELSE {}

(* The codes a handler may answer with.  toast/* call Windows, which may   *)
(* refuse; whatever fails is an INTERNAL_ERROR.                            *)
HandlerCodes(r) ==
  CASE r.method \in Toasts ->
         IF r.params = "bad" THEN {"INTERNAL_ERROR"} ELSE {"result", "INTERNAL_ERROR"}
    [] r.method = "unknown" -> {"METHOD_NOT_FOUND"}
    [] OTHER -> {"result"}

(* A handler is called: the request parses, is verified and has a route.   *)
Reached(r, ts, now) ==
  r.form = "request" /\ AuthErrors(r, ts, now) = {} /\ r.method # "unknown"

(* A frame that is no RpcRequest is answered before dispatch.              *)
ReplyCodes(r, ts, now) ==
  IF r.form # "request" THEN {"PARSE_ERROR"}
  ELSE IF AuthErrors(r, ts, now) # {} THEN AuthErrors(r, ts, now)
  ELSE HandlerCodes(r)

Duration(r, ts, now) ==
  IF Reached(r, ts, now) /\ r.method = "system/delay" THEN r.ms ELSE 0

(* sign_response signs what dispatch returns; a PARSE_ERROR is not signed. *)
Signed(code) == code # "PARSE_ERROR"

-----------------------------------------------------------------------------
VARIABLES
  now,        \* the clock of the timers
  wall,       \* the wall clock
  adjusted,   \* how often it has been adjusted
  phase,      \* where each call is: "idle", "signed", "waiting", "returned"
  req,        \* its request
  ts,         \* its timestamp
  deadline,   \* the time its timer fires
  queue,      \* calls in the pipe to the daemon
  busy,       \* the call the daemon's thread works on
  until,      \* the time its sleep is over
  code,       \* the code of the answer to each call
  inbox,      \* answers in the pipe to the client, with their timestamps
  outcome,    \* "none", "answer" or "timeout"
  back,       \* history: by how much the wall clock has been set back
  signed,     \* history: the time it was signed
  acted,      \* history: the time its handler was called
  judged,     \* history: the time it was dispatched
  answered,   \* history: the time its answer was written
  expired,    \* history: the time its timer fired
  prompt      \* history: time has passed only while all were idle or asleep,
              \* and the wall clock has not been adjusted

client  == <<phase, req, ts, deadline, outcome>>
server  == <<busy, until, code>>
clock   == <<now, wall, adjusted, back, prompt>>
history == <<signed, acted, judged, answered, expired>>
vars == <<clock, client, queue, server, inbox, history>>

Times == 0 .. MaxTime

TypeOK ==
  /\ now \in Times
  /\ wall \in Nat /\ back \in Nat /\ adjusted \in 0 .. MaxAdjusted
  /\ phase \in [Calls -> {"idle", "signed", "waiting", "returned"}]
  /\ req \in [Calls -> Requests \cup {None}]
  /\ ts \in [Calls -> Nat \cup {None}]
  /\ deadline \in [Calls -> Nat \cup {None}]
  /\ queue \in Seq(Calls)
  /\ busy \in Calls \cup {None}
  /\ until \in Nat
  /\ code \in [Calls -> Codes \cup {None}]
  /\ inbox \in Seq([call : Calls, ts : Nat])
  /\ outcome \in [Calls -> {"none", "answer", "timeout"}]
  /\ signed \in [Calls -> Times \cup {None}]
  /\ acted \in [Calls -> Times \cup {None}]
  /\ judged \in [Calls -> Times \cup {None}]
  /\ answered \in [Calls -> Times \cup {None}]
  /\ expired \in [Calls -> Times \cup {None}]
  /\ prompt \in BOOLEAN
  /\ \A k \in Calls : phase[k] = "idle" <=> req[k] = None
  /\ \A k \in Calls : phase[k] = "idle" <=> ts[k] = None
  /\ \A k \in Calls : phase[k] = "idle" <=> signed[k] = None

Init ==
  /\ now = 0
  /\ wall = Epoch /\ adjusted = 0 /\ back = 0
  /\ phase = [k \in Calls |-> "idle"]
  /\ req = [k \in Calls |-> None]
  /\ ts = [k \in Calls |-> None]
  /\ deadline = [k \in Calls |-> None]
  /\ queue = <<>>
  /\ busy = None
  /\ until = 0
  /\ code = [k \in Calls |-> None]
  /\ inbox = <<>>
  /\ outcome = [k \in Calls |-> "none"]
  /\ signed = [k \in Calls |-> None]
  /\ acted = [k \in Calls |-> None]
  /\ judged = [k \in Calls |-> None]
  /\ answered = [k \in Calls |-> None]
  /\ expired = [k \in Calls |-> None]
  /\ prompt = TRUE

-----------------------------------------------------------------------------
(* The client.                                                             *)

(* A faulty variant: a request without _ts.                                *)
SignUntimed(k, r) ==
  /\ phase[k] = "idle"
  /\ phase' = [phase EXCEPT ![k] = "signed"]
  /\ req' = [req EXCEPT ![k] = r]
  /\ signed' = [signed EXCEPT ![k] = now]
  /\ UNCHANGED <<clock, ts, deadline, outcome, queue, server, inbox, acted,
                 judged, answered, expired>>

(* CallAsync takes the time and signs; another client may send frames that *)
(* are no request.                                                         *)
Sign(k, r) ==
  /\ phase[k] = "idle"
  /\ phase' = [phase EXCEPT ![k] = "signed"]
  /\ req' = [req EXCEPT ![k] = r]
  /\ ts' = [ts EXCEPT ![k] = wall]
  /\ signed' = [signed EXCEPT ![k] = now]
  /\ UNCHANGED <<clock, deadline, outcome, queue, server, inbox, acted,
                 judged, answered, expired>>

(* The frame is in the pipe, the timer is armed.                           *)
Write(k) ==
  /\ phase[k] = "signed"
  /\ phase' = [phase EXCEPT ![k] = "waiting"]
  /\ deadline' = [deadline EXCEPT ![k] = now + Timeout]
  /\ queue' = Append(queue, k)
  /\ UNCHANGED <<clock, req, ts, outcome, server, inbox, history>>

TimerFires(k) ==
  /\ phase[k] = "waiting"
  /\ now >= deadline[k]
  /\ phase' = [phase EXCEPT ![k] = "returned"]
  /\ outcome' = [outcome EXCEPT ![k] = "timeout"]
  /\ expired' = [expired EXCEPT ![k] = now]
  /\ UNCHANGED <<clock, req, ts, deadline, queue, server, inbox, signed, acted,
                 judged, answered>>

(* The read loop drops an answer that is not signed or too old, and one    *)
(* whose call has timed out.                                               *)
TakeAnswer ==
  /\ inbox # <<>>
  /\ inbox' = Tail(inbox)
  /\ LET k == Head(inbox).call IN
       IF phase[k] = "waiting" /\ Signed(code[k]) /\ TsInWindow(wall, Head(inbox).ts)
       THEN /\ phase' = [phase EXCEPT ![k] = "returned"]
            /\ outcome' = [outcome EXCEPT ![k] = "answer"]
       ELSE UNCHANGED <<phase, outcome>>
  /\ UNCHANGED <<clock, req, ts, deadline, queue, server, history>>

-----------------------------------------------------------------------------
(* The daemon's thread.                                                    *)

(* It reads the oldest request, parses, verifies and dispatches it.        *)
Dispatch(c) ==
  /\ busy = None
  /\ queue # <<>>
  /\ LET k == Head(queue) IN
       /\ c \in ReplyCodes(req[k], ts[k], wall)
       /\ busy' = k
       /\ until' = now + Duration(req[k], ts[k], wall)
       /\ code' = [code EXCEPT ![k] = c]
       /\ acted' = IF Reached(req[k], ts[k], wall)
                   THEN [acted EXCEPT ![k] = now] ELSE acted
       /\ judged' = [judged EXCEPT ![k] = now]
  /\ queue' = Tail(queue)
  /\ UNCHANGED <<clock, client, inbox, signed, answered, expired>>

(* The handler is done: the answer is signed with the time it is now.      *)
Reply ==
  /\ busy # None
  /\ now >= until
  /\ inbox' = Append(inbox, [call |-> busy, ts |-> wall])
  /\ answered' = [answered EXCEPT ![busy] = now]
  /\ busy' = None /\ until' = 0
  /\ UNCHANGED <<clock, client, queue, code, signed, acted, judged, expired>>

-----------------------------------------------------------------------------
(* Time passes, whatever else there is to do: a thread may not be          *)
(* scheduled, and the disk, Windows or the log may be slow.                *)
NothingToDo ==
  /\ inbox = <<>>
  /\ IF busy = None THEN queue = <<>> ELSE now < until
  /\ \A k \in Calls : phase[k] # "signed"
  /\ \A k \in Calls : phase[k] = "waiting" => now < deadline[k]

Tick ==
  /\ now < MaxTime
  /\ now' = now + 1
  /\ wall' = wall + 1
  /\ prompt' = (prompt /\ NothingToDo)
  /\ UNCHANGED <<adjusted, back, client, queue, server, inbox, history>>

(* The user or the time service sets the wall clock.                       *)
Adjust(t) ==
  /\ adjusted < MaxAdjusted
  /\ adjusted' = adjusted + 1
  /\ wall' = t
  /\ back' = back + (IF t < wall THEN wall - t ELSE 0)
  /\ prompt' = FALSE
  /\ UNCHANGED <<now, client, queue, server, inbox, history>>

Next ==
  \/ \E k \in Calls :
       (\E r \in Sent : Sign(k, r)) \/ Write(k) \/ TimerFires(k)
  \/ TakeAnswer
  \/ (\E c \in Codes : Dispatch(c)) \/ Reply
  \/ Tick
  \/ \E t \in Settings : Adjust(t)

Spec == Init /\ [][Next]_vars

-----------------------------------------------------------------------------
(* Properties.                                                             *)

(* No ghosts: a call whose timeout the client has reported is not started  *)
(* afterwards, however long it sat in the pipe, because the daemon refuses *)
(* it then for its age: it can be trusted not to happen late; it may have  *)
(* happened, or be running.  A wall clock that is set back opens the       *)
(* window for exactly as long again, and one that is set forward does not. *)
NoGhostExecution ==
  \A k \in Calls :
    outcome[k] = "timeout" /\ acted[k] # None /\ ~IsAuthFree(req[k])
      => acted[k] <= expired[k] + back

(* If nothing but sleeping takes time, and nobody adjusts the wall clock,  *)
(* a request with a good signature is refused only when it is older than   *)
(* the window, and only because the daemon slept for others all the time   *)
(* since it was signed.                                                    *)
StaleOnlyBehindDelay ==
  prompt =>
    \A k \in Calls :
      code[k] = "AUTH_FAILED" /\ req[k].auth = "good" =>
        /\ judged[k] > signed[k] + Window
        /\ \A t \in signed[k] .. judged[k] - 1 :
             \E j \in Calls \ {k} :
               /\ acted[j] # None /\ acted[j] <= t
               /\ answered[j] = None \/ t < answered[j]
=============================================================================
