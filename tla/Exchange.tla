------------------------------ MODULE Exchange ------------------------------
(***************************************************************************)
(* Calls end to end: the client signs a request and writes its frame, the  *)
(* daemon reads it in pieces, verifies it, runs its handler, signs and     *)
(* writes the answer, and the client reads, verifies and takes it.  What   *)
(* is put together here: two directions of Framing, the canonical forms of *)
(* CanonicalJson, and the handlers of Toast.  Calls overlap, so a pipe may *)
(* hold frames behind each other, and the timer of a call fires whatever   *)
(* is in flight.  RpcClient has the frames of calls that are written at    *)
(* once; Dispatcher has how old a request may be.                          *)
(***************************************************************************)
EXTENDS Toast

CONSTANTS
  Base, MaxPayload,               \* see Framing
  Requests,                       \* the calls the application may make
  MaxCalls                        \* bounds the model

(* Lengths are numbers of HeaderSize bytes, and so is the limit; a request *)
(* without bytes does not parse; texts are made of characters.             *)
ASSUME ExchangeAssumption ==
  /\ Base \in Nat \ {0}
  /\ MaxPayload \in Nat \ {0} /\ MaxPayload < Base * (Base * (Base * Base))
  /\ MaxCalls \in Nat
  /\ \A r \in Requests :
       /\ r.size \in Nat /\ r.size < Base * (Base * (Base * Base))
       /\ r.size = 0 => r.method = "malformed"
       /\ r.signer \in Styles
       /\ Texts(r.params) \subseteq Seq(Characters)

VARIABLES
  calls,      \* the calls so far and how they returned
  up, upGot,  \* the pipe to the daemon, and what the daemon has of a frame
  down, downGot,
  session,    \* "open", "ended" by the daemon, or "lost" with one of the ends
  replies,    \* history: what the daemon has worked on, and its answers
  heard,      \* history: the messages the read loop has taken
  effects     \* history: calls that changed what is shown

vars == <<calls, up, upGot, down, downGot, session, replies, heard, effects, shown>>

Up   == INSTANCE Framing WITH stream <- up, got <- upGot, Reader <- "daemon"
Down == INSTANCE Framing WITH stream <- down, got <- downGot, Reader <- "client"

Outcomes == {"waiting", "result", "error", "timeout", "broken"}

TypeOK ==
  /\ calls \in Seq([req : Requests, outcome : Outcomes]) /\ Len(calls) <= MaxCalls
  /\ session \in {"open", "ended", "lost"}
  /\ \A i \in DOMAIN replies : replies[i].kind \in {"result", "error", "auth", "stale", "parse"}
  /\ effects \subseteq DOMAIN calls
  /\ session # "open" => Up!Idle /\ Down!Idle

Init ==
  /\ calls = <<>>
  /\ up = <<>> /\ upGot = <<>>
  /\ down = <<>> /\ downGot = <<>>
  /\ session = "open"
  /\ replies = <<>> /\ heard = <<>>
  /\ effects = {}
  /\ shown = <<>>

-----------------------------------------------------------------------------
(* The client.                                                             *)

Return(k, outcome) == calls' = [calls EXCEPT ![k].outcome = outcome]

(* CallAsync: the frame is written whatever its size.                      *)
Call(r) ==
  /\ Len(calls) < MaxCalls
  /\ IF session = "open"
     THEN /\ calls' = Append(calls, [req |-> r, outcome |-> "waiting"])
          /\ Up!Write(Len(calls) + 1, r.size)
     ELSE /\ calls' = Append(calls, [req |-> r, outcome |-> "broken"])
          /\ UNCHANGED <<up, upGot>>
  /\ UNCHANGED <<down, downGot, session, replies, heard, effects, shown>>

ReadDown(n) ==
  /\ Down!ReadSome(n)
  /\ UNCHANGED <<calls, up, upGot, session, replies, heard, effects, shown>>

(* VerifyResponseHmac, but for the age: the answer to what does not parse  *)
(* is not signed.  An answer is older than 30 s only when the timer of its *)
(* call is over, too, or when the wall clock has been set: see Dispatcher. *)
Verifies(reply) ==
  reply.kind # "parse" /\ Agrees("rust", "net", "rust", reply.content)

(* The answers that the message may be and that a call waits for.          *)
Awaited ==
  {i \in DOMAIN replies :
     /\ Down!Message = Down!Payload(i, replies[i].size)
     /\ Verifies(replies[i])
     /\ calls[replies[i].to].outcome = "waiting"}

(* Any other message is dropped.                                           *)
Receive ==
  /\ Down!Take
  /\ heard' = Append(heard, Down!Message)
  /\ \/ \E i \in Awaited :
          Return(replies[i].to, IF replies[i].kind = "result" THEN "result" ELSE "error")
     \/ Awaited = {} /\ UNCHANGED calls
  /\ UNCHANGED <<up, upGot, session, replies, effects, shown>>

(* CancelAfter: the 30 s are over, wherever request and answer are.        *)
Timer ==
  /\ \E k \in DOMAIN calls : calls[k].outcome = "waiting" /\ Return(k, "timeout")
  /\ UNCHANGED <<up, upGot, down, downGot, session, replies, heard, effects, shown>>

-----------------------------------------------------------------------------
(* The daemon: handle_requests.                                            *)

ReadUp(n) ==
  /\ Up!ReadSome(n)
  /\ UNCHANGED <<calls, down, downGot, session, replies, heard, effects, shown>>

(* Faulty: nobody disconnects.                                             *)
HangUpConnected(how) ==
  /\ session' = how
  /\ UNCHANGED <<up, upGot, down, downGot>>

(* handle_requests returns and the instance is disconnected, which         *)
(* discards what is in it.                                                 *)
HangUp(how) ==
  /\ session' = how
  /\ up' = <<>> /\ upGot' = <<>>
  /\ down' = <<>> /\ downGot' = <<>>

RefuseFrame ==
  /\ Up!Refused
  /\ HangUp("ended")
  /\ UNCHANGED <<calls, replies, heard, effects, shown>>

(* Answers: what is signed, and how many bytes the frame has.              *)
Result(v) == [kind |-> "result", content |-> v, size |-> 1]
ErrorObject(m) == Object([code |-> Number("whole"), message |-> Text(m)])
Refusal(kind, m, size) == [kind |-> kind, content |-> ErrorObject(m), size |-> size]

(* Faulty: the handler hands the parameters back.                          *)
HandleResultEcho(r, outcome) ==
  IF outcome.ok THEN Result(r.params) ELSE Refusal("error", outcome.message, 1)

HandleResult(r, outcome) ==
  IF outcome.ok THEN Result(Object([ok |-> True]))
  ELSE Refusal("error", outcome.message, 1)

(* What a handler of toast/ may come to.                                   *)
HandlerOutcomes ==
  {Ok} \cup {Err(m) : m \in WindowsTexts}
    \cup {Err(<<"letter">>), Err(<<"letter", "grave">>), Err(<<"letter", "apos">>)}

(* verify_request_hmac, but for the age.                                   *)
Authentic(r) ==
  r.method = "system/ping" \/ Agrees(r.signer, "rust", r.signer, r.params)

(* dispatch: a request of more than 30 s is refused like a forgery; the    *)
(* handlers of smtc/ and update/ log and return null, those of toast/ end  *)
(* in `outcome'.  An unknown method is named in the answer, which is       *)
(* longer than the request for it.  What does not parse is answered by     *)
(* handle_requests itself, unsigned.                                       *)
Answer(r, stale, outcome) ==
  IF r.method = "malformed" THEN Refusal("parse", <<"letter">>, 1)
  ELSE IF ~Authentic(r) THEN Refusal("auth", <<"letter">>, 1)
  ELSE IF stale /\ r.method # "system/ping" THEN Refusal("stale", <<"letter">>, 1)
  ELSE CASE r.method = "system/ping" -> Result(Text(<<"letter">>))
         [] r.method = "smtc/setTimeline" -> Result(Null)
         [] r.method = "unknown" -> Refusal("error", r.name, r.size + 1)
         [] OTHER -> HandleResult(r, outcome)

Handler(r, stale, outcome) ==
  IF r.method \in {"toast/show", "toast/clear"} /\ Authentic(r) /\ ~stale
  THEN \/ r.method = "toast/show" /\ HandleToastShow(r.params, outcome)
       \/ r.method = "toast/clear" /\ HandleToastClear(r.params, outcome)
  ELSE outcome = Ok /\ UNCHANGED shown

(* The request whose bytes have been read; bytes of none do not parse.     *)
Asked ==
  {k \in DOMAIN calls : calls[k].req.size > 0 /\ Up!Message = Up!Payload(k, calls[k].req.size)}

Garbage == [method |-> "malformed", size |-> 0]

Handle ==
  /\ session = "open"
  /\ Up!Complete
  /\ \E stale \in BOOLEAN, outcome \in HandlerOutcomes :
       LET k == IF Asked = {} THEN 0 ELSE CHOOSE j \in Asked : TRUE
           r == IF k = 0 THEN Garbage ELSE calls[k].req
           reply == Answer(r, stale, outcome)
       IN  /\ Handler(r, stale, outcome)
           /\ replies' = Append(replies, [to |-> k, bytes |-> Up!Message, kind |-> reply.kind,
                                          content |-> reply.content, size |-> reply.size])
           /\ effects' = IF shown' # shown THEN effects \cup {k} ELSE effects
           /\ IF Up!Fits(reply.size)
              THEN /\ Up!Take
                   /\ Down!Write(Len(replies) + 1, reply.size)
                   /\ UNCHANGED session
              ELSE HangUp("ended")
  /\ UNCHANGED <<calls, heard>>

(* One of the ends dies, or the connection breaks.                         *)
Lose ==
  /\ session = "open"
  /\ HangUp("lost")
  /\ UNCHANGED <<calls, replies, heard, effects, shown>>

(* The user dismisses the toasts, or they expire.                          *)
Dismiss ==
  /\ ClearAll
  /\ UNCHANGED <<calls, up, upGot, down, downGot, session, replies, heard, effects>>

-----------------------------------------------------------------------------

Next ==
  \/ \E r \in Requests : Call(r)
  \/ \E n \in 1 .. Up!HeaderSize + MaxPayload : ReadUp(n) \/ ReadDown(n)
  \/ RefuseFrame \/ Handle
  \/ Receive \/ Timer
  \/ Lose \/ Dismiss

Spec == Init /\ [][Next]_vars

-----------------------------------------------------------------------------
(* Properties.                                                             *)

(* However the two pipes cut the frames, and however many are in them: the *)
(* n-th message the daemon works on is the n-th request, whole, and the    *)
(* n-th message the client takes is the daemon's n-th answer, whole, which *)
(* its own limits never refuse.                                            *)
FramesIntact ==
  /\ \A i \in DOMAIN replies : replies[i].bytes = Up!Payload(i, calls[i].req.size)
  /\ \A i \in DOMAIN heard : heard[i] = Down!Payload(i, replies[i].size)
  /\ ~Down!Refused

(* The read loop has taken the answer to a call and dropped it: the call   *)
(* can only time out.                                                      *)
LeftToTimer(k) ==
  calls[k].outcome = "waiting" /\ session = "open" /\ k \in DOMAIN heard

(* Of a call that had an effect nobody is told an error, and its answer is *)
(* never dropped as one that does not verify while the caller waits.  Who  *)
(* is told of a timeout, or of a lost session, knows nothing: the toast    *)
(* may be on the screen.  It holds only because the answer to a success    *)
(* repeats nothing of what was asked, and so verifies whatever the         *)
(* canonical forms make of the request.                                    *)
EffectsReported ==
  \A k \in effects : calls[k].outcome # "error" /\ ~LeftToTimer(k)

(* Through both escapings, every toast on the screen reads as some call    *)
(* asked (but for newlines in buttons), and of one tag only the last is    *)
(* there.                                                                  *)
AsAsked(toast) ==
  \E k \in effects :
    /\ calls[k].req.method = "toast/show"
    /\ ToastOf(calls[k].req.params).tag = toast.tag
    /\ FaceOf(calls[k].req.params) = toast.face
    /\ toast.tag # <<>> =>
         \A j \in effects : j > k => ToastOf(calls[j].req.params).tag # toast.tag

ShownAsAsked == \A toast \in ToSet(shown) : AsAsked(toast)

(* A plain request is never refused as a forgery, and the client drops the *)
(* answer a caller waits for only when that was no request at all, or when *)
(* the answer is an error whose text is not plain.                         *)
PlainCallsAnswered ==
  \A i \in DOMAIN replies :
    /\ PlainValue(calls[i].req.params) => replies[i].kind # "auth"
    /\ LeftToTimer(i) => replies[i].kind = "parse" \/ ~PlainValue(replies[i].content)

(* DaemonRpcClient.cs:180: the client's form "must match Rust's            *)
(* canonical_json() exactly".                                              *)
FormsAgree ==
  \A i \in DOMAIN replies :
    replies[i].kind # "auth" /\ Agrees("rust", "net", "rust", replies[i].content)

(* manager.rs:91: "Clear a toast by tag."                                  *)
ClearRemoves ==
  [][\A i \in DOMAIN replies' \ DOMAIN replies :
       replies'[i].kind = "result" /\ calls[replies'[i].to].req.method = "toast/clear"
         => \A n \in DOMAIN shown' :
              shown'[n].tag # Field(calls[replies'[i].to].req.params, "tag")]_vars
=============================================================================
