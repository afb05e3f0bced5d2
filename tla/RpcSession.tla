----------------------------- MODULE RpcSession -----------------------------
(***************************************************************************)
(* What the pipe server promises to a client, without threads, locks,      *)
(* pipe instances or shutdown: a session serves one client, at most one    *)
(* session is open at a time, a session answers its requests one by one in *)
(* the order they were sent and never more often than it was asked, and a  *)
(* closed session stays closed.  PipeServer implements this specification. *)
(***************************************************************************)
EXTENDS Naturals

CONSTANTS
  Sessions,   \* identities of sessions, each used once
  MaxAsk      \* requests a client sends in one session: bounds the model

VARIABLES
  status,     \* "fresh", "open" or "closed", per session
  asked,      \* requests the client has sent, per session
  answered    \* requests the server has answered, per session

vars == <<status, asked, answered>>

TypeOK ==
  /\ status \in [Sessions -> {"fresh", "open", "closed"}]
  /\ asked \in [Sessions -> 0 .. MaxAsk]
  /\ answered \in [Sessions -> 0 .. MaxAsk]

Init ==
  /\ status = [s \in Sessions |-> "fresh"]
  /\ asked = [s \in Sessions |-> 0]
  /\ answered = [s \in Sessions |-> 0]

(* The server starts to serve a session, when it serves no other.          *)
Open(s) ==
  /\ status[s] = "fresh"
  /\ \A r \in Sessions : status[r] # "open"
  /\ status' = [status EXCEPT ![s] = "open"]
  /\ UNCHANGED <<asked, answered>>

(* A client may send as soon as its pipe is connected, which is before the *)
(* server has taken the session up.                                        *)
Ask(s) ==
  /\ status[s] # "closed"
  /\ asked[s] < MaxAsk
  /\ asked' = [asked EXCEPT ![s] = @ + 1]
  /\ UNCHANGED <<status, answered>>

(* The answer to the oldest request that has none.                         *)
Answer(s) ==
  /\ status[s] = "open"
  /\ answered[s] < asked[s]
  /\ answered' = [answered EXCEPT ![s] = @ + 1]
  /\ UNCHANGED <<status, asked>>

(* The session ends, whatever is still unanswered.                         *)
Close(s) ==
  /\ status[s] = "open"
  /\ status' = [status EXCEPT ![s] = "closed"]
  /\ UNCHANGED <<asked, answered>>

Next == \E s \in Sessions : Open(s) \/ Ask(s) \/ Answer(s) \/ Close(s)

Spec == Init /\ [][Next]_vars
=============================================================================
