------------------------- MODULE Dispatcher_proofs -------------------------
(***************************************************************************)
(* Theorems about Dispatcher, for any number of calls, any requests, any   *)
(* timing, and every window that is not longer than the client's timeout.  *)
(***************************************************************************)
EXTENDS Dispatcher, SequenceTheorems, TLAPS

(* A call in the pipe or at work has been written.                         *)
Written(k) == phase[k] \in {"waiting", "returned"}

InPipe ==
  /\ \A i \in 1 .. Len(queue) : Written(queue[i])
  /\ busy # None => Written(busy)

(* It was signed in the past, and since then the wall clock has advanced   *)
(* as the timers' has, or more, but for what it has been set back.         *)
SignedBefore ==
  \A k \in Calls : phase[k] # "idle" =>
    /\ signed[k] \in Nat /\ signed[k] <= now
    /\ ts[k] \in Nat
    /\ ts[k] + now <= wall + signed[k] + back

(* Its timer runs from its writing.                                        *)
TimerAfterSigning ==
  \A k \in Calls : Written(k) =>
    deadline[k] \in Nat /\ signed[k] + Timeout <= deadline[k]

TimeoutNotEarly ==
  \A k \in Calls : outcome[k] = "timeout" =>
    Written(k) /\ expired[k] \in Nat /\ deadline[k] <= expired[k]

(* Its handler was called within the window of its signing, which is wider *)
(* by what the wall clock has been set back.                               *)
ActedInWindow ==
  \A k \in Calls : acted[k] # None =>
    Written(k) /\ (~IsAuthFree(req[k]) => acted[k] <= signed[k] + Window + back)

Ages == SignedBefore /\ TimerAfterSigning /\ TimeoutNotEarly /\ ActedInWindow

IInv == TypeOK /\ InPipe /\ Ages

LEMMA InitIInv == Init => IInv
BY ConstantsAssumption
   DEF Init, IInv, TypeOK, InPipe, Ages, SignedBefore, TimerAfterSigning,
       TimeoutNotEarly, ActedInWindow, Written, Times, Requests, Codes

-----------------------------------------------------------------------------
(* Facts of TypeOK that the ages rest on.                                  *)
Maps ==
  /\ now \in Nat /\ wall \in Nat /\ back \in Nat
  /\ phase \in [Calls -> {"idle", "signed", "waiting", "returned"}]
  /\ req \in [Calls -> Requests \cup {None}]
  /\ ts \in [Calls -> Nat \cup {None}]
  /\ deadline \in [Calls -> Nat \cup {None}]
  /\ outcome \in [Calls -> {"none", "answer", "timeout"}]
  /\ signed \in [Calls -> Nat \cup {None}]
  /\ acted \in [Calls -> Nat \cup {None}]
  /\ expired \in [Calls -> Nat \cup {None}]

LEMMA TypeMaps == TypeOK => Maps
BY DEF TypeOK, Maps, Times

(* The call that is dispatched.                                            *)
LEMMA HeadOfQueue ==
  ASSUME TypeOK, InPipe, queue # <<>>
  PROVE  /\ Head(queue) \in Calls /\ Written(Head(queue))
         /\ Tail(queue) \in Seq(Calls)
         /\ \A i \in 1 .. Len(Tail(queue)) : Written(Tail(queue)[i])
<1>1. queue \in Seq(Calls) /\ Head(queue) = queue[1] /\ Len(queue) \in Nat /\ Len(queue) > 0
  BY DEF TypeOK
<1>2. /\ Head(queue) \in Calls /\ Tail(queue) \in Seq(Calls)
      /\ Len(Tail(queue)) = Len(queue) - 1
      /\ \A i \in 1 .. Len(Tail(queue)) : Tail(queue)[i] = queue[i + 1]
  BY <1>1, HeadTailProperties
<1> QED BY <1>1, <1>2 DEF InPipe

(* What the daemon's thread does with it.                                  *)
Dispatched(k, c) ==
  /\ busy' = k
  /\ until' = now + Duration(req[k], ts[k], wall)
  /\ code' = [code EXCEPT ![k] = c]
  /\ acted' = IF Reached(req[k], ts[k], wall)
              THEN [acted EXCEPT ![k] = now] ELSE acted
  /\ judged' = [judged EXCEPT ![k] = now]
  /\ queue' \in Seq(Calls)
  /\ UNCHANGED <<clock, client, inbox, signed, answered, expired>>

LEMMA DispatchStep ==
  ASSUME TypeOK, InPipe, NEW c \in Codes, Dispatch(c)
  PROVE  \E k \in Calls : Written(k) /\ Dispatched(k, c)
<1>1. Head(queue) \in Calls /\ Written(Head(queue)) /\ Tail(queue) \in Seq(Calls)
  BY HeadOfQueue DEF Dispatch
<1>2. Dispatched(Head(queue), c)
  BY <1>1 DEF Dispatch, Dispatched
<1> QED BY <1>1, <1>2

(* The answer the read loop takes.                                         *)
LEMMA HeadOfInbox ==
  ASSUME TypeOK, inbox # <<>>
  PROVE  /\ Head(inbox).call \in Calls
         /\ Tail(inbox) \in Seq([call : Calls, ts : Nat])
<1>1. inbox \in Seq([call : Calls, ts : Nat])
  BY DEF TypeOK
<1>2. Head(inbox) \in [call : Calls, ts : Nat]
  BY <1>1, HeadTailProperties
<1> QED BY <1>1, <1>2, HeadTailProperties

(* The read loop either completes one call or drops the answer.            *)
LEMMA TakeAnswerStep ==
  ASSUME TypeOK, TakeAnswer
  PROVE  /\ inbox' \in Seq([call : Calls, ts : Nat])
         /\ UNCHANGED <<clock, req, ts, deadline, queue, server, history>>
         /\ \/ UNCHANGED <<phase, outcome>>
            \/ \E k \in Calls :
                 /\ phase[k] = "waiting"
                 /\ phase' = [phase EXCEPT ![k] = "returned"]
                 /\ outcome' = [outcome EXCEPT ![k] = "answer"]
BY HeadOfInbox DEF TakeAnswer

-----------------------------------------------------------------------------

LEMMA NextTypeOK == ASSUME TypeOK, InPipe, Ages, [Next]_vars PROVE TypeOK'
<1> USE ConstantsAssumption DEF TypeOK, Times, client, server, clock, history
<1>1. ASSUME NEW k \in Calls, NEW r \in Sent, Sign(k, r) PROVE TypeOK'
  BY <1>1 DEF Sign
<1>2. ASSUME NEW k \in Calls, Write(k) PROVE TypeOK'
  <2>1. queue' \in Seq(Calls)
    BY <1>2, AppendProperties DEF Write
  <2> QED BY <1>2, <2>1 DEF Write
<1>3. ASSUME NEW k \in Calls, TimerFires(k) PROVE TypeOK'
  BY <1>3 DEF TimerFires
<1>4. CASE TakeAnswer
  <2>1. /\ inbox' \in Seq([call : Calls, ts : Nat])
        /\ UNCHANGED <<clock, req, ts, deadline, queue, server, history>>
    BY <1>4, TakeAnswerStep
  <2>2. /\ phase' \in [Calls -> {"idle", "signed", "waiting", "returned"}]
        /\ outcome' \in [Calls -> {"none", "answer", "timeout"}]
        /\ \A k \in Calls : phase'[k] = "idle" <=> phase[k] = "idle"
    BY <1>4, TakeAnswerStep
  <2> QED BY <2>1, <2>2
<1>5. ASSUME NEW c \in Codes, Dispatch(c) PROVE TypeOK'
  <2>1. PICK k \in Calls : Written(k) /\ Dispatched(k, c)
    BY <1>5, DispatchStep
  <2>2. req[k] \in Requests
    BY <2>1 DEF Written
  <2>3. Duration(req[k], ts[k], wall) \in Nat
    BY <2>2 DEF Duration, Reached, Requests, Plain, Toasts
  <2>4. until' \in Nat
    BY <2>1, <2>3 DEF Dispatched
  <2> QED BY <2>1, <2>4 DEF Dispatched
<1>6. CASE Reply
  <2>1. inbox' \in Seq([call : Calls, ts : Nat])
    <3>1. [call |-> busy, ts |-> wall] \in [call : Calls, ts : Nat]
      BY <1>6 DEF Reply
    <3> QED BY <1>6, <3>1, AppendProperties DEF Reply
  <2>2. /\ answered' \in [Calls -> Times \cup {None}]
        /\ busy' \in Calls \cup {None}
        /\ until' \in Nat
        /\ UNCHANGED <<clock, client, queue, code, signed, acted, judged, expired>>
    BY <1>6 DEF Reply
  <2> QED BY <2>1, <2>2
<1>7. CASE Tick
  BY <1>7 DEF Tick
<1>8. ASSUME NEW t \in Settings, Adjust(t) PROVE TypeOK'
  <2>1. wall' \in Nat /\ back' \in Nat /\ adjusted' \in 0 .. MaxAdjusted
    <3>1. t \in Nat /\ wall \in Nat /\ back \in Nat
      OBVIOUS
    <3>2. back' = back + (IF t < wall THEN wall - t ELSE 0)
      BY <1>8 DEF Adjust
    <3>3. back' \in Nat
      BY ONLY <3>1, <3>2
    <3>4. wall' \in Nat /\ adjusted' \in 0 .. MaxAdjusted
      BY <1>8, <3>1 DEF Adjust
    <3> QED BY <3>3, <3>4
  <2> QED BY <1>8, <2>1 DEF Adjust
<1>9. CASE UNCHANGED vars
  BY <1>9 DEF vars
<1> QED BY <1>1, <1>2, <1>3, <1>4, <1>5, <1>6, <1>7, <1>8, <1>9 DEF Next

LEMMA NextInPipe == ASSUME TypeOK, InPipe, [Next]_vars PROVE InPipe'
<1>1. /\ phase \in [Calls -> {"idle", "signed", "waiting", "returned"}]
      /\ queue \in Seq(Calls) /\ busy \in Calls \cup {None}
  BY DEF TypeOK
<1>2. ASSUME UNCHANGED <<queue, busy>>, \A k \in Calls : Written(k) => Written(k)'
      PROVE  InPipe'
  BY <1>1, <1>2 DEF InPipe
<1>3. ASSUME NEW k \in Calls, Write(k) PROVE InPipe'
  <2>1. /\ Len(queue') = Len(queue) + 1
        /\ \A i \in 1 .. Len(queue) : queue'[i] = queue[i]
        /\ queue'[Len(queue) + 1] = k
    BY <1>1, <1>3, AppendProperties DEF Write
  <2>2. Len(queue) \in Nat /\ \A i \in 1 .. Len(queue) : queue[i] \in Calls
    BY <1>1
  <2>3. Written(k)' /\ \A j \in Calls : Written(j) => Written(j)'
    BY <1>1, <1>3 DEF Write, Written
  <2> QED BY <1>3, <1>1, <2>1, <2>2, <2>3 DEF InPipe, Write, server, Written
<1>4. ASSUME NEW c \in Codes, Dispatch(c) PROVE InPipe'
  <2>1. UNCHANGED phase /\ queue' = Tail(queue) /\ busy' = Head(queue) /\ queue # <<>>
    BY <1>4 DEF Dispatch, client
  <2> QED BY <2>1, HeadOfQueue DEF InPipe, Written
<1>5. CASE Reply
  BY <1>5 DEF Reply, InPipe, Written, client
<1>6. ASSUME NEW k \in Calls, NEW r \in Sent, Sign(k, r) PROVE InPipe'
  BY <1>1, <1>2, <1>6 DEF Sign, Written, server
<1>7. ASSUME NEW k \in Calls, TimerFires(k) PROVE InPipe'
  BY <1>1, <1>2, <1>7 DEF TimerFires, Written, server
<1>8. CASE TakeAnswer
  BY <1>1, <1>2, <1>8, TakeAnswerStep DEF Written, server
<1>9. CASE Tick \/ UNCHANGED vars
  BY <1>1, <1>2, <1>9 DEF Tick, vars, Written, client, server
<1>10. ASSUME NEW t \in Settings, Adjust(t) PROVE InPipe'
  BY <1>1, <1>2, <1>10 DEF Adjust, Written, client, server
<1> QED BY <1>3, <1>4, <1>5, <1>6, <1>7, <1>8, <1>9, <1>10 DEF Next

LEMMA NextAges == ASSUME TypeOK, InPipe, Ages, [Next]_vars PROVE Ages'
<1> USE ConstantsAssumption
    DEF Maps, Ages, SignedBefore, TimerAfterSigning, TimeoutNotEarly,
        ActedInWindow, Written, client, server, clock, history
<1>1. Maps
  BY TypeMaps
<1>2. ASSUME NEW k \in Calls, NEW r \in Sent, Sign(k, r) PROVE Ages'
  BY <1>1, <1>2 DEF Sign
<1>3. ASSUME NEW k \in Calls, Write(k) PROVE Ages'
  BY <1>1, <1>3 DEF Write
<1>4. ASSUME NEW k \in Calls, TimerFires(k) PROVE Ages'
  BY <1>1, <1>4 DEF TimerFires
<1>5. CASE TakeAnswer
  <2>1. UNCHANGED <<now, wall, back, req, ts, deadline, signed, acted, expired>>
    BY <1>5 DEF TakeAnswer
  <2>2. \/ UNCHANGED <<phase, outcome>>
        \/ \E k \in Calls :
             /\ phase[k] = "waiting"
             /\ phase' = [phase EXCEPT ![k] = "returned"]
             /\ outcome' = [outcome EXCEPT ![k] = "answer"]
    BY <1>5, TakeAnswerStep
  <2> QED BY <1>1, <2>1, <2>2
<1>6. ASSUME NEW c \in Codes, Dispatch(c) PROVE Ages'
  <2>1. PICK k \in Calls : Written(k) /\ Dispatched(k, c)
    BY <1>6, DispatchStep
  <2>2. Reached(req[k], ts[k], wall) /\ ~IsAuthFree(req[k]) => wall <= ts[k] + Window
    BY DEF Reached, AuthErrors, TsInWindow
  <2>3. UNCHANGED <<now, wall, back, phase, req, ts, deadline, outcome, signed, expired>>
    BY <2>1 DEF Dispatched
  <2>4. SignedBefore' /\ TimerAfterSigning' /\ TimeoutNotEarly'
    BY <2>3
  <2>5. \A j \in Calls : acted'[j] # None =>
          \/ acted'[j] = acted[j]
          \/ j = k /\ acted'[j] = now /\ Reached(req[k], ts[k], wall)
    BY <1>1, <2>1 DEF Dispatched
  <2>6. ~IsAuthFree(req[k]) /\ Reached(req[k], ts[k], wall) => now <= signed[k] + Window + back
    <3>1. /\ ts[k] + now <= wall + signed[k] + back
          /\ ts[k] \in Nat /\ signed[k] \in Nat
      BY <2>1
    <3> QED BY ONLY <1>1, <2>2, <3>1, ConstantsAssumption DEF Maps
  <2>7. ActedInWindow'
    BY <2>1, <2>3, <2>5, <2>6
  <2> QED BY <2>4, <2>7
<1>7. CASE Reply
  BY <1>1, <1>7 DEF Reply
<1>8. CASE Tick
  BY <1>1, <1>8 DEF Tick
<1>9. ASSUME NEW t \in Settings, Adjust(t) PROVE Ages'
  BY <1>1, <1>9 DEF Adjust
<1>10. CASE UNCHANGED vars
  BY <1>1, <1>10 DEF vars
<1> QED BY <1>2, <1>3, <1>4, <1>5, <1>6, <1>7, <1>8, <1>9, <1>10 DEF Next

(* A request that is in the pipe or further has been signed and written,   *)
(* and the ages of its signature, its timer and its execution are as the   *)
(* code leaves them.                                                       *)
THEOREM InductiveInvariant == Spec => []IInv
BY InitIInv, NextTypeOK, NextInPipe, NextAges, PTL DEF Spec, IInv

(* The variables of the client, the pipe and the daemon keep their types.  *)
THEOREM TypeCorrect == Spec => []TypeOK
BY InductiveInvariant, PTL DEF IInv

(* No handler is called after the client has reported the call's timeout:  *)
(* the window of the daemon is not longer than the timeout of the client,  *)
(* and starts earlier.  A wall clock that is set back widens it by as much *)
(* as it is set back; set forward, it may only narrow it.                  *)
THEOREM NoGhosts == Spec => []NoGhostExecution
<1>1. IInv => NoGhostExecution
  <2> SUFFICES ASSUME IInv, NEW k \in Calls,
                      outcome[k] = "timeout", acted[k] # None, ~IsAuthFree(req[k])
               PROVE  acted[k] <= expired[k] + back
    BY DEF NoGhostExecution
  <2>1. Written(k) /\ acted[k] <= signed[k] + Window + back
    BY DEF IInv, Ages, ActedInWindow
  <2>2. /\ signed[k] + Timeout <= deadline[k] /\ deadline[k] <= expired[k]
        /\ deadline[k] \in Nat /\ expired[k] \in Nat
    BY <2>1 DEF IInv, Ages, TimerAfterSigning, TimeoutNotEarly
  <2>3. signed[k] \in Nat /\ acted[k] \in Nat /\ back \in Nat
    BY <2>1, TypeMaps DEF IInv, Ages, SignedBefore, Written, Maps
  <2> QED BY <2>1, <2>2, <2>3, ConstantsAssumption
<1> QED BY <1>1, InductiveInvariant, PTL
=============================================================================
