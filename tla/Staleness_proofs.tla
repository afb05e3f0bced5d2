--------------------------- MODULE Staleness_proofs ---------------------------
(***************************************************************************)
(* Dispatcher again: when a request grows old without anybody's fault.  If *)
(* only sleeping takes time, whatever waits in the pipe waits behind a     *)
(* sleep, at any time since it was signed.                                 *)
(***************************************************************************)
EXTENDS Dispatcher_proofs

Waits(k) == \E i \in 1 .. Len(queue) : queue[i] = k

(* A call is in the pipe once, and only until it is judged; the call at    *)
(* work has been judged and not answered, and if the thread sleeps, then   *)
(* in its handler.                                                         *)
Once == \A i, j \in 1 .. Len(queue) : queue[i] = queue[j] => i = j

Orderly ==
  /\ Once
  /\ \A k \in Calls : Waits(k) => judged[k] = None
  /\ \A k \in Calls : judged[k] = None =>
       acted[k] = None /\ answered[k] = None /\ code[k] = None
  /\ \A k \in Calls : judged[k] # None => Written(k) /\ judged[k] <= now
  /\ busy # None =>
       /\ judged[busy] # None /\ answered[busy] = None
       /\ now < until => acted[busy] # None
  /\ \A k \in Calls : acted[k] # None => acted[k] <= now

(* At time t the daemon sleeps for another call.                           *)
Covered(k, t) ==
  \E j \in Calls \ {k} :
    /\ acted[j] # None /\ acted[j] <= t
    /\ answered[j] = None \/ t < answered[j]

(* While the system is prompt its clocks run together, what is signed is   *)
(* written at once, and what waits, or has waited, waits behind a sleep.   *)
InStep ==
  /\ wall = now + Epoch
  /\ \A k \in Calls : phase[k] # "idle" => ts[k] = signed[k] + Epoch
  /\ \A k \in Calls : phase[k] = "signed" => signed[k] = now

WaitsBehindSleep ==
  \A k \in Calls : \A t \in Nat :
    /\ Waits(k) => (signed[k] <= t /\ t < now => Covered(k, t))
    /\ judged[k] # None => (signed[k] <= t /\ t < judged[k] => Covered(k, t))

RefusedForAge ==
  \A k \in Calls : code[k] = "AUTH_FAILED" /\ req[k].auth = "good" =>
    judged[k] > signed[k] + Window

Prompt == prompt => InStep /\ WaitsBehindSleep /\ RefusedForAge

SInv == IInv /\ Orderly /\ Prompt

-----------------------------------------------------------------------------
(* Facts of TypeOK.                                                        *)
Typed ==
  /\ Maps
  /\ judged \in [Calls -> Nat \cup {None}]
  /\ answered \in [Calls -> Nat \cup {None}]
  /\ code \in [Calls -> Codes \cup {None}]
  /\ queue \in Seq(Calls)
  /\ busy \in Calls \cup {None} /\ until \in Nat
  /\ None \notin Calls /\ None \notin Nat /\ None \notin Codes

LEMMA TypeTyped == TypeOK => Typed
BY TypeMaps, ConstantsAssumption DEF TypeOK, Typed, Times

LEMMA WaitingIsWritten ==
  ASSUME InPipe, NEW k \in Calls, Waits(k)
  PROVE  Written(k)
BY DEF InPipe, Waits

LEMMA Enqueued ==
  ASSUME queue \in Seq(Calls), Once, NEW k \in Calls, ~Waits(k), queue' = Append(queue, k)
  PROVE  Once' /\ \A j \in Calls : Waits(j)' <=> Waits(j) \/ j = k
<1>1. /\ Len(queue') = Len(queue) + 1 /\ Len(queue) \in Nat
      /\ \A i \in 1 .. Len(queue) : queue'[i] = queue[i]
      /\ queue'[Len(queue) + 1] = k
  BY AppendProperties
<1>2. Once'
  BY <1>1 DEF Once, Waits
<1>3. \A j \in Calls : Waits(j)' <=> Waits(j) \/ j = k
  BY <1>1 DEF Waits
<1> QED BY <1>2, <1>3

LEMMA Dequeued ==
  ASSUME queue \in Seq(Calls), Once, queue # <<>>, queue' = Tail(queue)
  PROVE  /\ Head(queue) \in Calls /\ Waits(Head(queue)) /\ Once'
         /\ \A j \in Calls : Waits(j)' <=> Waits(j) /\ j # Head(queue)
<1>1. /\ Len(queue) \in Nat /\ Len(queue) >= 1 /\ Len(queue') = Len(queue) - 1
      /\ Head(queue) = queue[1] /\ Head(queue) \in Calls
      /\ \A i \in 1 .. Len(queue') : queue'[i] = queue[i + 1]
  BY HeadTailProperties
<1>2. Waits(Head(queue))
  BY <1>1 DEF Waits
<1>3. Once'
  <2> SUFFICES ASSUME NEW i \in 1 .. Len(queue'), NEW j \in 1 .. Len(queue'),
                      queue'[i] = queue'[j]
               PROVE  i = j
    BY DEF Once
  <2>1. i + 1 \in 1 .. Len(queue) /\ j + 1 \in 1 .. Len(queue)
    BY <1>1
  <2>2. i + 1 = j + 1
    BY <1>1, <2>1 DEF Once
  <2> QED BY <1>1, <2>2
<1>4. ASSUME NEW j \in Calls, Waits(j)' PROVE Waits(j) /\ j # Head(queue)
  <2>1. PICK i \in 1 .. Len(queue') : queue'[i] = j
    BY <1>4 DEF Waits
  <2>2. i + 1 \in 1 .. Len(queue) /\ queue[i + 1] = j /\ 1 \in 1 .. Len(queue)
    BY <1>1, <2>1
  <2>3. i + 1 # 1
    BY <1>1
  <2> QED BY <1>1, <2>2, <2>3 DEF Once, Waits
<1>5. ASSUME NEW j \in Calls, Waits(j), j # Head(queue) PROVE Waits(j)'
  <2>1. PICK i \in 1 .. Len(queue) : queue[i] = j
    BY <1>5 DEF Waits
  <2>2. i - 1 \in 1 .. Len(queue') /\ queue'[i - 1] = queue[i]
    BY <1>1, <1>5, <2>1
  <2> QED BY <2>1, <2>2 DEF Waits
<1> QED BY <1>1, <1>2, <1>3, <1>4, <1>5

(* What Dispatch does with the head of the queue.                          *)
LEMMA Judged ==
  ASSUME TypeOK, Once, NEW c \in Codes, Dispatch(c)
  PROVE  /\ queue # <<>> /\ queue' = Tail(queue)
         /\ Dispatched(Head(queue), c)
         /\ c \in ReplyCodes(req[Head(queue)], ts[Head(queue)], wall)
<1>1. queue \in Seq(Calls) /\ queue # <<>> /\ queue' = Tail(queue)
  BY DEF Dispatch, TypeOK
<1>2. queue' \in Seq(Calls)
  BY <1>1, HeadTailProperties
<1> QED BY <1>1, <1>2 DEF Dispatch, Dispatched

-----------------------------------------------------------------------------

LEMMA InitSInv == Init => SInv
<1> SUFFICES ASSUME Init PROVE SInv
  OBVIOUS
<1>1. Len(queue) = 0
  BY DEF Init
<1>2. Orderly
  BY <1>1 DEF Init, Orderly, Once, Waits
<1>3. Prompt
  <2>1. InStep
    BY ConstantsAssumption DEF Init, InStep
  <2>2. WaitsBehindSleep
    BY <1>1 DEF Init, WaitsBehindSleep, Waits
  <2>3. RefusedForAge
    BY ConstantsAssumption DEF Init, RefusedForAge, Codes
  <2> QED BY <2>1, <2>2, <2>3 DEF Prompt
<1> QED BY InitIInv, <1>2, <1>3 DEF SInv

LEMMA OrderlyStep ==
  ASSUME IInv, Orderly, [Next]_vars
  PROVE  Orderly'
<1> USE DEF client, server, clock, history
<1>0. TypeOK /\ Typed /\ InPipe
  BY TypeTyped DEF IInv
<1>a. ASSUME UNCHANGED <<queue, busy, until, code, acted, judged, answered>>,
             now' \in Nat, now <= now',
             \A k \in Calls : Written(k) => Written(k)'
      PROVE  Orderly'
  <2>1. now \in Nat /\ until \in Nat /\ \A k \in Calls :
          /\ judged[k] # None => judged[k] \in Nat
          /\ acted[k] # None => acted[k] \in Nat
    BY <1>0 DEF Typed, Maps
  <2>2. now' < until => now < until
    BY <1>a, <2>1
  <2>3. \A k \in Calls :
          /\ judged[k] # None => judged[k] <= now'
          /\ acted[k] # None => acted[k] <= now'
    BY <1>a, <2>1 DEF Orderly
  <2>4. Once' /\ \A k \in Calls : Waits(k)' <=> Waits(k)
    BY <1>a DEF Orderly, Once, Waits
  <2> QED BY <1>a, <2>2, <2>3, <2>4 DEF Orderly
<1>1. ASSUME NEW k \in Calls, NEW r \in Sent, Sign(k, r) PROVE Orderly'
  BY <1>0, <1>a, <1>1 DEF Sign, Written, Typed, Maps
<1>2. ASSUME NEW k \in Calls, Write(k) PROVE Orderly'
  <2>1. ~Written(k) /\ queue' = Append(queue, k) /\ queue \in Seq(Calls)
    BY <1>0, <1>2 DEF Write, Written, Typed
  <2>2. Once' /\ \A j \in Calls : Waits(j)' <=> Waits(j) \/ j = k
    BY <1>0, <2>1, WaitingIsWritten, Enqueued DEF Orderly
  <2>3. \A j \in Calls : Written(j) => Written(j)'
    BY <1>0, <1>2 DEF Write, Written, Typed, Maps
  <2>4. UNCHANGED <<now, busy, until, code, acted, judged, answered>>
    BY <1>2 DEF Write
  <2> QED BY <2>1, <2>2, <2>3, <2>4 DEF Orderly
<1>3. ASSUME NEW k \in Calls, TimerFires(k) PROVE Orderly'
  BY <1>0, <1>a, <1>3 DEF TimerFires, Written, Typed, Maps
<1>4. CASE TakeAnswer
  <2>1. \A k \in Calls : Written(k) => Written(k)'
    BY <1>0, <1>4, TakeAnswerStep DEF Written, Typed, Maps
  <2> QED BY <1>0, <1>a, <1>4, <2>1 DEF TakeAnswer, Typed, Maps
<1>5. ASSUME NEW c \in Codes, Dispatch(c) PROVE Orderly'
  <2> DEFINE h == Head(queue)
  <2>1. /\ h \in Calls /\ Waits(h) /\ Once'
        /\ \A j \in Calls : Waits(j)' <=> Waits(j) /\ j # h
        /\ Dispatched(h, c)
    BY <1>0, <1>5, Judged, Dequeued DEF Typed, Orderly
  <2>2. Written(h) /\ judged[h] = None /\ answered[h] = None
    BY <1>0, <2>1, WaitingIsWritten DEF Orderly
  <2>3. /\ \A j \in Calls : j # h => judged'[j] = judged[j] /\ acted'[j] = acted[j]
                                      /\ code'[j] = code[j]
        /\ judged'[h] = now
    BY <1>0, <2>1 DEF Dispatched, Typed, Maps
  <2>4. now \in Nat /\ now # None
    BY <1>0 DEF Typed, Maps
  <2>5. /\ acted'[h] # None => acted'[h] = now
        /\ now < until' => acted'[h] # None
    <3>1. CASE Reached(req[h], ts[h], wall)
      BY <1>0, <2>1, <2>4, <3>1 DEF Dispatched, Typed, Maps
    <3>2. CASE ~Reached(req[h], ts[h], wall)
      BY <1>0, <2>1, <2>2, <2>4, <3>2 DEF Dispatched, Duration, Orderly
    <3> QED BY <3>1, <3>2
  <2>6. UNCHANGED <<now, phase, answered>> /\ busy' = h
    BY <2>1 DEF Dispatched
  <2> QED BY <2>1, <2>2, <2>3, <2>4, <2>5, <2>6 DEF Orderly, Written
<1>6. CASE Reply
  <2>1. /\ UNCHANGED <<now, phase, queue, code, acted, judged>> /\ busy' = None
        /\ busy \in Calls /\ busy # None
        /\ \A k \in Calls : k # busy => answered'[k] = answered[k]
    BY <1>0, <1>6 DEF Reply, Typed
  <2>2. Once' /\ \A k \in Calls : (Waits(k)' <=> Waits(k)) /\ (Written(k)' <=> Written(k))
    BY <2>1 DEF Orderly, Once, Waits, Written
  <2> QED BY <2>1, <2>2 DEF Orderly
<1>7. CASE Tick
  BY <1>0, <1>a, <1>7 DEF Tick, Written, Typed, Maps
<1>8. ASSUME NEW t \in Settings, Adjust(t) PROVE Orderly'
  BY <1>0, <1>a, <1>8 DEF Adjust, Written, Typed, Maps
<1>9. CASE UNCHANGED vars
  BY <1>0, <1>a, <1>9 DEF vars, Written, Typed, Maps
<1> QED BY <1>1, <1>2, <1>3, <1>4, <1>5, <1>6, <1>7, <1>8, <1>9 DEF Next

-----------------------------------------------------------------------------
(* What was covered stays so: a sleep that has begun is not taken back,    *)
(* and ends not before now.                                                *)
LEMMA StaysCovered ==
  ASSUME NEW k \in Calls, NEW t \in Nat, t < now, Covered(k, t), now \in Nat,
         \A j \in Calls : acted[j] # None => acted'[j] = acted[j],
         \A j \in Calls : answered'[j] = answered[j] \/ (answered[j] = None /\ answered'[j] = now)
  PROVE  Covered(k, t)'
BY DEF Covered

LEMMA InStepStep ==
  ASSUME IInv, Prompt, [Next]_vars, prompt'
  PROVE  InStep' /\ prompt
<1> USE DEF client, server, clock, history
<1>0. Typed
  BY TypeTyped DEF IInv
<1>1. prompt
  <2>1. ASSUME NEW k \in Calls, (\E r \in Sent : Sign(k, r)) \/ Write(k) \/ TimerFires(k)
        PROVE  prompt
    BY <2>1 DEF Sign, Write, TimerFires
  <2>2. CASE TakeAnswer \/ (\E c \in Codes : Dispatch(c)) \/ Reply
    BY <2>2 DEF TakeAnswer, Dispatch, Reply
  <2>3. CASE Tick \/ (\E t \in Settings : Adjust(t)) \/ UNCHANGED vars
    BY <2>3 DEF Tick, Adjust, vars
  <2> QED BY <2>1, <2>2, <2>3 DEF Next
<1>2. InStep
  BY <1>1 DEF Prompt
<1>3. ASSUME NEW k \in Calls, NEW r \in Sent, Sign(k, r) PROVE InStep'
  BY <1>0, <1>2, <1>3 DEF Sign, InStep, Typed, Maps
<1>4. ASSUME NEW k \in Calls, Write(k) \/ TimerFires(k) PROVE InStep'
  BY <1>0, <1>2, <1>4 DEF Write, TimerFires, InStep, Typed, Maps
<1>5. CASE TakeAnswer
  <2>1. /\ UNCHANGED <<now, wall, ts, signed>>
        /\ \/ UNCHANGED phase
           \/ \E k \in Calls : /\ phase[k] = "waiting"
                               /\ phase' = [phase EXCEPT ![k] = "returned"]
    BY <1>5, TakeAnswerStep DEF TakeAnswer, IInv
  <2>2. \A k \in Calls :
          /\ phase'[k] # "idle" => phase[k] # "idle"
          /\ phase'[k] = "signed" => phase[k] = "signed"
    BY <1>0, <2>1 DEF Typed, Maps
  <2> QED BY <1>1, <1>2, <2>1, <2>2 DEF InStep
<1>6. CASE (\E c \in Codes : Dispatch(c)) \/ Reply
  BY <1>1, <1>2, <1>6 DEF Dispatch, Reply, InStep
<1>7. CASE Tick
  <2>1. NothingToDo /\ now' = now + 1 /\ wall' = wall + 1 /\ UNCHANGED <<phase, ts, signed>>
    BY <1>7 DEF Tick
  <2>2. wall' = now' + Epoch
    BY <1>0, <1>2, <2>1, ConstantsAssumption DEF InStep, Typed, Maps
  <2>3. \A k \in Calls : phase[k] # "signed"
    BY <2>1 DEF NothingToDo
  <2> QED BY <1>1, <1>2, <2>1, <2>2, <2>3 DEF InStep
<1>8. CASE (\E t \in Settings : Adjust(t)) \/ UNCHANGED vars
  BY <1>1, <1>2, <1>8 DEF Adjust, vars, InStep
<1> QED BY <1>1, <1>3, <1>4, <1>5, <1>6, <1>7, <1>8 DEF Next

LEMMA WaitsStep ==
  ASSUME IInv, Orderly, InStep, WaitsBehindSleep, [Next]_vars, prompt'
  PROVE  WaitsBehindSleep'
<1> USE DEF client, server, clock, history
<1>0. Typed /\ TypeOK /\ InPipe
  BY TypeTyped DEF IInv
<1>a. \A k \in Calls : judged[k] # None => judged[k] \in Nat /\ judged[k] <= now
  BY <1>0 DEF Orderly, Typed
<1>b. now \in Nat
  BY <1>0 DEF Typed, Maps
(* Steps that neither sign a waiting call nor touch the pipe.              *)
<1>c. ASSUME UNCHANGED <<now, judged, acted, answered>>,
             \A k \in Calls : (Waits(k)' <=> Waits(k)),
             \A k \in Calls : Waits(k) \/ judged[k] # None => signed'[k] = signed[k]
      PROVE  WaitsBehindSleep'
  BY <1>c DEF WaitsBehindSleep, Covered
<1>1. ASSUME NEW k \in Calls, NEW r \in Sent, Sign(k, r) PROVE WaitsBehindSleep'
  <2>1. ~Written(k)
    BY <1>1 DEF Sign, Written
  <2>2. ~Waits(k) /\ judged[k] = None
    BY <1>0, <2>1, WaitingIsWritten DEF Orderly
  <2>3. \A j \in Calls : j # k => signed'[j] = signed[j]
    BY <1>0, <1>1 DEF Sign, Typed, Maps
  <2>4. UNCHANGED <<now, judged, acted, answered, queue>>
    BY <1>1 DEF Sign
  <2> QED BY <1>c, <2>2, <2>3, <2>4 DEF Waits
<1>2. ASSUME NEW k \in Calls, Write(k) PROVE WaitsBehindSleep'
  <2>1. ~Written(k) /\ queue' = Append(queue, k) /\ queue \in Seq(Calls)
    BY <1>0, <1>2 DEF Write, Written, Typed
  <2>2. \A j \in Calls : Waits(j)' <=> Waits(j) \/ j = k
    BY <1>0, <2>1, WaitingIsWritten, Enqueued DEF Orderly
  <2>3. UNCHANGED <<now, judged, acted, answered, signed>> /\ signed[k] = now
    BY <1>2 DEF Write, InStep
  <2>4. \A t \in Nat : ~(signed[k] <= t /\ t < now)
    BY <1>b, <2>3
  <2> QED BY <2>2, <2>3, <2>4 DEF WaitsBehindSleep, Covered
<1>3. ASSUME NEW k \in Calls, TimerFires(k) PROVE WaitsBehindSleep'
  BY <1>c, <1>3 DEF TimerFires, Waits
<1>4. CASE TakeAnswer
  BY <1>c, <1>4 DEF TakeAnswer, Waits
<1>5. ASSUME NEW c \in Codes, Dispatch(c) PROVE WaitsBehindSleep'
  <2> DEFINE h == Head(queue)
  <2>1. /\ h \in Calls /\ Waits(h)
        /\ \A j \in Calls : Waits(j)' <=> Waits(j) /\ j # h
        /\ Dispatched(h, c)
    BY <1>0, <1>5, Judged, Dequeued DEF Typed, Orderly
  <2>2. judged[h] = None /\ acted[h] = None
    BY <2>1 DEF Orderly
  <2>3. /\ \A j \in Calls : j # h => judged'[j] = judged[j] /\ acted'[j] = acted[j]
        /\ judged'[h] = now /\ UNCHANGED <<now, signed, answered>>
    BY <1>0, <2>1 DEF Dispatched, Typed, Maps
  <2>4. ASSUME NEW k \in Calls, NEW t \in Nat, t < now, Covered(k, t) PROVE Covered(k, t)'
    BY <1>b, <2>2, <2>3, <2>4, StaysCovered
  <2>5. ASSUME NEW k \in Calls, NEW t \in Nat, Waits(k)', signed[k] <= t, t < now
        PROVE  Covered(k, t)'
    BY <2>1, <2>4, <2>5 DEF WaitsBehindSleep
  <2>6. ASSUME NEW k \in Calls, NEW t \in Nat, judged'[k] # None, signed[k] <= t,
               t < judged'[k]
        PROVE  Covered(k, t)'
    <3>1. CASE k = h
      BY <2>1, <2>3, <2>4, <2>6, <3>1 DEF WaitsBehindSleep
    <3>2. CASE k # h
      <4>1. judged[k] # None /\ t < judged[k] /\ judged[k] \in Nat /\ judged[k] <= now
        BY <1>a, <2>3, <2>6, <3>2
      <4>2. t < now
        BY <1>b, <4>1
      <4> QED BY <2>4, <2>6, <4>1, <4>2 DEF WaitsBehindSleep
    <3> QED BY <3>1, <3>2
  <2> QED BY <2>3, <2>5, <2>6 DEF WaitsBehindSleep
<1>6. CASE Reply
  <2>1. /\ UNCHANGED <<now, signed, queue, acted, judged>>
        /\ \A j \in Calls : answered'[j] = answered[j]
                            \/ (answered[j] = None /\ answered'[j] = now)
    BY <1>0, <1>6 DEF Reply, Typed, Orderly
  <2>2. ASSUME NEW k \in Calls, NEW t \in Nat, t < now, Covered(k, t) PROVE Covered(k, t)'
    BY <1>b, <2>1, <2>2, StaysCovered
  <2>3. \A k \in Calls : Waits(k)' <=> Waits(k)
    BY <2>1 DEF Waits
  <2>4. \A k \in Calls : \A t \in Nat : judged[k] # None /\ t < judged[k] => t < now
    BY <1>a, <1>b
  <2> QED BY <2>1, <2>2, <2>3, <2>4 DEF WaitsBehindSleep
<1>7. CASE Tick
  <2>1. NothingToDo /\ now' = now + 1 /\ UNCHANGED <<signed, queue, busy, acted, judged, answered>>
    BY <1>7 DEF Tick
  <2>2. ASSUME NEW k \in Calls, NEW t \in Nat, Covered(k, t) PROVE Covered(k, t)'
    BY <2>1, <2>2 DEF Covered
  <2>3. \A k \in Calls : Waits(k)' <=> Waits(k)
    BY <2>1 DEF Waits
  <2>4. ASSUME NEW k \in Calls, Waits(k) PROVE Covered(k, now)
    <3>1. queue # <<>>
      BY <2>4 DEF Waits
    <3>2. busy # None /\ now < until
      BY <2>1, <3>1 DEF NothingToDo
    <3>3. /\ busy \in Calls /\ judged[busy] # None /\ answered[busy] = None
          /\ acted[busy] # None /\ acted[busy] <= now
      BY <1>0, <3>2 DEF Orderly, Typed
    <3>4. busy # k
      BY <2>4, <3>3 DEF Orderly
    <3> QED BY <3>3, <3>4 DEF Covered
  <2>5. ASSUME NEW k \in Calls, NEW t \in Nat, Waits(k)', signed[k] <= t, t < now + 1
        PROVE  Covered(k, t)'
    <3>1. t < now \/ t = now
      BY <1>b, <2>5
    <3> QED BY <2>2, <2>3, <2>4, <2>5, <3>1 DEF WaitsBehindSleep
  <2>6. ASSUME NEW k \in Calls, NEW t \in Nat, judged[k] # None, signed[k] <= t, t < judged[k]
        PROVE  Covered(k, t)'
    BY <2>2, <2>6 DEF WaitsBehindSleep
  <2> QED BY <2>1, <2>5, <2>6 DEF WaitsBehindSleep
<1>8. CASE (\E t \in Settings : Adjust(t)) \/ UNCHANGED vars
  BY <1>c, <1>8 DEF Adjust, vars, Waits
<1> QED BY <1>1, <1>2, <1>3, <1>4, <1>5, <1>6, <1>7, <1>8 DEF Next

LEMMA RefusedStep ==
  ASSUME IInv, Orderly, InStep, RefusedForAge, [Next]_vars
  PROVE  RefusedForAge'
<1> USE DEF client, server, clock, history
<1>0. Typed /\ TypeOK /\ InPipe
  BY TypeTyped DEF IInv
<1>1. ASSUME NEW k \in Calls, NEW r \in Sent, Sign(k, r) PROVE RefusedForAge'
  <2>1. ~Written(k)
    BY <1>1 DEF Sign, Written
  <2>2. code[k] = None
    BY <1>0, <2>1 DEF Orderly
  <2>3. \A j \in Calls : j # k => signed'[j] = signed[j] /\ req'[j] = req[j]
    BY <1>0, <1>1 DEF Sign, Typed, Maps
  <2>4. UNCHANGED <<judged, code>> /\ None # "AUTH_FAILED"
    BY <1>0, <1>1 DEF Sign, Typed, Codes
  <2> QED BY <2>2, <2>3, <2>4 DEF RefusedForAge
<1>2. ASSUME UNCHANGED <<signed, req, judged, code>> PROVE RefusedForAge'
  BY <1>2 DEF RefusedForAge
<1>3. ASSUME NEW k \in Calls, Write(k) \/ TimerFires(k) PROVE RefusedForAge'
  BY <1>2, <1>3 DEF Write, TimerFires
<1>4. CASE TakeAnswer \/ Reply \/ Tick
  BY <1>2, <1>4 DEF TakeAnswer, Reply, Tick
<1>5. CASE (\E t \in Settings : Adjust(t)) \/ UNCHANGED vars
  BY <1>2, <1>5 DEF Adjust, vars
<1>6. ASSUME NEW c \in Codes, Dispatch(c) PROVE RefusedForAge'
  <2> DEFINE h == Head(queue)
  <2>1. /\ h \in Calls /\ Waits(h) /\ Dispatched(h, c)
        /\ c \in ReplyCodes(req[h], ts[h], wall)
    BY <1>0, <1>6, Judged, Dequeued DEF Typed, Orderly
  <2>2. /\ \A j \in Calls : j # h => judged'[j] = judged[j] /\ code'[j] = code[j]
        /\ judged'[h] = now /\ code'[h] = c /\ UNCHANGED <<signed, req>>
    BY <1>0, <2>1 DEF Dispatched, Typed, Maps
  <2>3. /\ wall = now + Epoch /\ ts[h] = signed[h] + Epoch /\ signed[h] \in Nat
        /\ signed[h] <= now /\ now \in Nat /\ Epoch \in Nat /\ Window \in Nat
    <3>1. phase[h] # "idle"
      BY <1>0, <2>1, WaitingIsWritten DEF Written
    <3> QED BY <1>0, <2>1, <3>1, ConstantsAssumption
            DEF InStep, IInv, Ages, SignedBefore, Typed, Maps
  <2>4. ASSUME c = "AUTH_FAILED", req[h].auth = "good" PROVE now > signed[h] + Window
    <3>1. ~TsInWindow(wall, ts[h])
      BY <2>1, <2>4 DEF ReplyCodes, AuthErrors, HandlerCodes
    <3> QED BY <2>3, <3>1 DEF TsInWindow
  <2> QED BY <2>2, <2>4 DEF RefusedForAge
<1> QED BY <1>1, <1>3, <1>4, <1>5, <1>6 DEF Next

-----------------------------------------------------------------------------

(* SInv is inductive.                                                      *)
THEOREM PromptInvariant == Spec => []SInv
<1>1. SInv /\ [Next]_vars => SInv'
  <2> SUFFICES ASSUME SInv, [Next]_vars PROVE SInv'
    OBVIOUS
  <2>1. IInv' /\ Orderly'
    BY NextTypeOK, NextInPipe, NextAges, OrderlyStep DEF SInv, IInv
  <2>2. ASSUME prompt' PROVE InStep' /\ WaitsBehindSleep' /\ RefusedForAge'
    <3>1. InStep' /\ prompt
      BY <2>2, InStepStep DEF SInv
    <3>2. InStep /\ WaitsBehindSleep /\ RefusedForAge
      BY <3>1 DEF SInv, Prompt
    <3> QED BY <2>2, <3>1, <3>2, WaitsStep, RefusedStep DEF SInv
  <2> QED BY <2>1, <2>2 DEF SInv, Prompt
<1> QED BY InitSInv, <1>1, PTL DEF Spec

(* As long as only system/delay takes time and nobody sets the wall clock, *)
(* a well-signed request is refused only when it is older than the window, *)
(* and the daemon has slept for others ever since it was signed.           *)
THEOREM OnlyBehindDelay == Spec => []StaleOnlyBehindDelay
<1>1. SInv => StaleOnlyBehindDelay
  <2> SUFFICES ASSUME SInv, prompt, NEW k \in Calls,
                      code[k] = "AUTH_FAILED", req[k].auth = "good"
               PROVE  /\ judged[k] > signed[k] + Window
                      /\ \A t \in signed[k] .. judged[k] - 1 : Covered(k, t)
    BY DEF StaleOnlyBehindDelay, Covered
  <2>1. Typed /\ None # "AUTH_FAILED"
    BY TypeTyped DEF SInv, IInv, Typed, Codes
  <2>2. judged[k] \in Nat /\ judged[k] # None
    BY <2>1 DEF SInv, Orderly, Typed
  <2>3. signed[k] \in Nat
    BY <2>2 DEF SInv, Orderly, Written, IInv, Ages, SignedBefore
  <2>4. \A t \in signed[k] .. judged[k] - 1 : t \in Nat /\ signed[k] <= t /\ t < judged[k]
    BY <2>2, <2>3
  <2> QED BY <2>2, <2>4 DEF SInv, Prompt, RefusedForAge, WaitsBehindSleep
<1> QED BY <1>1, PromptInvariant, PTL
=============================================================================
