--------------------------- MODULE RpcClient_proofs ---------------------------
(***************************************************************************)
(* Theorems about RpcClient, for any number of calls and any capacities of *)
(* the two pipes.                                                          *)
(***************************************************************************)
EXTENDS RpcClient, FiniteSetTheorems, SequenceTheorems, TLAPS

Begun == {k \in Calls : at[k] # "idle"}

(* A call has a number of its own once it has begun.                       *)
Numbered ==
  /\ nextId = Cardinality(Begun)
  /\ \A k \in Calls : at[k] = "idle" <=> id[k] = 0
  /\ \A k \in Calls : id[k] <= nextId
  /\ \A j, k \in Calls : id[j] = id[k] /\ id[j] # 0 => j = k

(* A call that has not begun has left no trace.                            *)
Fresh ==
  /\ \A k \in Calls : at[k] = "idle" => tcs[k] = "unset"
  /\ \A k \in Calls : outcome[k] # "none" => at[k] = "returned"
  /\ \A i \in DOMAIN wire : wire[i].of \in Begun

(* Answers carry the number of the call whose request they answer, calls   *)
(* are registered under theirs, and an answer that is routed goes to the   *)
(* call that asked, which is no longer registered then or later.           *)
Routing ==
  /\ \A i \in DOMAIN inbox :
       inbox[i].kind = "answer" => inbox[i].id = id[inbox[i].of]
  /\ \A n \in Ids : \A k \in Calls : pending[n] = k => id[k] = n
  /\ (loop = "routing") <=> (routed # None)
  /\ routed # None =>
       /\ routed.to = routed.of /\ routed.to \in Begun
       /\ \A n \in Ids : pending[n] # routed.to
  /\ \A k \in Calls : tcs[k] = "result" =>
       answerTo[k] = k /\ \A n \in Ids : pending[n] # k

(* Without overlap one call at most is under way; the pipe ends with its   *)
(* header exactly while it is at its body.                                 *)
SerialWire ==
  /\ session = "ended" => wire = <<>>
  /\ ~overlapped =>
       /\ \A j, k \in Calls : InProgress(j) /\ InProgress(k) => j = k
       /\ Whole
       /\ \A k \in Calls : at[k] = "body" /\ session = "open" =>
            Len(wire) % 2 = 1 /\ wire[Len(wire)].of = k
       /\ session = "open" /\ disposal = "no" /\ (\A k \in Calls : at[k] # "body")
            => Len(wire) % 2 = 0

IInv == TypeOK /\ Numbered /\ Fresh /\ Routing /\ OwnAnswer /\ PendingAccounting
          /\ SerialWire

-----------------------------------------------------------------------------
(* Sequences.                                                              *)

LEMMA Appended ==
  ASSUME NEW S, NEW s \in Seq(S), NEW e \in S
  PROVE  /\ Append(s, e) \in Seq(S)
         /\ Len(s) \in Nat /\ Len(Append(s, e)) = Len(s) + 1
         /\ DOMAIN s = 1 .. Len(s) /\ DOMAIN Append(s, e) = 1 .. Len(s) + 1
         /\ \A i \in DOMAIN s : Append(s, e)[i] = s[i]
         /\ Append(s, e)[Len(s) + 1] = e
BY AppendProperties

LEMMA FirstTaken ==
  ASSUME NEW S, NEW s \in Seq(S), s # <<>>
  PROVE  /\ Head(s) \in S /\ Head(s) = s[1] /\ 1 \in DOMAIN s
         /\ Tail(s) \in Seq(S) /\ Len(Tail(s)) = Len(s) - 1 /\ Len(s) \in Nat
         /\ \A i \in DOMAIN Tail(s) : i + 1 \in DOMAIN s /\ Tail(s)[i] = s[i + 1]
BY HeadTailProperties

LEMMA TwoTaken ==
  ASSUME NEW S, NEW s \in Seq(S), Len(s) >= 2
  PROVE  LET rest == SubSeq(s, 3, Len(s)) IN
           /\ rest \in Seq(S) /\ Len(rest) = Len(s) - 2 /\ Len(s) \in Nat
           /\ DOMAIN rest = 1 .. Len(s) - 2 /\ DOMAIN s = 1 .. Len(s)
           /\ \A i \in DOMAIN rest : i + 2 \in DOMAIN s /\ rest[i] = s[i + 2]
<1>1. Len(s) \in Nat /\ DOMAIN s = 1 .. Len(s) /\ \A i \in 3 .. Len(s) : s[i] \in S
  OBVIOUS
<1> DEFINE rest == SubSeq(s, 3, Len(s))
<1>2. /\ rest \in Seq(S) /\ Len(rest) = Len(s) - 2
      /\ \A i \in 1 .. Len(s) - 2 : rest[i] = s[i + 2]
  BY <1>1, SubSeqProperties
<1>3. DOMAIN rest = 1 .. Len(s) - 2
  BY <1>2
<1> QED BY <1>1, <1>2, <1>3

(* The numbers, and whether one is left.                                   *)
LEMMA NumberLeft ==
  ASSUME TypeOK, Numbered, NEW k \in Calls, at[k] = "idle"
  PROVE  /\ nextId + 1 \in Ids /\ nextId \in Nat
         /\ Cardinality(Begun \cup {k}) = nextId + 1
<1>1. IsFiniteSet(Begun) /\ IsFiniteSet(Begun \cup {k})
  BY ConstantsAssumption, FS_Subset, FS_AddElement DEF Begun
<1>2. Cardinality(Begun \cup {k}) = Cardinality(Begun) + 1
  BY <1>1, FS_AddElement DEF Begun
<1>3. Cardinality(Begun \cup {k}) <= Cardinality(Calls)
  BY ConstantsAssumption, FS_Subset DEF Begun
<1>4. Cardinality(Begun) \in Nat /\ Cardinality(Calls) \in Nat
  BY <1>1, ConstantsAssumption, FS_CardinalityType
<1> QED BY <1>2, <1>3, <1>4 DEF Numbered, Ids

LEMMA IdsAreNat == \A n \in Ids : n \in Nat /\ n # 0
BY ConstantsAssumption, FS_CardinalityType DEF Ids

(* A call that has begun has a number among Ids.                           *)
LEMMA BegunHasId ==
  ASSUME TypeOK, Numbered, NEW k \in Begun
  PROVE  id[k] \in Ids
BY DEF TypeOK, Numbered, Begun

-----------------------------------------------------------------------------

LEMMA InitIInv == Init => IInv
<1> SUFFICES ASSUME Init PROVE IInv
  OBVIOUS
<1>1. Begun = {} /\ Cardinality(Begun) = 0
  BY FS_EmptySet DEF Init, Begun
<1>2. TypeOK
  <2>1. wire \in Seq(Parts) /\ inbox \in Seq(Frames) /\ Len(inbox) <= InboxCap
    BY ConstantsAssumption DEF Init
  <2>2. noticed \in 0 .. Notices
    BY ConstantsAssumption DEF Init
  <2> QED BY <2>1, <2>2 DEF Init, TypeOK
<1>3. Numbered /\ Fresh
  BY <1>1, IdsAreNat DEF Init, Numbered, Fresh
<1>4. Routing /\ OwnAnswer /\ PendingAccounting
  BY ConstantsAssumption DEF Init, Routing, OwnAnswer, PendingAccounting, InProgress
<1>5. SerialWire
  BY DEF Init, SerialWire, InProgress, Whole
<1> QED BY <1>2, <1>3, <1>4, <1>5 DEF IInv

-----------------------------------------------------------------------------
(* Every step preserves the invariant, conjunct by conjunct.  Steps that   *)
(* change little are treated together.                                     *)

QuietStep ==
  \/ \E k \in Calls : WriteBreaks(k) \/ TimerFires(k) \/ ReturnAnswer(k)
  \/ EndLoop \/ HandlerReturns \/ HandlerDisposes \/ StartDispose \/ DisposeThrows
  \/ UNCHANGED vars

TimeoutStep == \E k \in Calls : WriteCancelled(k) \/ ReturnTimeout(k)

(* Misread, EndSession, FinishDispose.                                     *)
EndsSession ==
  /\ session' = "ended" /\ wire' = <<>> /\ inbox' \in {inbox, <<>>}
  /\ disposal' \in {disposal, "done"}
  /\ UNCHANGED <<callState, reader, history>>

LEMMA Cases ==
  ASSUME [Next]_vars
  PROVE  \/ QuietStep \/ TimeoutStep \/ EndsSession
         \/ \E k \in Calls : Begin(k) \/ WriteHeader(k) \/ WriteBody(k)
         \/ \E verifies \in BOOLEAN : Answer(verifies)
         \/ Notify \/ TakeFrame \/ SetResult
<1>1. Misread \/ EndSession \/ FinishDispose => EndsSession
  BY DEF Misread, EndSession, FinishDispose, EndsSession
<1> QED
  BY <1>1 DEF Next, CallStep, LoopStep, DisposeStep, QuietStep, TimeoutStep

LEMMA TypeStep ==
  ASSUME IInv, [Next]_vars
  PROVE  TypeOK'
<1> USE DEF callState, daemon, reader, history
<1>0. TypeOK /\ Numbered /\ IInv
  BY DEF IInv
<1>a. /\ wire \in Seq(Parts) /\ inbox \in Seq(Frames) /\ Len(inbox) <= InboxCap
      /\ <<>> \in Seq(Parts) /\ <<>> \in Seq(Frames) /\ Len(<<>>) <= InboxCap
  BY <1>0, ConstantsAssumption DEF TypeOK
<1>1. CASE QuietStep
  <2>1. ASSUME NEW k \in Calls, WriteBreaks(k) \/ TimerFires(k) \/ ReturnAnswer(k)
        PROVE  TypeOK'
    BY <1>0, <2>1 DEF TypeOK, WriteBreaks, TimerFires, ReturnAnswer, Returns
  <2>2. CASE EndLoop \/ HandlerReturns \/ HandlerDisposes
    BY <1>0, <2>2 DEF TypeOK, EndLoop, HandlerReturns, HandlerDisposes
  <2>3. CASE StartDispose \/ DisposeThrows \/ UNCHANGED vars
    BY <1>0, <2>3 DEF TypeOK, StartDispose, DisposeThrows, vars
  <2> QED BY <1>1, <2>1, <2>2, <2>3 DEF QuietStep
<1>2. CASE TimeoutStep
  BY <1>0, <1>2 DEF TypeOK, TimeoutStep, WriteCancelled, ReturnTimeout, TimesOut, Returns
<1>3. CASE EndsSession
  <2>1. wire' \in Seq(Parts) /\ inbox' \in Seq(Frames) /\ Len(inbox') <= InboxCap
    <3>1. wire' = <<>> /\ (inbox' = inbox \/ inbox' = <<>>)
      BY <1>3 DEF EndsSession
    <3> QED BY ONLY <1>a, <3>1
  <2> QED BY <1>0, <1>3, <2>1 DEF TypeOK, EndsSession
<1>4. ASSUME NEW k \in Calls, Begin(k) PROVE TypeOK'
  BY <1>0, <1>4, NumberLeft DEF TypeOK, Begin, Overlaps
<1>5. ASSUME NEW k \in Calls, WriteHeader(k) \/ WriteBody(k) PROVE TypeOK'
  <2>1. wire' \in Seq(Parts)
    <3>1. [part |-> "head", of |-> k] \in Parts /\ [part |-> "body", of |-> k] \in Parts
      BY DEF Parts
    <3>2. \E e \in Parts : wire' = Append(wire, e)
      BY <1>5, <3>1 DEF WriteHeader, WriteBody
    <3> QED BY ONLY <1>a, <3>2, Appended
  <2> QED BY <1>0, <1>5, <2>1 DEF TypeOK, WriteHeader, WriteBody
<1>6. ASSUME NEW verifies \in BOOLEAN, Answer(verifies) PROVE TypeOK'
  <2>1. wire[1] \in Parts /\ wire[1].of \in Begun /\ Len(inbox) \in Nat
    BY <1>0, <1>6 DEF TypeOK, Answer, IInv, Fresh
  <2>2. id[wire[1].of] \in Ids /\ wire[1].of \in Calls
    BY <1>0, <2>1, BegunHasId DEF Begun
  <2>3. [kind |-> "answer", id |-> id[wire[1].of], of |-> wire[1].of,
         verifies |-> verifies] \in Frames
    BY <2>2 DEF Frames
  <2>4. inbox' \in Seq(Frames) /\ Len(inbox') <= InboxCap
    BY <1>0, <1>6, <2>1, <2>3, ConstantsAssumption DEF Answer, TypeOK
  <2>5. wire' \in Seq(Parts)
    BY <1>0, <1>6, TwoTaken DEF Answer, TypeOK
  <2> QED BY <1>0, <1>6, <2>4, <2>5 DEF Answer, TypeOK
<1>7. CASE Notify
  <2>1. [kind |-> "notice", verifies |-> FALSE] \in Frames
    BY DEF Frames
  <2>2. inbox' \in Seq(Frames) /\ Len(inbox') <= InboxCap
    BY <1>0, <1>7, <2>1, ConstantsAssumption DEF TypeOK, Notify
  <2>3. noticed' \in 0 .. Notices
    BY <1>0, <1>7, ConstantsAssumption DEF TypeOK, Notify
  <2> QED BY <1>0, <1>7, <2>2, <2>3 DEF TypeOK, Notify
<1>8. CASE TakeFrame
  <2>1. Head(inbox) \in Frames /\ inbox' \in Seq(Frames) /\ Len(inbox') <= InboxCap
    BY <1>0, <1>8, FirstTaken, ConstantsAssumption DEF TakeFrame, TypeOK
  <2>2. Head(inbox).kind = "answer" => Head(inbox).id \in Ids /\ Head(inbox).of \in Calls
    BY <2>1 DEF Frames
  <2> QED BY <1>0, <1>8, <2>1, <2>2 DEF TakeFrame, TypeOK
<1>9. CASE SetResult
  <2>1. routed.to \in Calls /\ routed.of \in Calls
    BY <1>0, <1>9 DEF TypeOK, SetResult, IInv, Routing, Begun
  <2>2. /\ tcs' \in [Calls -> {"unset", "result", "canceled"}]
        /\ answerTo' \in [Calls -> Calls \cup {None}]
    BY <1>0, <1>9, <2>1 DEF TypeOK, SetResult
  <2> QED BY <1>0, <1>9, <2>2 DEF TypeOK, SetResult
<1> QED BY <1>1, <1>2, <1>3, <1>4, <1>5, <1>6, <1>7, <1>8, <1>9, Cases

(* Begin alone hands out a number, and alone changes who has begun.        *)
LEMMA NumberStep ==
  ASSUME IInv, [Next]_vars
  PROVE  Numbered'
<1> USE DEF callState, daemon, reader, history
<1>0. TypeOK /\ Numbered /\ Fresh
  BY DEF IInv
<1>1. ASSUME NEW k \in Calls, Begin(k) PROVE Numbered'
  <2>1. Begun' = Begun \cup {k}
    BY <1>0, <1>1 DEF Begin, Begun, TypeOK
  <2>2. nextId' = Cardinality(Begun') /\ nextId \in Nat
    BY <1>0, <1>1, <2>1, NumberLeft DEF Begin
  <2>3. \A j \in Calls : id[j] \in Nat /\ id[j] <= nextId
    <3>1. \A j \in Calls : id[j] \in {0} \cup Ids
      BY <1>0 DEF TypeOK
    <3>2. \A j \in Calls : id[j] <= nextId
      BY <1>0 DEF Numbered
    <3> QED BY ONLY <3>1, <3>2, IdsAreNat
  <2>4. \A j \in Calls : id'[j] = (IF j = k THEN nextId + 1 ELSE id[j])
    BY <1>0, <1>1 DEF Begin, TypeOK
  <2>5. \A j \in Calls : at'[j] = (IF j = k THEN "header" ELSE at[j])
    BY <1>0, <1>1 DEF Begin, TypeOK
  <2>6. nextId' = nextId + 1
    BY <1>1 DEF Begin
  <2> QED BY <1>0, <2>2, <2>3, <2>4, <2>5, <2>6 DEF Numbered
<1>2. ASSUME ~ \E k \in Calls : Begin(k)
      PROVE  nextId' = nextId /\ id' = id /\ Begun' = Begun
  <2>1. CASE QuietStep
    BY <1>0, <2>1 DEF TypeOK, QuietStep, WriteBreaks, TimerFires, ReturnAnswer, Returns,
       EndLoop, HandlerReturns, HandlerDisposes, StartDispose, DisposeThrows, vars, Begun
  <2>2. CASE TimeoutStep
    BY <1>0, <2>2 DEF TypeOK, TimeoutStep, WriteCancelled, ReturnTimeout, TimesOut,
       Returns, Begun
  <2>3. ASSUME NEW k \in Calls, WriteHeader(k) \/ WriteBody(k)
        PROVE  nextId' = nextId /\ id' = id /\ Begun' = Begun
    BY <1>0, <2>3 DEF TypeOK, WriteHeader, WriteBody, Begun
  <2>4. CASE EndsSession \/ (\E verifies \in BOOLEAN : Answer(verifies)) \/ Notify
    BY <2>4 DEF EndsSession, Answer, Notify, Begun
  <2>5. CASE TakeFrame \/ SetResult
    BY <2>5 DEF TakeFrame, SetResult, Begun
  <2> QED BY <1>2, <2>1, <2>2, <2>3, <2>4, <2>5, Cases
<1>3. ASSUME nextId' = nextId, id' = id, Begun' = Begun PROVE Numbered'
  <2>1. \A k \in Calls : at'[k] = "idle" <=> at[k] = "idle"
    BY <1>3 DEF Begun
  <2> QED BY <1>0, <1>3, <2>1 DEF Numbered
<1> QED BY <1>1, <1>2, <1>3

LEMMA FreshStep ==
  ASSUME IInv, [Next]_vars
  PROVE  Fresh'
<1> USE DEF callState, daemon, reader, history
<1>0. TypeOK /\ Fresh /\ Routing
  BY DEF IInv
<1>1. CASE QuietStep
  BY <1>0, <1>1 DEF TypeOK, QuietStep, WriteBreaks, TimerFires, ReturnAnswer, Returns,
     EndLoop, HandlerReturns, HandlerDisposes, StartDispose, DisposeThrows, vars, Begun,
     Fresh
<1>2. CASE TimeoutStep
  BY <1>0, <1>2 DEF TypeOK, TimeoutStep, WriteCancelled, ReturnTimeout, TimesOut, Returns,
     Begun, Fresh
<1>3. CASE EndsSession
  BY <1>0, <1>3 DEF EndsSession, Fresh, Begun
<1>4. ASSUME NEW k \in Calls, Begin(k) PROVE Fresh'
  BY <1>0, <1>4 DEF TypeOK, Begin, Fresh, Begun
<1>5. ASSUME NEW k \in Calls, WriteHeader(k) \/ WriteBody(k) PROVE Fresh'
  <2>1. \A i \in DOMAIN wire' : wire'[i].of \in Begun \cup {k}
    <3>1. \E e : e \in Parts /\ e.of = k /\ wire' = Append(wire, e)
      BY <1>5 DEF WriteHeader, WriteBody, Parts
    <3>2. wire \in Seq(Parts)
      BY <1>0 DEF TypeOK
    <3>3. \A i \in DOMAIN wire : wire[i].of \in Begun
      BY <1>0 DEF Fresh
    <3> QED BY ONLY <3>1, <3>2, <3>3, Appended
  <2>2. Begun' = Begun /\ k \in Begun
    BY <1>0, <1>5 DEF TypeOK, WriteHeader, WriteBody, Begun
  <2> QED BY <1>0, <1>5, <2>1, <2>2 DEF TypeOK, Fresh, WriteHeader, WriteBody
<1>6. ASSUME NEW verifies \in BOOLEAN, Answer(verifies) PROVE Fresh'
  <2>1. \A i \in DOMAIN wire' : i + 2 \in DOMAIN wire /\ wire'[i] = wire[i + 2]
    BY <1>0, <1>6, TwoTaken DEF TypeOK, Answer
  <2> QED BY <1>0, <1>6, <2>1 DEF Answer, Fresh, Begun
<1>7. CASE Notify \/ TakeFrame
  BY <1>0, <1>7 DEF Notify, TakeFrame, Fresh, Begun
<1>8. CASE SetResult
  BY <1>0, <1>8 DEF TypeOK, SetResult, Fresh, Begun, Routing
<1> QED BY <1>1, <1>2, <1>3, <1>4, <1>5, <1>6, <1>7, <1>8, Cases

LEMMA RoutingStep ==
  ASSUME IInv, [Next]_vars
  PROVE  Routing'
<1> USE DEF callState, daemon, reader, history
<1>0. TypeOK /\ Numbered /\ Fresh /\ Routing /\ OwnAnswer /\ PendingAccounting
  BY DEF IInv
<1>a. \A i \in DOMAIN inbox : inbox[i].kind = "answer" =>
         inbox[i].id \in Ids /\ inbox[i].of \in Begun /\ inbox[i].id = id[inbox[i].of]
  <2>1. ASSUME NEW i \in DOMAIN inbox, inbox[i].kind = "answer"
        PROVE  inbox[i].id \in Ids /\ inbox[i].of \in Calls
    <3>1. inbox[i] \in Frames
      BY <1>0, <2>1 DEF TypeOK
    <3> QED BY ONLY <2>1, <3>1 DEF Frames
  <2> QED BY <1>0, <2>1, IdsAreNat DEF Routing, Numbered, Begun
<1>b. \A n \in Ids : \A k \in Calls : pending[n] = k => k \in Begun
  BY <1>0, IdsAreNat DEF Routing, Numbered, Begun
<1>1. CASE QuietStep
  <2>1. UNCHANGED <<id, pending, routed, inbox, answerTo>>
    BY <1>1 DEF QuietStep, WriteBreaks, TimerFires, ReturnAnswer, Returns,
       EndLoop, HandlerReturns, HandlerDisposes, StartDispose, DisposeThrows, vars
  <2>2. \A k \in Calls : tcs'[k] = "result" => tcs[k] = "result"
    BY <1>0, <1>1 DEF TypeOK, QuietStep, WriteBreaks, TimerFires, ReturnAnswer, Returns,
       EndLoop, HandlerReturns, HandlerDisposes, StartDispose, DisposeThrows, vars
  <2>3. (loop' = "routing") <=> (loop = "routing")
    <3>1. CASE \E k \in Calls : WriteBreaks(k) \/ TimerFires(k) \/ ReturnAnswer(k)
      BY <3>1 DEF WriteBreaks, TimerFires, ReturnAnswer
    <3>2. CASE EndLoop \/ HandlerReturns \/ HandlerDisposes
      BY <3>2 DEF EndLoop, HandlerReturns, HandlerDisposes
    <3>3. CASE StartDispose \/ DisposeThrows \/ UNCHANGED vars
      BY <3>3 DEF StartDispose, DisposeThrows, vars
    <3> QED BY <1>1, <3>1, <3>2, <3>3 DEF QuietStep
  <2>4. routed # None => routed.to \in Begun'
    BY <1>0, <1>1 DEF TypeOK, Routing, Begun, QuietStep, WriteBreaks, TimerFires,
       ReturnAnswer, Returns, EndLoop, HandlerReturns, HandlerDisposes, StartDispose,
       DisposeThrows, vars
  <2> QED BY <1>0, <2>1, <2>2, <2>3, <2>4 DEF Routing
<1>2. CASE TimeoutStep
  <2>1. PICK k \in Calls : (WriteCancelled(k) \/ ReturnTimeout(k)) /\ TimesOut(k)
    BY <1>2 DEF TimeoutStep, WriteCancelled, ReturnTimeout
  <2>2. \A n \in Ids : \A j \in Calls : pending'[n] = j => pending[n] = j
    BY <1>0, <2>1, ConstantsAssumption DEF TypeOK, TimesOut
  <2>3. UNCHANGED <<id, tcs, routed, loop, inbox, answerTo>>
    BY <2>1 DEF WriteCancelled, ReturnTimeout
  <2>4. \A j \in Begun : j \in Begun'
    BY <1>0, <2>1 DEF TypeOK, TimesOut, Returns, Begun
  <2>5. routed # None => routed.to \in Begun' /\ routed.to \in Calls
    BY <1>0, <2>4 DEF Routing, Begun
  <2> QED BY <1>0, <2>2, <2>3, <2>5 DEF Routing
<1>3. CASE EndsSession
  BY <1>0, <1>3 DEF EndsSession, Routing, Begun
<1>4. ASSUME NEW k \in Calls, Begin(k) PROVE Routing'
  <2>1. /\ \A j \in Calls : j # k => id'[j] = id[j]
        /\ id'[k] = nextId + 1 /\ tcs[k] = "unset"
        /\ \A n \in Ids : pending'[n] = (IF n = nextId + 1 THEN k ELSE pending[n])
        /\ Begun' = Begun \cup {k} /\ k \notin Begun
    BY <1>0, <1>4 DEF TypeOK, Begin, Begun, Fresh
  <2>2. UNCHANGED <<tcs, routed, loop, inbox, answerTo>>
    BY <1>4 DEF Begin
  <2>3. \A i \in DOMAIN inbox : inbox[i].kind = "answer" => inbox[i].id = id'[inbox[i].of]
    BY <1>a, <2>1 DEF Begun
  <2> QED BY <1>0, <1>b, <2>1, <2>2, <2>3 DEF Routing, Begun
<1>5. ASSUME NEW k \in Calls, WriteHeader(k) \/ WriteBody(k) PROVE Routing'
  <2>1. UNCHANGED <<id, pending, tcs, routed, loop, inbox, answerTo>> /\ Begun' = Begun
    BY <1>0, <1>5 DEF TypeOK, WriteHeader, WriteBody, Begun
  <2> QED BY <1>0, <2>1 DEF Routing
<1>6. ASSUME NEW verifies \in BOOLEAN, Answer(verifies) PROVE Routing'
  <2>1. UNCHANGED <<id, at, pending, tcs, routed, loop, answerTo>>
    BY <1>6 DEF Answer
  <2>2. inbox' = Append(inbox, [kind |-> "answer", id |-> id[wire[1].of],
                                of |-> wire[1].of, verifies |-> verifies])
    BY <1>6 DEF Answer
  <2>3. inbox \in Seq(Frames)
    BY <1>0 DEF TypeOK
  <2>4. \A i \in DOMAIN inbox' :
          inbox'[i].kind = "answer" => inbox'[i].id = id[inbox'[i].of]
    BY ONLY <1>a, <2>2, <2>3, AppendProperties
  <2> QED BY <1>0, <2>1, <2>4 DEF Routing, Begun
<1>7. CASE Notify
  <2>1. UNCHANGED <<id, at, pending, tcs, routed, loop, answerTo>>
    BY <1>7 DEF Notify
  <2>2. inbox' = Append(inbox, [kind |-> "notice", verifies |-> FALSE])
    BY <1>7 DEF Notify
  <2>3. inbox \in Seq(Frames)
    BY <1>0 DEF TypeOK
  <2>4. \A i \in DOMAIN inbox' :
          inbox'[i].kind = "answer" => inbox'[i].id = id[inbox'[i].of]
    BY ONLY <1>a, <2>2, <2>3, AppendProperties
  <2> QED BY <1>0, <2>1, <2>4 DEF Routing, Begun
<1>8. CASE TakeFrame
  <2> DEFINE f == Head(inbox)
  <2>1. /\ \A i \in DOMAIN inbox' : i + 1 \in DOMAIN inbox /\ inbox'[i] = inbox[i + 1]
        /\ f = inbox[1] /\ 1 \in DOMAIN inbox
    BY <1>0, <1>8, FirstTaken DEF TypeOK, TakeFrame
  <2>2. \A i \in DOMAIN inbox' :
          inbox'[i].kind = "answer" => inbox'[i].id = id[inbox'[i].of]
    BY ONLY <1>a, <2>1
  <2>3. UNCHANGED <<id, at, tcs, answerTo>> /\ routed = None
    BY <1>0, <1>8 DEF TakeFrame, Routing
  <2>4. CASE f.kind = "answer" /\ f.verifies /\ pending[f.id] # None
    <3>1. f.id \in Ids /\ f.of \in Begun /\ f.id = id[f.of]
      BY <1>a, <2>1, <2>4
    <3>2. PICK k \in Calls : pending[f.id] = k
      BY <1>0, <2>4, <3>1 DEF TypeOK
    <3>3. k = f.of
      <4>1. id[k] = f.id /\ f.id # 0 /\ f.of \in Calls
        BY <1>0, <3>1, <3>2, IdsAreNat DEF Routing, Begun
      <4> QED BY <1>0, <3>1, <4>1 DEF Numbered
    <3>4. /\ routed' = [to |-> k, of |-> f.of] /\ loop' = "routing"
          /\ pending' = [pending EXCEPT ![f.id] = None]
      BY <1>8, <2>4, <3>2 DEF TakeFrame
    <3>5. \A n \in Ids : pending'[n] = (IF n = f.id THEN None ELSE pending[n])
      BY <1>0, <3>4 DEF TypeOK
    <3>6. \A n \in Ids : pending'[n] # k
      <4>1. \A n \in Ids : pending[n] = k => n = id[k]
        BY <1>0 DEF Routing
      <4> QED BY <3>1, <3>2, <3>5, <4>1, ConstantsAssumption
    <3>7. routed' # None /\ routed'.to = k /\ routed'.of = k
      BY <3>3, <3>4, ConstantsAssumption
    <3> QED BY <1>0, <2>2, <2>3, <3>1, <3>3, <3>4, <3>5, <3>6, <3>7,
               ConstantsAssumption DEF Routing, Begun
  <2>5. CASE ~(f.kind = "answer" /\ f.verifies /\ pending[f.id] # None)
    <3>1. UNCHANGED <<routed, pending, loop>>
      BY <1>8, <2>5 DEF TakeFrame
    <3> QED BY <1>0, <2>2, <2>3, <3>1 DEF Routing, Begun
  <2> QED BY <2>4, <2>5
<1>9. CASE SetResult
  <2>1. UNCHANGED <<id, at, pending, inbox>> /\ routed' = None /\ loop' = "reading"
    BY <1>9 DEF SetResult
  <2>2. /\ routed.to = routed.of /\ routed.to \in Calls
        /\ \A n \in Ids : pending[n] # routed.to
    BY <1>0, <1>9 DEF SetResult, Routing, Begun
  <2>3. \A k \in Calls : tcs'[k] = "result" =>
          answerTo'[k] = k /\ \A n \in Ids : pending[n] # k
    BY <1>0, <1>9, <2>2 DEF SetResult, Routing, TypeOK
  <2> QED BY <1>0, <2>1, <2>3 DEF Routing
<1> QED BY <1>1, <1>2, <1>3, <1>4, <1>5, <1>6, <1>7, <1>8, <1>9, Cases

LEMMA OwnAnswerStep ==
  ASSUME IInv, [Next]_vars
  PROVE  OwnAnswer'
<1> USE DEF callState, daemon, reader, history
<1>0. TypeOK /\ Routing /\ OwnAnswer
  BY DEF IInv
<1>1. CASE QuietStep
  <2>1. ASSUME NEW k \in Calls, WriteBreaks(k) \/ TimerFires(k) \/ ReturnAnswer(k)
        PROVE  OwnAnswer'
    BY <1>0, <2>1 DEF TypeOK, Routing, OwnAnswer, WriteBreaks, TimerFires, ReturnAnswer,
       Returns
  <2>2. CASE EndLoop \/ HandlerReturns \/ HandlerDisposes
    BY <1>0, <2>2 DEF OwnAnswer, EndLoop, HandlerReturns, HandlerDisposes
  <2>3. CASE StartDispose \/ DisposeThrows \/ UNCHANGED vars
    BY <1>0, <2>3 DEF OwnAnswer, StartDispose, DisposeThrows, vars
  <2> QED BY <1>1, <2>1, <2>2, <2>3 DEF QuietStep
<1>2. CASE TimeoutStep
  BY <1>0, <1>2 DEF TypeOK, OwnAnswer, TimeoutStep, WriteCancelled, ReturnTimeout,
     TimesOut, Returns
<1>3. ASSUME UNCHANGED <<outcome, answerTo>> PROVE OwnAnswer'
  BY <1>0, <1>3 DEF OwnAnswer
<1>4. CASE SetResult
  BY <1>0, <1>4 DEF TypeOK, OwnAnswer, SetResult, Routing
<1>5. CASE EndsSession \/ Notify \/ TakeFrame
  BY <1>3, <1>5 DEF EndsSession, Notify, TakeFrame
<1>6. ASSUME NEW k \in Calls, Begin(k) \/ WriteHeader(k) \/ WriteBody(k) PROVE OwnAnswer'
  BY <1>3, <1>6 DEF Begin, WriteHeader, WriteBody
<1>7. ASSUME NEW verifies \in BOOLEAN, Answer(verifies) PROVE OwnAnswer'
  BY <1>3, <1>7 DEF Answer
<1> QED BY <1>1, <1>2, <1>4, <1>5, <1>6, <1>7, Cases

(* PendingAccounting in two parts: who is registered, and what is.         *)
Registered ==
  \A k \in Calls : InProgress(k) /\ tcs[k] = "unset" =>
    pending[id[k]] = k \/ (routed # None /\ routed.to = k)

InUse ==
  \A k \in Calls : \A n \in Ids : pending[n] = k =>
    id[k] = n /\ (InProgress(k) \/ outcome[k] = "broken")

LEMMA TwoParts == PendingAccounting <=> Registered /\ InUse
BY DEF PendingAccounting, Registered, InUse

LEMMA RegisteredStep ==
  ASSUME IInv, [Next]_vars
  PROVE  Registered'
<1> USE DEF callState, daemon, reader, history
<1>0. TypeOK /\ Numbered /\ Fresh /\ Routing /\ Registered
  BY TwoParts DEF IInv
<1>a. \A k \in Calls : InProgress(k) => k \in Begun /\ id[k] \in Ids
  BY <1>0, BegunHasId DEF InProgress, Begun
<1>b. ASSUME UNCHANGED <<id, pending, routed>>,
             \A k \in Calls : InProgress(k)' => InProgress(k),
             \A k \in Calls : tcs'[k] = "unset" => tcs[k] = "unset"
      PROVE  Registered'
  BY <1>0, <1>b DEF Registered
<1>1. CASE QuietStep
  <2>1. ASSUME NEW k \in Calls, WriteBreaks(k) \/ TimerFires(k) \/ ReturnAnswer(k)
        PROVE  Registered'
    BY <1>0, <1>b, <2>1 DEF TypeOK, InProgress, WriteBreaks, TimerFires, ReturnAnswer,
       Returns
  <2>2. CASE EndLoop \/ HandlerReturns \/ HandlerDisposes
    BY <1>b, <2>2 DEF InProgress, EndLoop, HandlerReturns, HandlerDisposes
  <2>3. CASE StartDispose \/ DisposeThrows \/ UNCHANGED vars
    BY <1>b, <2>3 DEF InProgress, StartDispose, DisposeThrows, vars
  <2> QED BY <1>1, <2>1, <2>2, <2>3 DEF QuietStep
<1>2. ASSUME NEW k \in Calls, WriteCancelled(k) \/ ReturnTimeout(k) PROVE Registered'
  <2>1. TimesOut(k) /\ UNCHANGED <<id, tcs, routed>> /\ InProgress(k)
    BY <1>2 DEF WriteCancelled, ReturnTimeout, InProgress
  <2>2. \A j \in Calls : InProgress(j)' => InProgress(j) /\ j # k
    BY <1>0, <2>1 DEF TypeOK, TimesOut, Returns, InProgress
  <2>3. \A n \in Ids : n # id[k] => pending'[n] = pending[n]
    BY <1>0, <2>1 DEF TypeOK, TimesOut
  <2>4. \A j \in Calls : InProgress(j) /\ j # k => id[j] # id[k] /\ id[j] \in Ids
    BY <1>0, <1>a, <2>1, IdsAreNat DEF Numbered
  <2> QED BY <1>0, <2>1, <2>2, <2>3, <2>4 DEF Registered
<1>3. CASE EndsSession \/ Notify
  BY <1>b, <1>3 DEF EndsSession, Notify, InProgress
<1>4. ASSUME NEW k \in Calls, Begin(k) PROVE Registered'
  <2>1. /\ \A j \in Calls : j # k => id'[j] = id[j] /\ (InProgress(j)' <=> InProgress(j))
        /\ id'[k] = nextId + 1 /\ nextId + 1 \in Ids /\ nextId \in Nat
        /\ \A n \in Ids : pending'[n] = (IF n = nextId + 1 THEN k ELSE pending[n])
    BY <1>0, <1>4, NumberLeft DEF TypeOK, Begin, InProgress
  <2>2. \A j \in Calls : id[j] # nextId + 1
    <3>1. \A j \in Calls : id[j] <= nextId /\ id[j] \in Nat
      BY <1>0, IdsAreNat DEF Numbered, TypeOK
    <3> QED BY <2>1, <3>1
  <2>3. UNCHANGED <<tcs, routed>>
    BY <1>4 DEF Begin
  <2> QED BY <1>0, <1>a, <2>1, <2>2, <2>3 DEF Registered
<1>5. ASSUME NEW k \in Calls, WriteHeader(k) \/ WriteBody(k) PROVE Registered'
  BY <1>0, <1>b, <1>5 DEF TypeOK, WriteHeader, WriteBody, InProgress
<1>6. ASSUME NEW verifies \in BOOLEAN, Answer(verifies) PROVE Registered'
  BY <1>b, <1>6 DEF Answer, InProgress
<1>7. CASE TakeFrame
  <2> DEFINE f == Head(inbox)
  <2>1. /\ UNCHANGED <<id, tcs>> /\ routed = None
        /\ \A k \in Calls : InProgress(k)' <=> InProgress(k)
    BY <1>0, <1>7 DEF TakeFrame, Routing, InProgress
  <2>2. CASE f.kind = "answer" /\ f.verifies /\ pending[f.id] # None
    <3>1. f \in Frames
      BY <1>0, <1>7, FirstTaken DEF TypeOK, TakeFrame
    <3>2. f.id \in Ids
      BY ONLY <2>2, <3>1 DEF Frames
    <3>3. /\ routed' = [to |-> pending[f.id], of |-> f.of] /\ routed'.to = pending[f.id]
          /\ pending' = [pending EXCEPT ![f.id] = None]
      BY <1>7, <2>2 DEF TakeFrame
    <3>4. \A n \in Ids : n # f.id => pending'[n] = pending[n]
      BY <1>0, <3>2, <3>3 DEF TypeOK
    <3>5. routed' # None
      <4>1. pending[f.id] \in Calls /\ f.of \in Calls
        <5>1. f.of \in Calls
          BY ONLY <2>2, <3>1 DEF Frames
        <5> QED BY <1>0, <2>2, <3>2, <5>1 DEF TypeOK
      <4> QED BY <3>3, <4>1, ConstantsAssumption
    <3>6. \A k \in Calls : InProgress(k) /\ tcs[k] = "unset" => pending[id[k]] = k
      BY <1>0, <2>1 DEF Registered
    <3> QED BY <1>a, <2>1, <3>3, <3>4, <3>5, <3>6 DEF Registered
  <2>3. CASE ~(f.kind = "answer" /\ f.verifies /\ pending[f.id] # None)
    BY <1>7, <1>b, <2>1, <2>3 DEF TakeFrame
  <2> QED BY <2>2, <2>3
<1>8. CASE SetResult
  <2>1. /\ UNCHANGED <<id, pending>>
        /\ \A k \in Calls : InProgress(k)' <=> InProgress(k)
    BY <1>8 DEF SetResult, InProgress
  <2>2. \A k \in Calls : tcs'[k] = "unset" => tcs[k] = "unset" /\ k # routed.to
    BY <1>0, <1>8 DEF SetResult, TypeOK, Routing, Begun
  <2> QED BY <1>0, <2>1, <2>2 DEF Registered
<1> QED BY <1>1, <1>2, <1>3, <1>4, <1>5, <1>6, <1>7, <1>8, Cases DEF TimeoutStep

LEMMA InUseStep ==
  ASSUME IInv, [Next]_vars
  PROVE  InUse'
<1> USE DEF callState, daemon, reader, history
<1>0. TypeOK /\ Numbered /\ Fresh /\ Routing /\ InUse
  BY TwoParts DEF IInv
<1>a. \A k \in Calls : \A n \in Ids : pending'[n] = k => id'[k] = n
  BY RoutingStep DEF Routing
<1>b. ASSUME UNCHANGED outcome, \A k \in Calls : InProgress(k) => InProgress(k)',
             \A k \in Calls : \A n \in Ids : pending'[n] = k => pending[n] = k
      PROVE  InUse'
  BY <1>0, <1>a, <1>b DEF InUse
<1>1. CASE QuietStep
  <2>1. ASSUME NEW k \in Calls, WriteBreaks(k) PROVE InUse'
    <3>1. \A j \in Calls : outcome[j] = "broken" \/ InProgress(j) =>
            outcome'[j] = "broken" \/ InProgress(j)'
      BY <1>0, <2>1 DEF TypeOK, WriteBreaks, Returns, InProgress
    <3>2. UNCHANGED pending
      BY <2>1 DEF WriteBreaks
    <3> QED BY <1>0, <1>a, <3>1, <3>2 DEF InUse
  <2>2. ASSUME NEW k \in Calls, ReturnAnswer(k) PROVE InUse'
    <3>1. \A n \in Ids : pending[n] # k
      BY <1>0, <2>2 DEF ReturnAnswer, Routing
    <3>2. \A j \in Calls : j # k => outcome'[j] = outcome[j]
                                    /\ (InProgress(j)' <=> InProgress(j))
      BY <1>0, <2>2 DEF TypeOK, ReturnAnswer, Returns, InProgress
    <3>3. UNCHANGED pending
      BY <2>2 DEF ReturnAnswer
    <3> QED BY <1>0, <1>a, <3>1, <3>2, <3>3 DEF InUse
  <2>3. CASE EndLoop \/ HandlerReturns \/ HandlerDisposes
    BY <1>b, <2>3 DEF InProgress, EndLoop, HandlerReturns, HandlerDisposes
  <2>4. CASE StartDispose \/ DisposeThrows \/ UNCHANGED vars
    BY <1>b, <2>4 DEF InProgress, StartDispose, DisposeThrows, vars
  <2>5. ASSUME NEW k \in Calls, TimerFires(k) PROVE InUse'
    BY <1>b, <2>5 DEF InProgress, TimerFires
  <2> QED BY <1>1, <2>1, <2>2, <2>3, <2>4, <2>5 DEF QuietStep
<1>2. ASSUME NEW k \in Calls, WriteCancelled(k) \/ ReturnTimeout(k) PROVE InUse'
  <2>1. TimesOut(k) /\ UNCHANGED id
    BY <1>2 DEF WriteCancelled, ReturnTimeout
  <2>2. \A j \in Calls : j # k => outcome'[j] = outcome[j]
                                  /\ (InProgress(j)' <=> InProgress(j))
    BY <1>0, <2>1 DEF TypeOK, TimesOut, Returns, InProgress
  <2>3. \A j \in Calls : \A n \in Ids : pending'[n] = j => pending[n] = j /\ n # id[k]
    BY <1>0, <2>1, ConstantsAssumption DEF TypeOK, TimesOut
  <2>4. \A n \in Ids : pending'[n] # k
    BY <1>0, <2>3 DEF Routing
  <2> QED BY <1>0, <1>a, <2>2, <2>3, <2>4 DEF InUse
<1>3. CASE EndsSession \/ Notify
  BY <1>b, <1>3 DEF EndsSession, Notify, InProgress
<1>4. ASSUME NEW k \in Calls, Begin(k) PROVE InUse'
  <2>1. /\ \A j \in Calls : j # k => (InProgress(j)' <=> InProgress(j))
        /\ InProgress(k)' /\ UNCHANGED outcome
        /\ \A n \in Ids : pending'[n] \in {k, pending[n]}
    BY <1>0, <1>4 DEF TypeOK, Begin, InProgress
  <2> QED BY <1>0, <1>a, <2>1 DEF InUse
<1>5. ASSUME NEW k \in Calls, WriteHeader(k) \/ WriteBody(k) PROVE InUse'
  BY <1>0, <1>b, <1>5 DEF TypeOK, WriteHeader, WriteBody, InProgress
<1>6. ASSUME NEW verifies \in BOOLEAN, Answer(verifies) PROVE InUse'
  BY <1>b, <1>6 DEF Answer, InProgress
<1>7. CASE TakeFrame
  <2>1. \A k \in Calls : \A n \in Ids : pending'[n] = k => pending[n] = k
    BY <1>0, <1>7, ConstantsAssumption DEF TakeFrame, TypeOK
  <2> QED BY <1>7, <1>b, <2>1 DEF TakeFrame, InProgress
<1>8. CASE SetResult
  BY <1>8, <1>b DEF SetResult, InProgress
<1> QED BY <1>1, <1>2, <1>3, <1>4, <1>5, <1>6, <1>7, <1>8, Cases DEF TimeoutStep

(* What follows when the pipe is left alone, and only a pipe that is       *)
(* closed or a client that is disposed of lets a call leave its body.      *)
LEMMA WireUntouched ==
  ASSUME SerialWire, UNCHANGED <<wire, session, overlapped>>,
         disposal' = "no" => disposal = "no",
         \A k \in Calls : InProgress(k)' => InProgress(k),
         \A k \in Calls : at'[k] = "body" => at[k] = "body",
         \A k \in Calls : at[k] = "body" /\ at'[k] # "body" =>
           session # "open" \/ disposal' # "no"
  PROVE  SerialWire'
BY DEF SerialWire, Whole

LEMMA SerialWireStep ==
  ASSUME IInv, [Next]_vars
  PROVE  SerialWire'
<1> USE DEF callState, daemon, reader, history
<1>0. TypeOK /\ SerialWire /\ wire \in Seq(Parts)
  BY DEF IInv, TypeOK
<1>1. CASE QuietStep
  <2>1. ASSUME NEW k \in Calls, WriteBreaks(k) \/ TimerFires(k) \/ ReturnAnswer(k)
        PROVE  SerialWire'
    BY <1>0, <2>1, WireUntouched DEF TypeOK, InProgress, WriteBreaks, TimerFires,
       ReturnAnswer, Returns
  <2>2. CASE EndLoop \/ HandlerReturns \/ HandlerDisposes
    BY <1>0, <2>2, WireUntouched DEF InProgress, EndLoop, HandlerReturns, HandlerDisposes
  <2>3. CASE StartDispose \/ DisposeThrows \/ UNCHANGED vars
    BY <1>0, <2>3, WireUntouched DEF InProgress, StartDispose, DisposeThrows, vars
  <2> QED BY <1>1, <2>1, <2>2, <2>3 DEF QuietStep
<1>2. ASSUME NEW k \in Calls, WriteCancelled(k) \/ ReturnTimeout(k) PROVE SerialWire'
  BY <1>0, <1>2, WireUntouched DEF TypeOK, InProgress, WriteCancelled, ReturnTimeout,
     TimesOut, Returns
<1>3. CASE EndsSession
  BY <1>0, <1>3 DEF EndsSession, SerialWire, Whole, InProgress
<1>4. ASSUME NEW k \in Calls, Begin(k) PROVE SerialWire'
  <2>1. UNCHANGED <<wire, session, disposal>>
    BY <1>4 DEF Begin
  <2>2. CASE overlapped'
    BY <1>0, <2>1, <2>2 DEF SerialWire
  <2>3. CASE ~overlapped'
    <3>1. ~overlapped /\ \A j \in Calls : ~InProgress(j)
      BY <1>4, <2>3 DEF Begin, Overlaps
    <3>2. \A j \in Calls : (InProgress(j)' => j = k) /\ at[j] # "body" /\ at'[j] # "body"
      BY <1>0, <1>4, <3>1 DEF TypeOK, Begin, InProgress
    <3> QED BY <1>0, <2>1, <3>1, <3>2 DEF SerialWire, Whole
  <2> QED BY <2>2, <2>3
<1>5. ASSUME NEW k \in Calls, WriteHeader(k) \/ WriteBody(k) PROVE SerialWire'
  <2>1. /\ UNCHANGED <<session, overlapped, disposal>> /\ session = "open"
        /\ \A j \in Calls : InProgress(j)' <=> InProgress(j)
        /\ InProgress(k)
    BY <1>0, <1>5 DEF TypeOK, WriteHeader, WriteBody, InProgress
  <2>2. CASE overlapped
    BY <2>1, <2>2 DEF SerialWire
  <2>3. ASSUME ~overlapped PROVE SerialWire'
    <3>1. \A j \in Calls : j # k => at[j] # "body" /\ at'[j] # "body"
      BY <1>0, <1>5, <2>1, <2>3 DEF SerialWire, InProgress
    <3>2. Len(wire) \in Nat /\ DOMAIN wire = 1 .. Len(wire)
      BY <1>0
    <3>3. CASE WriteHeader(k)
      <4>1. /\ wire' = Append(wire, [part |-> "head", of |-> k])
            /\ at[k] # "body" /\ at'[k] = "body" /\ disposal = "no"
        BY <1>0, <3>3 DEF TypeOK, WriteHeader
      <4>2. Len(wire) % 2 = 0 /\ Whole
        BY <1>0, <2>1, <2>3, <3>1, <4>1 DEF SerialWire
      <4>3. /\ Len(wire') = Len(wire) + 1 /\ DOMAIN wire' = 1 .. Len(wire) + 1
            /\ \A i \in DOMAIN wire : wire'[i] = wire[i]
            /\ wire'[Len(wire) + 1] = [part |-> "head", of |-> k]
        BY ONLY <1>0, <4>1, AppendProperties, <3>2
      <4>4. Whole' /\ Len(wire') % 2 = 1 /\ wire'[Len(wire')].of = k
        BY ONLY <3>2, <4>2, <4>3 DEF Whole
      <4> QED BY <1>0, <2>1, <2>3, <3>1, <4>1, <4>4 DEF SerialWire
    <3>4. CASE WriteBody(k)
      <4>1. /\ wire' = Append(wire, [part |-> "body", of |-> k])
            /\ at[k] = "body" /\ at'[k] # "body"
        BY <1>0, <3>4 DEF TypeOK, WriteBody
      <4>2. Len(wire) % 2 = 1 /\ wire[Len(wire)].of = k /\ Whole
        BY <1>0, <2>1, <2>3, <4>1 DEF SerialWire
      <4>3. /\ Len(wire') = Len(wire) + 1 /\ DOMAIN wire' = 1 .. Len(wire) + 1
            /\ \A i \in DOMAIN wire : wire'[i] = wire[i]
            /\ wire'[Len(wire) + 1] = [part |-> "body", of |-> k]
        BY ONLY <1>0, <4>1, AppendProperties, <3>2
      <4>4. Whole' /\ Len(wire') % 2 = 0
        BY ONLY <3>2, <4>2, <4>3 DEF Whole
      <4> QED BY <1>0, <2>1, <2>3, <3>1, <4>1, <4>4 DEF SerialWire
    <3> QED BY <1>5, <3>3, <3>4
  <2> QED BY <2>2, <2>3
<1>6. ASSUME NEW verifies \in BOOLEAN, Answer(verifies) PROVE SerialWire'
  <2>1. /\ UNCHANGED <<at, session, overlapped, disposal>> /\ session = "open"
        /\ \A j \in Calls : InProgress(j)' <=> InProgress(j)
    BY <1>6 DEF Answer, InProgress
  <2>2. /\ Len(wire') = Len(wire) - 2 /\ Len(wire) \in Nat /\ Len(wire) >= 2
        /\ DOMAIN wire' = 1 .. Len(wire) - 2 /\ DOMAIN wire = 1 .. Len(wire)
        /\ \A i \in DOMAIN wire' : wire'[i] = wire[i + 2]
    BY <1>0, <1>6, TwoTaken DEF Answer
  <2>3. Len(wire') % 2 = Len(wire) % 2
    BY ONLY <2>2
  <2>4. Len(wire) % 2 = 1 => wire'[Len(wire')] = wire[Len(wire)]
    BY ONLY <2>2
  <2>5. Whole => Whole'
    <3> SUFFICES ASSUME Whole, NEW i \in DOMAIN wire'
                 PROVE  /\ wire'[i].part = IF i % 2 = 1 THEN "head" ELSE "body"
                        /\ i % 2 = 0 => wire'[i].of = wire'[i - 1].of
      BY DEF Whole
    <3>1. i \in Nat /\ i + 2 \in DOMAIN wire /\ (i + 2) % 2 = i % 2
          /\ wire'[i] = wire[i + 2]
      BY ONLY <2>2
    <3>2. i % 2 = 0 => wire'[i - 1] = wire[(i + 2) - 1]
      BY ONLY <2>2
    <3> QED BY <3>1, <3>2 DEF Whole
  <2> QED BY <1>0, <2>1, <2>3, <2>4, <2>5 DEF SerialWire
<1>7. CASE Notify \/ TakeFrame \/ SetResult
  BY <1>0, <1>7, WireUntouched DEF Notify, TakeFrame, SetResult, InProgress
<1> QED BY <1>1, <1>2, <1>3, <1>4, <1>5, <1>6, <1>7, Cases DEF TimeoutStep

-----------------------------------------------------------------------------

(* IInv is inductive.                                                      *)
THEOREM InductiveInvariant == Spec => []IInv
<1>1. IInv /\ [Next]_vars => IInv'
  BY TypeStep, NumberStep, FreshStep, RoutingStep, OwnAnswerStep, RegisteredStep,
     InUseStep, SerialWireStep DEF IInv, PendingAccounting, Registered, InUse
<1> QED BY InitIInv, <1>1, PTL DEF Spec

(* The variables keep their types, and the pipe back to the client never   *)
(* holds more frames than there is room for.                               *)
THEOREM TypeCorrect == Spec => []TypeOK
BY InductiveInvariant, PTL DEF IInv

(* Whatever overlaps, is late or gives up, a call of CallAsync returns the *)
(* answer to its own request or none.                                      *)
THEOREM OwnAnswers == Spec => []OwnAnswer
BY InductiveInvariant, PTL DEF IInv

(* _pending holds the calls that can still be answered, each under its own *)
(* id, and beside them only those whose write threw.                       *)
THEOREM Accounting == Spec => []PendingAccounting
BY InductiveInvariant, PTL DEF IInv

(* Calls made one after the other never mix their frames, whichever of     *)
(* them time out, are cancelled or break.                                  *)
THEOREM SerialFrames == Spec => []SerialFramesWhole
<1>1. IInv => SerialFramesWhole
  BY DEF IInv, SerialWire, SerialFramesWhole
<1> QED BY InductiveInvariant, <1>1, PTL
=============================================================================
