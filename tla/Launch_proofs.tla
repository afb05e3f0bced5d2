---------------------------- MODULE Launch_proofs ----------------------------
(***************************************************************************)
(* Theorems about Launch, for a redirected stdout of any capacity that     *)
(* takes the init line and one more.                                       *)
(***************************************************************************)
EXTENDS Launch, SequenceTheorems, TLAPS

(* What the daemon has accepted by the time it gets to a stage.            *)
Accepted ==
  /\ daemon \in {"directory", "listen", "accept", "serve"} => key = "valid"
  /\ daemon \in {"listen", "accept", "serve"} => dir # "relativeReadOnly"

IInv == TypeOK /\ Accepted /\ ConnectedToValid

LEMMA InitIInv == Init => IInv
<1> SUFFICES ASSUME Init PROVE IInv
  OBVIOUS
<1>1. out = <<>> /\ daemon = "none" /\ client = "idle"
  BY DEF Init
<1>2. out \in Seq({"init", "log"}) /\ Len(out) <= OutCap
  BY <1>1, OutCapAssumption
<1> QED BY <1>1, <1>2 DEF Init, IInv, TypeOK, Accepted, ConnectedToValid, Stages

(* What is emitted is lines, and they fit.                                 *)
Lines == Seq({"init", "log"})

LEMMA EmitFits ==
  ASSUME out \in Lines, Len(out) <= OutCap, NEW lines \in Lines, Emit(lines)
  PROVE  out' \in Lines /\ Len(out') <= OutCap
<1>1. CASE client = "gone"
  BY <1>1 DEF Emit
<1>2. CASE client # "gone"
  <2>1. out' = out \o lines /\ Len(out) + Len(lines) <= OutCap
    BY <1>2 DEF Emit
  <2> QED BY <2>1, ConcatProperties DEF Lines
<1> QED BY <1>1, <1>2

LEMMA SomeLines ==
  LogLine \in Lines /\ <<"init">> \o LogLine \in Lines /\ <<>> \in Lines
<1>1. /\ <<"init">> \in Lines /\ <<"log">> \in Lines /\ <<>> \in Lines
      /\ <<"init">> \o <<"log">> \in Lines /\ <<"init">> \o <<>> \in Lines
  BY DEF Lines
<1>2. LogLine = <<"log">> \/ LogLine = <<>>
  BY DEF LogLine
<1> QED BY <1>1, <1>2

LEMMA ReadFits ==
  ASSUME out \in Lines, Len(out) <= OutCap, NEW n \in 1 .. Len(out)
  PROVE  LET rest == SubSeq(out, n + 1, Len(out))
         IN  rest \in Lines /\ Len(rest) <= OutCap
BY OutCapAssumption DEF Lines

-----------------------------------------------------------------------------

LEMMA DaemonStepIInv == ASSUME IInv, DaemonStep PROVE IInv'
<1>1. out \in Lines /\ Len(out) <= OutCap
  BY DEF IInv, TypeOK, Lines
<1>2. UNCHANGED <<environment, client, loop, fault>>
  BY DEF DaemonStep, ReadEnvironment, Announce, NewState, PrepareDirectory, Listen,
         Serve, Reaccept, Goes
<1>3. out' \in Lines /\ Len(out') <= OutCap
  <2>1. ASSUME NEW lines \in Lines, Emit(lines)
        PROVE  out' \in Lines /\ Len(out') <= OutCap
    BY <1>1, <2>1, EmitFits
  <2> QED BY <1>1, <2>1, SomeLines
          DEF DaemonStep, ReadEnvironment, Announce, NewState, PrepareDirectory,
              Listen, Serve, Reaccept
<1>4. /\ daemon' \in Stages /\ asked' \in BOOLEAN
      /\ Accepted'
  BY <1>2 DEF IInv, TypeOK, Accepted, Stages, Keys, Dirs, environment, DaemonStep,
              ReadEnvironment, Announce, NewState, PrepareDirectory, Listen, Serve,
              Reaccept, Goes
<1> QED BY <1>2, <1>3, <1>4 DEF IInv, TypeOK, ConnectedToValid, environment, Lines

LEMMA ClientStepIInv ==
  ASSUME IInv, LaunchStep \/ Start \/ Finalize \/ Ask \/ Dispose \/ AppExits
  PROVE  IInv'
<1>1. out \in Lines /\ Len(out) <= OutCap
  BY DEF IInv, TypeOK, Lines
<1>2. CASE ReadLine
  <2>1. out' \in Lines /\ Len(out') <= OutCap
    BY <1>1, <1>2, ReadFits DEF ReadLine
  <2> QED BY <1>2, <2>1
          DEF ReadLine, IInv, TypeOK, Accepted, ConnectedToValid, environment, Lines
<1>3. CASE Connect
  BY <1>3 DEF Connect, IInv, TypeOK, Accepted, ConnectedToValid, Stages, environment
<1>4. CASE ReadNothing \/ Decode \/ ConnectTimeout \/ Start
  BY <1>4 DEF ReadNothing, Decode, ConnectTimeout, Start, Throws, IInv, TypeOK,
              Accepted, ConnectedToValid, Stages, environment
<1>5. CASE LoopEnds \/ DisposeThrows \/ EndProcess
  BY <1>5 DEF LoopEnds, DisposeThrows, EndProcess, Throws, IInv, TypeOK, Accepted,
              ConnectedToValid, Stages, environment
<1>6. CASE Finalize \/ Ask \/ Dispose \/ AppExits
  BY <1>6 DEF Finalize, Ask, Dispose, AppExits, IInv, TypeOK, Accepted,
              ConnectedToValid, Stages, environment
<1> QED BY <1>2, <1>3, <1>4, <1>5, <1>6 DEF LaunchStep

THEOREM InductiveInvariant == FairSpec => []IInv
<1>1. IInv /\ [Next]_vars => IInv'
  BY DaemonStepIInv, ClientStepIInv
     DEF Next, vars, IInv, TypeOK, Accepted, ConnectedToValid, environment
<1> QED BY <1>1, InitIInv, PTL DEF FairSpec, Spec

(* The variables of the launch keep their types, and the daemon's stdout   *)
(* never holds more than its capacity.                                     *)
THEOREM TypeCorrect == FairSpec => []TypeOK
BY InductiveInvariant, PTL DEF IInv

(* The client gets a connection only from a daemon that has accepted its   *)
(* key and its directory, although it was told of the pipe before.         *)
THEOREM ConnectsToValid == FairSpec => []ConnectedToValid
BY InductiveInvariant, PTL DEF IInv
=============================================================================
