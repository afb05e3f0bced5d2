------------------------ MODULE UpdateManager_proofs ------------------------
(***************************************************************************)
(* Theorems about UpdateManager, for any packages and any working          *)
(* directory, whatever fails and whenever the daemon is killed.            *)
(***************************************************************************)
EXTENDS UpdateManager, TLAPS

(* A run of apply_update that has not returned has no result; Ok comes     *)
(* after the last file.                                                    *)
Progress ==
  /\ step # "idle" => result = "none"
  /\ result = "ok" => package # None /\ next > Len(package.files)

IInv == TypeOK /\ Progress /\ AppliedPrefix

LEMMA InitIInv == Init => IInv
BY ConstantsAssumption
   DEF Init, IInv, TypeOK, Progress, AppliedPrefix, Contents, Versions

(* What a package brings is made of paths and of a version.                *)
LEMMA PackageFacts ==
  ASSUME NEW p \in Packages
  PROVE  /\ p # None
         /\ p.files \in Seq(Paths) /\ Len(p.files) \in Nat
         /\ DOMAIN p.files = 1 .. Len(p.files)
         /\ p.files # <<>> => 1 \in DOMAIN p.files
         /\ p.version \in Contents
BY ConstantsAssumption DEF Contents, Versions

(* While apply_update runs, it has a package and a file in hand.           *)
LEMMA InHand ==
  ASSUME TypeOK, step # "idle"
  PROVE  /\ package \in Packages /\ package # None
         /\ next \in 1 .. Len(package.files) /\ Len(package.files) \in Nat
         /\ DOMAIN package.files = 1 .. Len(package.files)
         /\ File = package.files[next] /\ File \in Paths
         /\ package.version \in Contents
BY PackageFacts DEF TypeOK, File

-----------------------------------------------------------------------------

(* Steps that move on within a file, or give up: nothing is installed.     *)
LEMMA SameFiles ==
  ASSUME IInv, step # "idle",
         UNCHANGED <<disk, package, next, before, restart>>,
         dirs' \in SUBSET Paths,
         \/ step' \in {"decode", "open"} /\ UNCHANGED result
         \/ step' = "idle" /\ result' \in {"failed", "crashed"}
  PROVE  IInv'
BY InHand DEF IInv, TypeOK, Progress, AppliedPrefix, restart

LEMMA ApplyStep == ASSUME IInv, NEW p \in Packages, Apply(p) PROVE IInv'
<1>1. /\ package' = p /\ next' = 1 /\ before' = disk /\ disk' = disk
      /\ dirs' = dirs /\ UNCHANGED restart
      /\ \/ p.files = <<>> /\ step' = "idle" /\ result' = "ok"
         \/ p.files # <<>> /\ step' = "mkdir" /\ result' = "none"
  BY DEF Apply
<1>2. TypeOK'
  BY <1>1, PackageFacts DEF IInv, TypeOK, restart
<1>3. Progress'
  BY <1>1, PackageFacts DEF Progress
<1>4. AppliedPrefix'
  BY <1>1, PackageFacts DEF AppliedPrefix, IInv, TypeOK
<1> QED BY <1>2, <1>3, <1>4 DEF IInv

(* fs::write has opened the file in hand: that one is cut off.             *)
LEMMA OpenStep == ASSUME IInv, Open PROVE IInv'
<1>1. /\ step = "open" /\ step' = "write"
      /\ disk' = [disk EXCEPT ![File] = "partial"]
      /\ UNCHANGED <<dirs, package, next, result, before, restart>>
  BY DEF Open
<1>2. TypeOK' /\ Progress'
  BY <1>1, InHand DEF IInv, TypeOK, Progress, Contents, restart
<1>3. AppliedPrefix'
  BY <1>1, InHand DEF AppliedPrefix, IInv, TypeOK, Progress
<1> QED BY <1>2, <1>3 DEF IInv

(* The file in hand is installed, and the next one is in hand, if any.     *)
LEMMA WriteStep == ASSUME IInv, Write PROVE IInv'
<1>1. /\ step = "write" /\ next' = next + 1
      /\ disk' = [disk EXCEPT ![File] = package.version]
      /\ \/ next = Len(package.files) /\ step' = "idle" /\ result' = "ok"
         \/ next # Len(package.files) /\ step' = "mkdir" /\ result' = result
      /\ UNCHANGED <<dirs, package, before, restart>>
  BY DEF Write, NextFile
<1>2. TypeOK'
  BY <1>1, InHand DEF IInv, TypeOK, restart
<1>3. Progress'
  BY <1>1, InHand DEF IInv, Progress, TypeOK
<1>4. AppliedPrefix'
  <2> SUFFICES ASSUME NEW p \in Paths
               PROVE  disk'[p] = IF \E i \in DOMAIN package.files :
                                      package.files[i] = p /\ i < next + 1
                                 THEN package.version ELSE before[p]
    BY <1>1 DEF AppliedPrefix
  <2>1. CASE p = File
    BY <1>1, <2>1, InHand DEF IInv, TypeOK
  <2>2. CASE p # File
    <3>1. disk'[p] = disk[p]
      BY <1>1, <2>2 DEF IInv, TypeOK
    <3>2. \A i \in DOMAIN package.files :
            package.files[i] = p => (i < next + 1 <=> i < next)
      BY <1>1, <2>2, InHand DEF IInv
    <3>3. disk[p] = IF \E i \in DOMAIN package.files : package.files[i] = p /\ i < next
                    THEN package.version ELSE before[p]
      BY <1>1, <2>2, InHand DEF IInv, AppliedPrefix
    <3> QED BY <3>1, <3>2, <3>3
  <2> QED BY <2>1, <2>2
<1> QED BY <1>2, <1>3, <1>4 DEF IInv

(* The restart script touches nothing of the update.                       *)
LEMMA RestartStep ==
  ASSUME IInv, StageRestart \/ DaemonExits \/ Wait \/ Copy \/ Start \/ DeleteSelf
  PROVE  IInv'
<1>1. UNCHANGED apply /\ TypeOK'
  BY DEF IInv, TypeOK, apply, StageRestart, DaemonExits, Wait, Copy, Start, DeleteSelf
<1> QED BY <1>1 DEF IInv, Progress, AppliedPrefix, apply

LEMMA NextIInv == ASSUME IInv, [Next]_vars PROVE IInv'
<1>1. ASSUME NEW p \in Packages, Apply(p) PROVE IInv'
  BY <1>1, ApplyStep
<1>2. CASE CreateDir \/ Decode
  <2>1. dirs' \in SUBSET Paths
    BY <1>2, InHand DEF CreateDir, Decode, IInv, TypeOK
  <2> QED BY <1>2, <2>1, SameFiles DEF CreateDir, Decode
<1>3. CASE CreateDirFails \/ DecodeFails \/ OpenFails \/ WriteFails \/ Crash
  <2>1. dirs' \in SUBSET Paths
    BY <1>3 DEF CreateDirFails, DecodeFails, OpenFails, WriteFails, Crash, IInv, TypeOK
  <2> QED BY <1>3, <2>1, SameFiles
          DEF CreateDirFails, DecodeFails, OpenFails, WriteFails, Crash, Fails
<1>4. CASE Open
  BY <1>4, OpenStep
<1>5. CASE Write
  BY <1>5, WriteStep
<1>6. CASE StageRestart \/ DaemonExits \/ Wait \/ Copy \/ Start \/ DeleteSelf
  BY <1>6, RestartStep
<1>7. CASE UNCHANGED vars
  BY <1>7 DEF vars, apply, restart, IInv, TypeOK, Progress, AppliedPrefix
<1> QED BY <1>1, <1>2, <1>3, <1>4, <1>5, <1>6, <1>7 DEF Next

THEOREM InductiveInvariant == Spec => []IInv
BY InitIInv, NextIInv, PTL DEF Spec

(* The variables of apply_update and of the restart keep their types.      *)
THEOREM TypeCorrect == Spec => []TypeOK
BY InductiveInvariant, PTL DEF IInv

(* Wherever apply_update stops, the files before the one in hand are       *)
(* installed, the others untouched, and at most that one is cut off.       *)
THEOREM Prefix == Spec => []AppliedPrefix
BY InductiveInvariant, PTL DEF IInv

(* When apply_update returns Ok the whole package is on disk.              *)
THEOREM OkInstalled == Spec => []OkMeansInstalled
<1>1. IInv => OkMeansInstalled
  <2> SUFFICES ASSUME IInv, result = "ok", NEW i \in DOMAIN package.files
               PROVE  disk[package.files[i]] = package.version
    BY DEF OkMeansInstalled
  <2>1. package \in Packages /\ package # None
    BY DEF IInv, Progress, TypeOK
  <2>2. package.files[i] \in Paths /\ i < next
    BY <2>1, PackageFacts DEF IInv, Progress, TypeOK
  <2> QED BY <2>1, <2>2 DEF IInv, AppliedPrefix
<1> QED BY <1>1, InductiveInvariant, PTL
=============================================================================
