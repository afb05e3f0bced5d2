--------------------------- MODULE UpdateManager ---------------------------
(***************************************************************************)
(* src/update/manager.rs: apply_update, which writes the files of an       *)
(* update package one after the other, can fail at every step, and can be  *)
(* cut off by the end of the daemon; and stage_restart, with the script it *)
(* writes and what cmd.exe makes of that script.                           *)
(***************************************************************************)
EXTENDS Naturals, Sequences

CONSTANTS
  Paths,      \* relative paths of files in the working directory
  Old,        \* what is installed before any update
  Packages,   \* update packages: [files : a sequence of paths, bad : the
              \* indices whose data is not base64, version : what they bring]
  None        \* no package, no process, no executable

ASSUME ConstantsAssumption ==
  /\ \A p \in Packages : p.files \in Seq(Paths) /\ p.bad \subseteq DOMAIN p.files
  /\ None \notin Packages

Versions == {Old} \cup {p.version : p \in Packages}

VARIABLES
  disk,       \* content of each file: a version, absent, or cut off
  dirs,       \* paths whose parent directory exists
  package,    \* the package apply_update works on, or last did
  next,       \* the index of the file it is at
  step,       \* what it does for that file
  result,     \* how it returned
  before,     \* history: disk when it was called
  daemon,     \* the process that called stage_restart: "running", "exited"
  script,     \* the line restart_daemon.bat is at
  exe,        \* the executable on disk
  started     \* the executable the script has started

apply   == <<disk, dirs, package, next, step, result, before>>
restart == <<daemon, script, exe, started>>
vars == <<apply, restart>>

Contents == Versions \cup {"absent", "partial"}

TypeOK ==
  /\ disk \in [Paths -> Contents]
  /\ dirs \in SUBSET Paths
  /\ package \in Packages \cup {None}
  /\ next \in Nat
  /\ step \in {"idle", "mkdir", "decode", "open", "write"}
  /\ result \in {"none", "ok", "failed", "crashed"}
  /\ before \in [Paths -> Contents]
  /\ daemon \in {"running", "exited"}
  /\ script \in {"none", "wait", "copy", "start", "del", "gone"}
  /\ exe \in {"old", "new"}
  /\ started \in {None, "old", "new"}
  /\ step # "idle" => package # None /\ next \in DOMAIN package.files

Init ==
  /\ disk \in [Paths -> {Old, "absent"}]
  /\ dirs = {p \in Paths : disk[p] = Old}
  /\ package = None
  /\ next = 1
  /\ step = "idle"
  /\ result = "none"
  /\ before = disk
  /\ daemon = "running"
  /\ script = "none"
  /\ exe = "old"
  /\ started = None

-----------------------------------------------------------------------------
(* apply_update.                                                           *)

File == package.files[next]

(* A faulty variant: off by one.                                           *)
NextFileOnceMore ==
  /\ next' = next + 1
  /\ IF next > Len(package.files)
     THEN step' = "idle" /\ result' = "ok"
     ELSE step' = "mkdir" /\ UNCHANGED result

(* The loop goes on to the next file, or is over.                          *)
NextFile ==
  /\ next' = next + 1
  /\ IF next = Len(package.files)
     THEN step' = "idle" /\ result' = "ok"
     ELSE step' = "mkdir" /\ UNCHANGED result

Fails ==
  /\ step' = "idle"
  /\ result' = "failed"
  /\ UNCHANGED <<package, next, before, restart>>

Apply(p) ==
  /\ step = "idle"
  /\ daemon = "running"
  /\ package' = p
  /\ next' = 1
  /\ before' = disk
  /\ IF p.files = <<>>
     THEN step' = "idle" /\ result' = "ok"
     ELSE step' = "mkdir" /\ result' = "none"
  /\ UNCHANGED <<disk, dirs, restart>>

CreateDir ==
  /\ step = "mkdir"
  /\ dirs' = dirs \cup {File}
  /\ step' = "decode"
  /\ UNCHANGED <<disk, package, next, result, before, restart>>

CreateDirFails ==
  /\ step = "mkdir"
  /\ Fails
  /\ UNCHANGED <<disk, dirs>>

Decode ==
  /\ step = "decode"
  /\ next \notin package.bad
  /\ step' = "open"
  /\ UNCHANGED <<disk, dirs, package, next, result, before, restart>>

(* A faulty variant: a file that does not decode is skipped.               *)
DecodeSkips ==
  /\ step = "decode"
  /\ next \in package.bad
  /\ NextFile
  /\ UNCHANGED <<disk, dirs, package, before, restart>>

DecodeFails ==
  /\ step = "decode"
  /\ next \in package.bad
  /\ Fails
  /\ UNCHANGED <<disk, dirs>>

(* fs::write opens the file, which truncates it, and then writes.  It may  *)
(* be refused, as for a file in use, which stays what it was.              *)
Open ==
  /\ step = "open"
  /\ disk' = [disk EXCEPT ![File] = "partial"]
  /\ step' = "write"
  /\ UNCHANGED <<dirs, package, next, result, before, restart>>

OpenFails ==
  /\ step = "open"
  /\ Fails
  /\ UNCHANGED <<disk, dirs>>

Write ==
  /\ step = "write"
  /\ disk' = [disk EXCEPT ![File] = package.version]
  /\ NextFile
  /\ UNCHANGED <<dirs, package, before, restart>>

(* A faulty variant: an error of write is taken for the end.               *)
WriteFailsOk ==
  /\ step = "write"
  /\ step' = "idle"
  /\ result' = "ok"
  /\ UNCHANGED <<disk, dirs, package, next, before, restart>>

(* The disk is full: what was written stays.                               *)
WriteFails ==
  /\ step = "write"
  /\ Fails
  /\ UNCHANGED <<disk, dirs>>

(* The daemon is killed, as the client's Dispose does, or exits, and is    *)
(* launched again.                                                         *)
Crash ==
  /\ step # "idle"
  /\ step' = "idle"
  /\ result' = "crashed"
  /\ UNCHANGED <<disk, dirs, package, next, before, restart>>

-----------------------------------------------------------------------------
(* stage_restart, and the script.                                          *)

(* The script is written and handed to cmd.exe.                            *)
StageRestart ==
  /\ daemon = "running"
  /\ step = "idle"
  /\ script = "none"
  /\ script' = "wait"
  /\ UNCHANGED <<apply, daemon, exe, started>>

DaemonExits ==
  /\ daemon = "running"
  /\ step = "idle"
  /\ daemon' = "exited"
  /\ UNCHANGED <<apply, script, exe, started>>

(* What cmd.exe puts for %PPID%: it defines no such variable, so tasklist  *)
(* is asked for no process and findstr finds none.                         *)
PPID == None

(* :wait goes round while tasklist finds the process.                      *)
Wait ==
  /\ script = "wait"
  /\ ~(PPID = "daemon" /\ daemon = "running")
  /\ script' = "copy"
  /\ UNCHANGED <<apply, daemon, exe, started>>

(* copy /Y fails on the executable of a running process, unnoticed.        *)
Copy ==
  /\ script = "copy"
  /\ exe' = IF daemon = "running" THEN exe ELSE "new"
  /\ script' = "start"
  /\ UNCHANGED <<apply, daemon, started>>

Start ==
  /\ script = "start"
  /\ started' = exe
  /\ script' = "del"
  /\ UNCHANGED <<apply, daemon, exe>>

DeleteSelf ==
  /\ script = "del"
  /\ script' = "gone"
  /\ UNCHANGED <<apply, daemon, exe, started>>

-----------------------------------------------------------------------------

Next ==
  \/ \E p \in Packages : Apply(p)
  \/ CreateDir \/ CreateDirFails \/ Decode \/ DecodeFails
  \/ Open \/ OpenFails \/ Write \/ WriteFails \/ Crash
  \/ StageRestart \/ DaemonExits \/ Wait \/ Copy \/ Start \/ DeleteSelf

Spec == Init /\ [][Next]_vars

-----------------------------------------------------------------------------
(* Properties.                                                             *)

(* An Ok means the whole package is on disk, whatever failed attempts,     *)
(* crashes and other packages came before it.                              *)
OkMeansInstalled ==
  result = "ok" =>
    \A i \in DOMAIN package.files : disk[package.files[i]] = package.version

(* At any time, failed or cut off, the files before the one in hand are    *)
(* installed, those after it are as they were, and the one in hand may be  *)
(* cut off; nothing outside the package has changed.                       *)
AppliedPrefix ==
  package # None =>
    \A p \in Paths :
      LET at == {i \in DOMAIN package.files : package.files[i] = p} IN
      disk[p] \in
        (IF \E i \in at : i < next THEN {package.version} ELSE {before[p]})
        \cup (IF next \in at /\ result # "ok" THEN {"partial"} ELSE {})

(* manager.rs:82: the script "waits for the daemon to exit, replaces the   *)
(* executable, then restarts".                                             *)
RestartsReplaced == started # None => started = "new"
=============================================================================
