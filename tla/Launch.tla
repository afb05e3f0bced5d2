------------------------------- MODULE Launch -------------------------------
(***************************************************************************)
(* The launch of the daemon by the client and its end: main of the daemon  *)
(* up to its first accept (main.rs, state.rs, daemon/core.rs),             *)
(* LaunchAndConnectAsync, the redirected stdout between them that the      *)
(* client reads once, and Dispose as far as the process is concerned: what *)
(* it waits for, and what keeps it from the kill.                          *)
(***************************************************************************)
EXTENDS Naturals, Sequences

CONSTANT OutCap   \* lines that the redirected stdout holds

(* The init line and the one that is logged next always fit.               *)
ASSUME OutCapAssumption == OutCap \in Nat /\ OutCap >= 2

VARIABLES
  key,      \* hmacKeyBase64, as the two Base64 decoders see it
  dir,      \* workingDir
  rustLog,  \* whether RUST_LOG is set, for whatever reason
  daemon,   \* what the daemon does next
  out,      \* lines in its stdout
  client,   \* where the client is
  loop,     \* the task of the read loop
  fault,    \* why LaunchAndConnectAsync or Dispose threw
  asked     \* a request waits for its answer

environment == <<key, dir, rustLog>>
vars == <<environment, daemon, out, client, loop, fault, asked>>

(* Convert.FromBase64String skips white space, the daemon's decoder does   *)
(* not ("spaced").                                                         *)
Keys == {"absent", "invalid", "spaced", "valid"}

(* The directory must exist for Process.Start.  It is the daemon's current *)
(* directory as well as its PCL_CE_WORKING_DIR, so that a relative path    *)
(* names one inside itself, which the daemon creates, or cannot.           *)
Dirs == {"absent", "absolute", "relative", "relativeReadOnly"}

Stages == {"none", "environment", "announce", "state", "directory", "listen",
           "accept", "serve", "exited"}

TypeOK ==
  /\ key \in Keys /\ dir \in Dirs /\ rustLog \in BOOLEAN
  /\ daemon \in Stages
  /\ out \in Seq({"init", "log"}) /\ Len(out) <= OutCap
  /\ client \in {"idle", "readLine", "decode", "connect", "connected",
                 "disposing", "over", "gone"}
  /\ loop \in {"none", "running", "ended", "faulted", "stuck"}
  /\ fault \in {"none", "start", "silent", "format", "timeout", "handler"}
  /\ asked \in BOOLEAN

Init ==
  /\ key \in Keys /\ dir \in Dirs /\ rustLog \in BOOLEAN
  /\ daemon = "none"
  /\ out = <<>>
  /\ client = "idle"
  /\ loop = "none"
  /\ fault = "none"
  /\ asked = FALSE

-----------------------------------------------------------------------------
(* The daemon.                                                             *)

(* Faulty: the default filter names the crate that is built.               *)
LoggingByDefault == TRUE

(* Without RUST_LOG the filter is "pcl_ce_extension=debug", and no target  *)
(* of the crate pcl_ce_daemon is called so: nothing is logged.             *)
Logging == rustLog

(* Faulty: the log does not wait.                                          *)
EmitNoWait(lines) == out' = out \o lines

(* Writing to stdout waits for room, unless nobody holds its other end:    *)
(* then it fails, which the log ignores.                                   *)
Emit(lines) ==
  IF client = "gone" THEN UNCHANGED out
  ELSE /\ Len(out) + Len(lines) <= OutCap
       /\ out' = out \o lines

LogLine == IF Logging THEN <<"log">> ELSE <<>>

Goes(from, to) ==
  /\ daemon = from
  /\ daemon' = to
  /\ UNCHANGED <<environment, client, loop, fault>>

(* The two variables are there, or main returns an error.                  *)
ReadEnvironment ==
  /\ Goes("environment", IF key = "absent" THEN "exited" ELSE "announce")
  /\ UNCHANGED <<out, asked>>

(* The id and the key, the init line, and the first line of the log.       *)
(* println! panics if it cannot write.                                     *)
Announce ==
  /\ Goes("announce", IF client = "gone" THEN "exited" ELSE "state")
  /\ Emit(<<"init">> \o LogLine)
  /\ UNCHANGED asked

(* Faulty: a key that does not decode is taken for an empty one.           *)
NewStateLenient ==
  /\ Goes("state", "directory")
  /\ Emit(LogLine)
  /\ UNCHANGED asked

(* AppState::new                                                           *)
NewState ==
  /\ Goes("state", IF key = "valid" THEN "directory" ELSE "exited")
  /\ Emit(IF key = "valid" THEN LogLine ELSE <<>>)
  /\ UNCHANGED asked

(* Faulty: a directory that cannot be created is only logged.              *)
PrepareDirectoryAnyway ==
  /\ Goes("directory", "listen")
  /\ Emit(IF dir = "absolute" THEN <<>> ELSE LogLine)
  /\ UNCHANGED asked

(* create_dir_all, if the path is not there.                               *)
PrepareDirectory ==
  /\ Goes("directory", IF dir = "relativeReadOnly" THEN "exited" ELSE "listen")
  /\ Emit(IF dir = "absolute" THEN <<>> ELSE LogLine)
  /\ UNCHANGED asked

(* AppDaemon::new and run, to the creation of the first pipe instance.     *)
Listen ==
  /\ Goes("listen", "accept")
  /\ Emit(LogLine)
  /\ UNCHANGED asked

(* handle_requests: PipeServer has the details.                            *)
Serve ==
  /\ Goes("serve", "serve")
  /\ asked
  /\ Emit(LogLine)
  /\ asked' = FALSE

(* The client at the other end has closed its pipe, or dropped it, or the  *)
(* request is one the server hangs up on: the loop accepts again.          *)
Reaccept ==
  /\ Goes("serve", "accept")
  /\ \/ client \in {"over", "gone"}
     \/ client = "disposing" /\ loop = "ended"
     \/ asked
  /\ Emit(LogLine)
  /\ asked' = FALSE

-----------------------------------------------------------------------------
(* The client: LaunchAndConnectAsync.                                      *)

Throws(why) == client' = "over" /\ fault' = why

Start ==
  /\ client = "idle"
  /\ IF dir = "absent"
     THEN Throws("start") /\ UNCHANGED daemon
     ELSE /\ client' = "readLine"
          /\ daemon' = "environment"
          /\ UNCHANGED fault
  /\ UNCHANGED <<environment, out, loop, asked>>

(* ReadLineAsync: the reader takes more than the line if more is there.    *)
ReadLine ==
  /\ client = "readLine"
  /\ out # <<>>
  /\ \E n \in 1 .. Len(out) : out' = SubSeq(out, n + 1, Len(out))
  /\ client' = "decode"
  /\ UNCHANGED <<environment, daemon, loop, fault, asked>>

(* Faulty: an end of stream is read again and again.                       *)
ReadNothingRetries ==
  /\ client = "readLine"
  /\ out = <<>> /\ daemon = "exited"
  /\ UNCHANGED vars

(* null: stderr is read to its end, the process killed.                    *)
ReadNothing ==
  /\ client = "readLine"
  /\ out = <<>> /\ daemon = "exited"
  /\ Throws("silent")
  /\ UNCHANGED <<environment, daemon, out, loop, asked>>

(* FromBase64String; its exception leaves the daemon alone.                *)
Decode ==
  /\ client = "decode"
  /\ IF key = "invalid" THEN Throws("format")
     ELSE client' = "connect" /\ UNCHANGED fault
  /\ UNCHANGED <<environment, daemon, out, loop, asked>>

Connect ==
  /\ client = "connect"
  /\ daemon = "accept"
  /\ client' = "connected" /\ loop' = "running"
  /\ daemon' = "serve"
  /\ UNCHANGED <<environment, out, fault, asked>>

(* No instance of the pipe for 5 s; this exception leaves the daemon       *)
(* alone, too.                                                             *)
ConnectTimeout ==
  /\ client = "connect"
  /\ Throws("timeout")
  /\ UNCHANGED <<environment, daemon, out, loop, asked>>

(* A client whose connect or whose Dispose threw is garbage, which the     *)
(* finalizer may find.                                                     *)
Finalize ==
  /\ client = "over" /\ fault \in {"timeout", "handler"}
  /\ daemon # "exited"
  /\ daemon' = "exited"
  /\ UNCHANGED <<environment, out, client, loop, fault, asked>>

-----------------------------------------------------------------------------
(* The client, connected.                                                  *)

Ask ==
  /\ client = "connected" /\ daemon = "serve"
  /\ ~asked
  /\ asked' = TRUE
  /\ UNCHANGED <<environment, daemon, out, client, loop, fault>>

(* The token is cancelled.                                                 *)
Dispose ==
  /\ client = "connected"
  /\ client' = "disposing"
  /\ asked' = FALSE
  /\ UNCHANGED <<environment, daemon, out, loop, fault>>

(* The read loop, cancelled or hung up on, calls OnDisconnected last.  The *)
(* handler returns, throws, or calls Dispose: the first to do so waits for *)
(* the loop it runs in, a second call returns at once.                     *)
LoopEnds ==
  /\ loop = "running"
  /\ \/ /\ client = "disposing" \/ (client = "connected" /\ daemon # "serve")
        /\ loop' \in {"ended", "faulted"}
        /\ UNCHANGED client
     \/ /\ client = "connected" /\ daemon # "serve"
        /\ loop' = "stuck"
        /\ client' = "disposing"
  /\ UNCHANGED <<environment, daemon, out, fault, asked>>

(* GetResult of the loop throws what the handler threw, before the pipe is *)
(* closed and the process ended.  Dispose does nothing when called again.  *)
DisposeThrows ==
  /\ client = "disposing" /\ loop = "faulted"
  /\ Throws("handler")
  /\ UNCHANGED <<environment, daemon, out, loop, asked>>

(* Faulty: nothing in the handler of the exception.                        *)
EndProcessQuietly ==
  /\ client = "disposing" /\ loop = "ended"
  /\ client' = "over"
  /\ UNCHANGED <<environment, daemon, out, loop, fault, asked>>

(* StandardInput is not redirected, so that closing it throws, and the     *)
(* handler kills the process without the 3 s of grace.                     *)
EndProcess ==
  /\ client = "disposing" /\ loop = "ended"
  /\ client' = "over"
  /\ daemon' = "exited"
  /\ UNCHANGED <<environment, out, loop, fault, asked>>

(* The application ends without Dispose.                                   *)
AppExits ==
  /\ client \notin {"idle", "gone"}
  /\ client' = "gone"
  /\ asked' = FALSE
  /\ UNCHANGED <<environment, daemon, out, loop, fault>>

-----------------------------------------------------------------------------

DaemonStep ==
  ReadEnvironment \/ Announce \/ NewState \/ PrepareDirectory \/ Listen \/ Serve
  \/ Reaccept

LaunchStep ==
  ReadLine \/ ReadNothing \/ Decode \/ Connect \/ ConnectTimeout
  \/ LoopEnds \/ DisposeThrows \/ EndProcess

Next == DaemonStep \/ LaunchStep \/ Start \/ Finalize \/ Ask \/ Dispose \/ AppExits

Spec == Init /\ [][Next]_vars

(* The two processes run; the 5 s pass; a handler of OnDisconnected that   *)
(* does not wait for its own loop comes to an end.  Nobody must start,     *)
(* ask, dispose or exit, and no garbage collection is promised.            *)
FairSpec == Spec /\ WF_vars(DaemonStep) /\ WF_vars(LaunchStep)

-----------------------------------------------------------------------------
(* Properties.                                                             *)

(* Though the client is told of the pipe before the daemon has looked at   *)
(* key and directory, it gets a connection only from a daemon that has     *)
(* accepted both, with the key the client itself has decoded.              *)
ConnectedToValid ==
  client = "connected" => key = "valid" /\ dir # "relativeReadOnly"

(* LaunchAndConnectAsync returns a client or throws, whatever becomes of   *)
(* the daemon.                                                             *)
LaunchReturns ==
  client = "readLine" ~> client \in {"connected", "over", "gone"}

(* A launch that fails leaves no daemon behind, although only one of its   *)
(* exits kills it: unless it was the 5 s that ran out.                     *)
FailedLaunchLeavesNoDaemon ==
  client = "over" /\ fault \in {"silent", "format"} ~> daemon = "exited"

(* Dispose ends the process, also one that waits for room in its stdout,   *)
(* unless the read loop fails in the handler of OnDisconnected or waits    *)
(* there for itself: nothing else keeps Dispose from the kill.             *)
DisposeEndsDaemon ==
  client = "disposing"
    ~> daemon = "exited" \/ client = "gone" \/ loop \in {"faulted", "stuck"}

(* Nobody reads the daemon's stdout after the first line: it serves all    *)
(* the same, as long as RUST_LOG is not set.                               *)
QuietDaemonServes == asked /\ ~rustLog ~> ~asked
=============================================================================
