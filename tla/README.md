# Specifications of the PCL CE daemon

TLA+ models of the Rust daemon (`src/src`) and of its .NET client
(`src/examples/csharp/DaemonRpcClient.cs`), the TLC configurations that check
them on small instances, and theorems about them that TLAPS checks for every
value of their constants.

    tlc -workers 2 -config pipe_safety.cfg MCPipeServer.tla
    tlc -workers 2 -config exchange.cfg MCExchange.tla
    tlapm PipeServer_proofs.tla

## The system

A .NET application launches the daemon, reads a line of JSON from its stdout
(the id of a named pipe and a key), connects to the pipe and makes JSON-RPC
calls over it. Requests and responses are signed and carry a timestamp.
The daemon is meant to call back when the user presses a media key.

| Component | State | Operations | Interacts through |
|---|---|---|---|
| Named-pipe server, `ipc/server.rs` | the active-connection cell and two nested mutexes, pipe instances | accept loop, `handle_requests`, `send_callback` | the pipe, `dispatch`, the shutdown channel |
| Orchestrator, `daemon/core.rs`, end of `main.rs` | shutdown channel, tokio runtime | `run`, `shutdown` | spawns the accept loop, waits for Ctrl+C |
| Dispatcher and authentication, `rpc/*`, `auth/hmac.rs` | the wall clock | `dispatch`, `sign_response`, `verify_hmac` | called by `handle_requests` on its thread |
| Canonical JSON and signatures, `auth/hmac.rs`, `DaemonRpcClient.cs` | none | `canonical_json` and `CanonicalJson` | both ends compute the text they sign |
| Frame protocol, `ipc/protocol.rs`, `WriteFrameAsync`, `ReadFrameAsync` | what has been read of a frame | `encode_frame`, `read_frame` | both ends of the pipe |
| .NET client, `DaemonRpcClient.cs` | id counter, table of pending calls, read loop, tokens | `CallAsync`, read loop, handlers, `Dispose` | the pipe, the daemon's process |
| Startup and hand-over, `main.rs`, `state.rs`, `LaunchAndConnectAsync` | environment, keys, pipe id, redirected stdout | init line, `AppState::new`, launch, connect, `Dispose` | stdout of the daemon, the process |
| Toast manager, `toast/manager.rs` | the notification history of Windows | `show`, `clear_by_tag`, `clear_all` | the handlers of `toast/*`, Windows |
| Update manager, `update/manager.rs` | files in the working directory | `apply_update`, `stage_restart` | the disk, a batch script; no handler calls it yet |
| SMTC manager, `smtc/manager.rs` | none yet (skeleton) | log and return | would call `send_callback` |
| Errors, example program, build | none | | |

What is hard in it:

- One thread reads, dispatches and answers everything; other threads may write
  to the same pipe. Both nest two mutexes, and the reader waits for the client
  with both of them held.
- Every blocking call (accept, read, write to a full pipe, `system/delay`, a log
  line to a stdout nobody reads) has somebody else waiting behind it.
- The timeout of a call, the age limit of its request and the time it spends
  in the pipe run against each other, on two clocks.
- The read loop, the timer, the write and `Dispose` meet at one table of
  pending calls, and a call can fail half way through its write.
- A session can end at any point, a disconnect discards what is unread.
- Two programs in two languages must compute the same text from the same JSON,
  for every message in both directions.
- The launcher is told of the pipe before the daemon has checked what it was
  given.
- An update is a sequence of writes that can stop anywhere.

What makes each part correct is stated by the properties below; `PROJECT.json`
lists the hazards with their lines and the properties that cover them.

## Modules

### PipeServer (`ipc/server.rs`, `daemon/core.rs`)

The core. Three kinds of threads and their environment:

| Variable | Code |
|---|---|
| `spc`, `pipe`, `request` | where the accept-loop thread is in `run_accept_loop` and `handle_requests`, its local handle, the frame it works on |
| `cell`, `cellLock` | the `ActiveConnectionCell` and its mutex |
| `pipeLock` | `ActiveConnection.pipe`, per handle |
| `cb` | each thread that calls `send_callback` |
| `main`, `shutdown` | the main task and the watch channel |
| `hstate`, `peer`, `waiting`, `unread` | pipe instances as Windows keeps them: created, connected, broken by the client, disconnected by the server, closed; who is at the other end, who waits, what is buffered |
| `sent`, `taken`, `replied` | frames per instance |

One action per step another thread could see: the check of the flag, creation
of an instance (from when clients can connect), the return of
`ConnectNamedPipe` (which also succeeds, or fails, for a client that has left
already), storing into the cell, each lock, the read, the dispatch, the write,
the removal from the cell together with `Drop`. The guards of a Rust scope are
released together with the operation that ends the scope (`Unlock`). Frames are
counted and the kind of a frame is chosen when it is read: an ordinary call,
`system/shutdown`, a request whose response is above 1 MiB, one that does not
parse, and a header above the limit. A write blocks while the buffer is full
and fails once the client has closed its end. Clients come, give up, send,
read, and vanish at any time; Ctrl+C comes at any time; callbacks are sent at
any time and may be too large to encode.

`RpcSession` is what the server promises a client: one session at a time,
requests answered one by one, in order, at most once, closed for good. A
session is a pipe handle; `PipeServer` implements it under the mapping given at
the end of its safety section.

### Dispatcher (`rpc/dispatcher.rs`, `auth/hmac.rs`, `rpc/types.rs`, `rpc/methods.rs`)

`dispatch` as a function of a request and the time (`AuthErrors`,
`HandlerCodes`, `ReplyCodes`, `Duration`), embedded in the life of a request:
signed, written, waiting in the pipe behind others, dispatched, slept over,
answered, taken by the read loop or overtaken by the 30 s timer. Client and
daemon are on one machine and share two clocks: `now`, which the timers run on,
and `wall`, which the timestamps are taken from and which the user or the time
service may set (`Adjust`). Whether a signature is right is a field of the
request.

### RpcClient (`DaemonRpcClient.cs`)

`CallAsync` in its steps (register, write the length, write the payload, wait,
return), the read loop (take a frame, complete the call, call
`OnDisconnected`), the timer, and `Dispose` in two steps around its wait for the
read loop. The length and the payload are separate, since two calls can
interleave there. The application's handler of `OnDisconnected` may return,
throw (the loop's task has then failed, and `Dispose` throws before it closes
anything) or call `Dispose` (which waits for the loop it runs on). The daemon is
what `PipeServer` promises: it reads whole frames in order, answers each once,
may stop at any time, and hangs up on what is not a frame.

### Framing (`ipc/protocol.rs`, the client's `ReadFrameAsync` and `WriteFrameAsync`)

One direction of the pipe, byte by byte: the length in four little-endian digits
of any base, and a reader that gets its bytes in pieces of any size. The two
readers differ in their bounds (`Accepted`), the two writers in that only the
daemon's has a limit (`Fits`).

### CanonicalJson (`auth/hmac.rs`, `DaemonRpcClient.cs`)

The canonical text of a JSON value as each side writes it, over the characters,
numbers and keys the two treat differently: System.Text.Json escapes quotes,
`& < > ' \`` and everything outside ASCII as `\uXXXX`, serde_json escapes what
it must; the client takes a number as it stands on the wire, the daemon prints
it again; one sorts keys by culture, the other by bytes. A text is a sequence
of tokens (the beginning `file://` of a path is one of them), and HMAC-SHA256 is taken to tell any two texts apart. The recursion
of `canonical_json` is unfolded to the three levels the parameters have
(`Member`, `Item`, `Scalar`, each one `Level` of the next). `PlainValue` says what
is free of all these differences, at every level.

### Toast (`toast/manager.rs`, the handlers of `toast/*`)

Parameters to a toast, the toast to XML through `escape_xml`, the XML parser and
the notification history of Windows (external), and the three operations on it.

### Exchange

The composition of the three: calls from the client's signature over the bytes
of the frame, its verification and its handler to the signed answer and its
verification by the client, with sessions that end or are lost at any point.
Calls overlap, so that a pipe may hold several frames. The timer of a call that
waits (`Timer`, `CancelAfter`) may fire at any time: while the request is behind
others, while its handler runs, while the answer is on its way. A request may be
refused for its age whenever it is handled (`stale`). `Up` and `Down` are two
instances of `Framing`. `Answer` has what `dispatch` makes of a request, in as
far as it decides on the text and the size of the answer. A request is known to
the daemon by its bytes (`Asked`), an answer to the client by its bytes
(`Awaited`); `replies` and `heard` are histories of what either end has taken out
of its pipe.

### Launch (`main.rs`, `state.rs`, `daemon/core.rs`, `LaunchAndConnectAsync`, `Dispose`)

Two processes and the redirected stdout between them. The daemon's stages are
those between two of its failures or log lines: environment, init line, key,
directory, pipe, accept, serve. The client launches it, reads one line, decodes
the key, connects within 5 s, asks and disposes. A log line waits for room.
`loop` is the task of the read loop, which `Dispose` waits for before it closes
the pipe and ends the process: it may have ended, have failed with the exception
of a handler of `OnDisconnected`, which `Dispose` then throws, or wait for itself
because the handler called `Dispose`. In the last two cases the lines after
DaemonRpcClient.cs:418 are not reached, and a second `Dispose` returns at once.
Nothing is logged unless `RUST_LOG` is set: the default filter of `main.rs:24`
names `pcl_ce_extension`, and the crate is `pcl_ce_daemon`.

### UpdateManager (`update/manager.rs`)

`apply_update` file by file and step by step (directory, decode, open, write),
each of which can fail, with the daemon killed at any point; and
`stage_restart` with the script it writes, interpreted as `cmd.exe` does.

### Proof modules

`PipeServer_proofs`, `Dispatcher_proofs`, `Staleness_proofs` (about `Dispatcher`,
too), `RpcClient_proofs`, `UpdateManager_proofs`, `Launch_proofs`, `Toast_proofs` (about
`Toast` and `CanonicalJson`) and `Exchange_proofs`, see below. `MCPipeServer`,
`MCDispatcher`, `MCExchange` and `MCUpdateManager` give the symmetry sets and
the inputs of the runs; `RpcClient` and `Launch` are run directly.

Most modules have a few operators marked as faulty variants. No specification
uses them. They are the plausible slips (a guard dropped, a lock kept, a reset
forgotten) that show each property can fail: put in the place of the operation
they are named after, TLC finds the property violated.

## Runs

Runs that pass:

| Run | What it checks | Bounds, and why they are enough |
|---|---|---|
| `pipe_safety` | `TypeOK`; `CellTracksSession`: the cell is full exactly during a session; `LockNesting`: no lock order to deadlock on; `OneLiveInstance`: no client accepted and forgotten; `HandleAccounting`: each session leaves one open handle, a failed accept none; `OneRequestInFlight`; `AtMostOneLateSession` after Ctrl+C; `WritesUnderLocks`: responses and callbacks never mix; `HangsUpOnlyOnLimit`: nothing but the size limit makes the server hang up; `ImplementsRpcSession` | two handles (a session and the next one), two clients (one served, one that waits), two callback threads (they compete with the handler and with each other), two frames, a buffer of one frame (every second write blocks). The three sets are symmetric. The theorems below drop the bounds. |
| `pipe_liveness` | `RequestAnswered` if clients read; `CallbackReturns` if clients leave; `ShutdownCompletes` if clients come and go. What is asked of the clients is part of each property. | two handles, one client that comes back, one callback thread that calls again and again, one frame per session; no symmetry |
| `client_calls` | `OwnAnswer`: a call is completed by its own answer or by none; `PendingAccounting`: the table holds the calls in progress, and those whose write threw, which leak; `SerialFramesWhole`; `CallReturns`; `DisposeReturns` | two calls, enough for an answer that is late for one of them, and for interleaved frames; one notification; one body and two answers in the pipes, so that the write of the second call waits until the daemon has read the first (and the timer of a call is armed after its write only). The theorems below drop the bounds for the first four. |
| `dispatch_ages` | `NoGhostExecution`: what the client has reported as timed out is not started later than the wall clock was set back; `StaleOnlyBehindDelay`: a good request is refused only for having waited behind a sleep for longer than the window | two calls of every fate, window and timer 1, a sleep of 2 (past both), clock up to 3 (a sleep and what comes after it); the wall clock starts at 4 and may be set once, back to 2 or forward to 9, beyond any timestamp |
| `exchange` | `FramesIntact`: however the pipes cut the frames, and however many are in them, the n-th message worked on is the n-th request and the n-th message taken the n-th answer, and the client's limits refuse no frame of the daemon; `EffectsReported`: of a call that had an effect no error is reported, and its answer is not dropped while the caller waits, so that only its timer or the end of the session leaves the caller in doubt; `ShownAsAsked`: toasts read as asked, through both escapings; `PlainCallsAnswered`: a request free of what the two forms treat differently is not refused as a forgery, and an answer is dropped under a waiting caller only when it is no answer to a request or an error text that is not plain | two calls, which overlap or not, out of 18: one for each method, result and class of character, a request and an answer above the limit, JSON that is no request, and no bytes at all. Two are enough for a frame behind another one in each direction, a toast of the same tag, an answer that comes after its timer, and one that is taken while another is waited for. Bytes of base 2, a limit of 2: a header and a payload cut anywhere, a length whose digits matter. The theorems below drop the bounds on calls, requests, sizes and texts. |
| `launch` | `ConnectedToValid`: a connection means that the daemon has accepted key and directory; `LaunchReturns`; `FailedLaunchLeavesNoDaemon`, but for the 5 s; `DisposeEndsDaemon`, also one blocked on its log, unless the handler of `OnDisconnected` threw or waits for itself; `QuietDaemonServes` | all keys, directories and `RUST_LOG`; all that a handler can do; stdout holds three lines, so that a daemon that logs fills it while starting or while serving |
| `update_apply` | `OkMeansInstalled`; `AppliedPrefix`: whatever fails, a prefix of the package is installed, one file may be cut off, the rest is untouched | three paths; packages with every file, with a file named twice, with one that does not decode, and empty, applied in any order and again |

Runs in which TLC refutes what a comment says:

| Run | The comment | What the code does |
|---|---|---|
| `doc_callback_any_time` | server.rs:235, callbacks "can write back to the client at any time" | a callback waits while the client is idle, since the reader holds both mutexes in `ReadFile` |
| `doc_frames_whole` | protocol.rs:11, "[4-byte LE payload_length][N-byte payload]" | overlapping calls interleave their two writes; the daemon hangs up |
| `doc_canonical_json` | DaemonRpcClient.cs:180, the client's form "must match Rust's `canonical_json()` exactly" | it does not for some characters, for numbers that are printed again, and for keys that a culture orders in its own way; such a request is refused as a forgery, such an answer dropped |
| `doc_clear_by_tag` | toast/manager.rs:91, "Clear a toast by tag." | `RemoveGroupWithId` takes a group and an application id, it is given an application id and a tag: nothing is removed, and the caller is told ok |
| `doc_restart_script` | update/manager.rs:82, the script "waits for the daemon to exit, replaces the executable, then restarts" | `%PPID%` is not defined, the script does not wait, the copy fails unnoticed. `stage_restart` writes the script; nothing in the repository runs it, and the model runs it as soon as it is there |

Divergences met while modelling that need no run, because one line shows them:

- core.rs:68 waits "until Ctrl+C / system/shutdown RPC", and the handler of
  `system/shutdown` signals nobody.
- core.rs:90, "Signal the pipe server to stop accepting new connections": the
  flag is not seen while the server is blocked in `ConnectNamedPipe` or
  `ReadFile`. What holds instead is `AtMostOneLateSession` and
  `ShutdownCompletes`.
- DaemonRpcClient.cs:34, `OnNotification` is "fired when the daemon sends a
  JSON-RPC notification": `RpcNotification::new` leaves the signature empty, and
  the read loop drops what does not verify.
- server.rs:195, "When a new client connects, the old one is replaced": the
  branch at server.rs:277 is never taken, because no instance exists while a
  client is served (`CellCorrect` says the cell is empty then).
- state.rs:13, the pipe id is "random UUID v4, or overridden via env": nothing
  reads such a variable.
- protocol.rs:27, `decode_frame_header` "returns `None` if not enough data is
  available": also for a length above the limit. Only tests call it.
- `INVALID_REQUEST` and `INVALID_PARAMS` (types.rs:115 and 119) are never used;
  such requests get `PARSE_ERROR` and `INTERNAL_ERROR`.
- core.rs:34 creates a toast manager for another application id than the
  handlers use, and does not use it.
- DaemonRpcClient.cs:43, the "daemon Process to kill on Dispose": `Dispose` throws
  at line 418 what a handler of `OnDisconnected` has thrown, or waits there for
  itself when the handler disposes, and then never gets to the process; called
  again, it does nothing. `DisposeEndsDaemon` says that nothing else keeps it
  from the kill. With `loop` left out of it, TLC finds the daemon running for
  ever.
- A newline in the text or arguments of a toast's button reaches Windows in an
  attribute and becomes a space (`Attribute` in `Toast`).

Deadlock is checked in the `pipe_*` runs and in `doc_callback_any_time`. The
others stop as they should: all calls have returned and the client is disposed
of or its handler waits for itself, the clock has ended, the script is gone, a
launch has failed or its handler waits for itself.

## Fairness

`PipeServer!FairSpec`: each thread of the daemon goes on unless it blocks (weak
fairness of `ServerStep`, `MainStep`, `CallbackStep`), and a thread that waits
for a mutex which is free again and again gets it (strong fairness of the steps
that take the cell's mutex). The standard library's mutex does not promise the
latter; without it `RequestAnswered` and `CallbackReturns` would fail for a
thread that always loses the race. Nothing is assumed of Ctrl+C, nor that a
callback is ever sent or stops being sent. What clients do is assumed only by
the properties that say so (`ReadingClients`, `LeavingClients`,
`ArrivingClients`).

`RpcClient!FairSpec`: tasks of the .NET thread pool go on, a timer fires in the
end (unless the call is answered before), the handler of `OnDisconnected`
returns, throws or disposes, and the daemon goes on reading, which
is what `RequestAnswered` promises for a client whose read loop runs. Answers
may never verify, the session may never end, `Dispose` may never be called.

`Launch!FairSpec`: the two processes run, and the 5 s of the connect pass. A
daemon that waits for room in its stdout does not run. The read loop comes to
its end when it is cancelled or hung up on, and the handler it calls returns,
throws or disposes. Nobody must start, ask, dispose or exit, and no finalizer is
promised.

`Dispatcher`, `Exchange` and `UpdateManager` have safety properties only. What
they would promise in the end is said by `CallReturns`.

## Proofs

Each proof module assumes the named assumption on the constants of its module
and nothing else. The invariants the runs check are seldom inductive by
themselves; each module has an `IInv` that is, checked by TLC before it was
proved.

`PipeServer_proofs` (any handles, clients, callback threads, any `MaxSent` and
`OutCap > 0`): `IInv` adds to the types: the session in the cell is
the one `spc` is in (`CellTracksSession`); which of `cellLock` and `pipeLock` is
held at each value of `spc` and `cb` (`LockOwners`: that is why `Unlock` frees
what the thread took); in which state an instance is that is in `pipe`, in
`cell`, in neither (`InstanceStates`, which gives `OneLiveInstance` and
`HandleAccounting`); how `sent`, `taken` and `replied` differ at each value of
`spc` (`RequestProgress`); that the loop reaches its cleanup only when the client
is gone or the request cannot be served (`ReasonToHangUp`); and that after a
session taken up with the flag set the loop is on its way to end
(`LateSession`). It is preserved by the steps of the server, of the callbacks,
of the main task and of the clients, one lemma each. From it follow
`TypeCorrect`, `CellCorrect`, `LockOrder`, `SingleInstance`, `OpenHandles`,
`InOrder`, `OneLateSession`, the two action properties `WritesExcluded` and
`HangUpsJustified`, and `Refinement`: `Spec => Session!Spec`.

`Dispatcher_proofs` proves `TypeCorrect` and `NoGhosts` for any number of
calls, any requests and timing, any adjustments and any `Window <= Timeout`. The
argument is one of times: a timer ends at least `Timeout` after signing
(`TimerAfterSigning`), a handler is called at most `Window` plus what the wall
clock was set back after signing (`ActedInWindow`), and both need that what is
in the pipe has been written (`InPipe`).

`Staleness_proofs` proves `OnlyBehindDelay`, that is `StaleOnlyBehindDelay`, for
any calls and sleeps. `Orderly` says that a call is in the pipe once and until
it is judged, and that a thread that sleeps does so in a handler; with it, as
long as the system is prompt, time passes only while whatever waits waits behind
that sleep (`WaitsBehindSleep`), and the two clocks run together (`InStep`), so
that a request that is refused has been in the pipe for longer than the window
(`RefusedForAge`).

`RpcClient_proofs` proves `TypeCorrect`, `OwnAnswers`, `Accounting` and
`SerialFrames` for any number of calls and any capacities. `Numbered` says that
the calls that have begun have numbers of their own, as many as there are
(which is also why `Ids` is large enough); `Routing` that an answer carries the
number of the call whose request it answers, that a call is registered under
its number only, so that the one it is routed to is the one that asked, and that
a call which has its result is no longer registered. `SerialWire` says why a
call that gives up leaves no header behind: it can leave its body only with the
session at an end, or with `Dispose` begun, after which no header is written.

`UpdateManager_proofs` proves `TypeCorrect`, `Prefix` and `OkInstalled` for any
paths and packages; a result comes only after the last file (`Progress`).
`Launch_proofs` proves `TypeCorrect` and `ConnectsToValid`: `Accepted` says what
the daemon has accepted by the time it gets to each stage.

`Toast_proofs` is about what the operators on texts compute for texts of any
length. Induction over a sequence is made first-order there: a set of lengths
that is not empty has a smallest member (`SmallestMember`, from the
well-foundedness of `<` on the naturals), so a set of sequences that has the
empty one and every extension of its members has all of them (`InductionOnSet`,
`InductionOnSeq`). `FlattenSeq` is a fold; `FlattenExists` and `FlattenUnique` show
that it is the one function with the equations one expects, and `FlattenAppend`
is how the rest uses it: `Replace`, `Keep`, `Escape` and `Unescaped` are
followed character by character. `UnescapeEscape` is what has to be right: five
replacements one after the other, each over what the one before has put there,
are undone by one pass of the parser (`EscapeXmlAmpLast` is the order for which
it fails). From it come

- `ReadsAsAsked`: what Windows shows of a toast is what was asked
  (`FaceOf`), and `LoadsUnlessControl`: its XML is refused for a control
  character only;
- `PlainValuesAgree`: on a plain value the canonical texts of the client and of
  the daemon are the same, level by level.

They assume that the two orders of the keys are orders of the same keys
(`KeysAssumption`), and that texts are made of the characters of the model.

`Exchange_proofs` proves the five invariants of the run `exchange` for any set of requests, any number of overlapping calls, any
base, any limit a header can say and any cuts (`ExchangeAssumption`: a length
has four digits, a request of no bytes does not parse, texts are made of the
characters). `IInv` says

- `InStep`: while the session is open, what a reader has of a frame and what is
  in the pipe are, together, the frames the reader is not done with, one behind
  the other (`Ahead(sizes, m)`: all but the first `m`), and the reader has nothing
  of the frame behind the one it reads (`InPipe`); once the session is over both
  are empty. It holds with any number of frames in either direction, and nothing
  in it depends on timers.
- `History`: the messages of both histories are whole (`Whole`); an answer is to
  the request of its number, or to no request (`Known`); who was told a result or
  an error was told it by an answer that was taken (`Told`); what had an effect
  was answered with a success of fixed text, which verifies (`Succeeded`); a
  plain request was not refused as a forgery (`PlainNotRefused`); who still waits
  when its answer has been taken got one that does not verify (`Dropped`); and
  every toast on the screen is there as asked.

It rests on `DigitsSay` (`from_le_bytes` of `to_le_bytes` is the number, for every
base), `FrameRead` (a reader that holds a whole frame takes that frame's message
and leaves the frames behind it), `AheadIs` and `AheadAppend` (the first frame
ahead, and a frame written behind the last), `ReadKeeps` (a read moves bytes and
changes none), from which `PipeReadSome`, `PipeTake` and `PipeWrite` follow once
for both directions, and, for `Plain` and `Shown`, on the theorems of
`Toast_proofs`. There is one lemma per action. From `IInv` follow `TypeCorrect`,
`Intact`, `Effects`, `Shown` and `Plain`. That a call can time out with its
toast on the screen is part of what is proved about: `Effects` says only what the
caller is not told.

Three things had to change in the model for this. The cases of `Answer`
overlapped: a malformed or forged request matched the case of its method as well,
and TLC takes the first case that applies where TLA+ allows any; `dispatch`
returns early, and so does the model now. The passes of `escape_xml` are
written one by one, as the code has them, and the header has the four digits of
`HEADER_SIZE`.

Only model-checked: all liveness (`RequestAnswered`, `CallbackReturns`,
`ShutdownCompletes`, `CallReturns`, `DisposeReturns`, `LaunchReturns`,
`FailedLaunchLeavesNoDaemon`, `DisposeEndsDaemon`, `QuietDaemonServes`), which
under fairness is out of the prover's reach. Every other property of a passing run is
stated by a theorem.

## Abstractions, and what is not modelled

- In `PipeServer` and `RpcClient` frames are units, or a length and a payload:
  a client that dies in the middle of one is a client that dies before it.
  `Exchange` has the bytes; its calls overlap, but each writes its frame in one
  step, since `RpcClient` has the two writes and what becomes of frames that mix.
  The daemon writes its frames with one `WriteFile` each, which is one step
  everywhere.
- `Exchange` has no clock: its timers fire at any time, and a request is refused
  for its age at any time. An answer is never dropped for its age there: that
  takes 30 s, in which the timer of the call fires, unless the wall clock is set
  in between. `Dispatcher` has both clocks, and what they do to requests and
  answers.
- Nothing tells a caller whose call timed out, or whose session was lost, whether
  the call had its effect: `EffectsReported` does not cover such calls, and the
  code has nothing that would.
- `CallReturns` and `DisposeReturns` take an exception for a return, and say
  nothing of what the call or the daemon's process has come to: that is
  `EffectsReported` and `DisposeEndsDaemon`. They assume a
  daemon that goes on reading: one that does not would hold a write for ever.
- The requests of `MCExchange` that are signed in the form "rust" stand for a
  client that signs as the daemon's own tests do.
- Mutex poisoning: the threads that hold the mutexes do not panic in them.
- The SMTC manager is a skeleton: its operations log and return, no state
  changes and nobody calls them. Its callbacks are the `Callbacks` of
  `PipeServer`, which nothing in the code sends yet. The handlers of `smtc/*` and
  `update/*` are stubs, so `UpdateManager` is not connected to the dispatcher.
- The non-Windows stubs return errors or do nothing.
- Errors, the example program and the build files have no behaviour of their
  own; the texts of errors appear where they decide on a signature.

## Plan

Done, in this order: `RpcSession` and `PipeServer` with their proofs;
`RpcClient`, `Dispatcher`, `UpdateManager`; `Framing`, `CanonicalJson`, `Toast`
and their composition `Exchange`; `Launch`; the proofs of `Dispatcher`,
`RpcClient`, `UpdateManager` and `Launch`; those of `Toast`, `CanonicalJson` and
`Exchange`; then overlapping calls and timers that fire at any time in
`Exchange`, proved again, and the read loop's end in `Launch`.

Worth doing next:

1. Abstract specifications that the proved invariants make easy to state: what
   `Exchange` promises a caller (a call, its effect at most once, its outcome)
   and `Framing` as a channel of whole messages, as refinements that TLAPS checks
   as it does `PipeServer`'s.
2. `EndToEnd`: `RpcClient`'s abstract daemon shown to be implemented by
   `PipeServer`'s sessions, or the two composed over a pipe.
3. When the handlers of `smtc/*` and `update/*` are written: their composition
   with `PipeServer`'s callbacks and with `UpdateManager`.
