# Formal models of RaspberryPi-Control

RaspberryPi-Control is a Flutter app (`lib/`) that manages a Raspberry Pi over SSH, and a Go agent
(`agent/`) that runs on the Pi and serves gRPC on the Pi's loopback port 50051. The app opens an SSH
session, starts the agent through it, forwards the local port 50051 to the agent and talks gRPC over
that tunnel.

This directory holds TLA+ models translated from that code, the TLC configurations that check them,
and TLAPS proofs about them. `PROJECT.json` maps every definition to the source lines it stands for.

    tlc -workers 2 -config MCSerial.cfg MCConnectionSystem     # model-check one configuration
    tlapm SerialProofs.tla                                      # check one module's proofs

## 1. Inventory of the system

### The connection core (modelled)

**SSHService** (`lib/services/ssh_service.dart`).
State: `_client`, `_state` (with its stream), `_currentConnection`, `_tunnelSocket`, `_keepaliveTimer`.
Operations: `connect`, `disconnect`, `reconnect`, `forwardLocal`, `execute`, the keepalive timer every
45 s, whose command may take 5 s. Used by: everything; several callers may be suspended inside it at once, because its methods
await and hold no lock. Hard: what a method wrote before an await may have been overwritten after it;
`disconnect` stops the timer and closes the tunnel before its await and drops the client after it; a
keepalive may answer after its client has been replaced. Correct when: the word `connected` always
comes with a client; a socket believed open holds the port; a dying keepalive does not silence its
successor; a timer without a client stops.

**GrpcService** (`lib/services/grpc_service.dart`) **and `liveStatsProvider`**.
State: `_channel`, `_client`, the stream the dashboard opened. Operations: `connect(port)`,
`disconnect`, `streamStats` with its retries, unary calls. Hard: `shutdown()` returns only when the
calls in progress have ended, and the statistics stream ends only when its transport does; `connect`
overwrites a channel without closing it. Correct when: no channel is left open behind a
disconnected app, and a disconnect ends.

**ConnectionManager** (`lib/services/connection_manager.dart`).
State: `_state` (disconnected, connecting, connected, disconnecting, error) with a connection inside
two of them, `_currentConnection`. Operations: `connect`, `continueConnection`, `disconnect`,
`enableSSHForwarding`, `_cleanupFailedConnection`. Drives SSHService, AgentManager and GrpcService
through some fifteen awaits. Hard: two calls overlapping; a screen that is left between `connect` and
`continueConnection`; failure at each of its steps. Correct when: each call ends with everything built
or nothing left.

**The screens that connect**: the connections screen (through the manager, with two dialogs), the
login screen (by itself, without the manager), the dashboard's, update banner's and settings'
disconnect, and the reconnect when the app is resumed (`main_screen.dart`). State: the pending dialog,
whether the screen is still mounted, `currentConnectionProvider`. Hard: each await may end on a screen
that is gone.

**AgentManager** (`lib/services/agent_manager.dart`): stateless sequences of SSH commands (is sudo
free, which version is installed, is it running, install, start). Here: every outcome of each of them,
on whichever session is current when the next command is sent.

### File transfer (modelled)

**The agent's handlers** (`agent/server_files.go`). State: the files, and for each call the open file,
`receivedBytes` or `currentOffset`, `success`. Operations: UploadFile (receive, write, and a deferred
clean-up), DownloadFile (stat, open, read and send), DeleteFile. One goroutine per call and no lock.
**The app's transfers** (`lib/services/grpc_file_transfer_service.dart`). Operations: `uploadFile`,
which reads the local file into a stream of chunks, and `downloadFile`. Hard: streams that end early or
not at all; files that are empty, a whole number of chunks, or change while they are read; a full disk;
two transfers of one path; a transport that one end believes lost and the other does not. Correct when:
success means the file is there with the bytes that were sent, failure leaves no part of it, and every
transfer ends.

### The agent (modelled)

**The process** (`agent/main.go`). State: the listener, the registered services, the handlers in
flight. Operations: listen, register (Docker only if its client can be made), serve each call in a
goroutine, which reads its request before it reaches its method, stop gracefully on the first signal. Hard: the stop waits
for every handler. Correct when: a
stop ends, except for handlers that may go on for ever.

**Packages and upgrade** (`agent/server_packages.go`). Operations: five `apt-get` commands run to their
end, the upgrade that streams two of them, queries that parse dpkg and apt. State: a child process for
each call, its pipe, apt's locks and the package database. Hard: the client may leave between any two
steps; a line may be longer than the scanner takes, or such that it cannot be sent; another call may hold the locks.
Correct when: no program outlives its call, success is said only of an upgrade that happened and was shown, the database
survives, the locks come free.

**Services and logs** (`agent/server_service.go`): `systemctl` commands and `journalctl -f` streamed to a
client that may have gone. Correct when: journalctl ends with its call, and a call with its client.

**Statistics** (`agent/server_stats.go`, `agent/server.go`). State: the previous disk counters and their
time, the process cache and list, shared by all streams without a lock; the previous network counters
of each stream. Hard: interleaved ticks, a stream that begins in the middle of another's, unsigned
differences of counters that may start again, readings that fail, disks that come and go. Correct when: what is shown is
what happened since the reading it is compared with.

**Network tools** (`agent/server_network.go`), **Docker** (`agent/docker.go`), **processes**
(`agent/server_process.go`): streams over a command, a dial or a log, calls that answer once, and
queries over what the system says. Correct when: each stream tells its result once and last, and the
answers say what the output says.

### The rest of the app

**SFTP** (`lib/services/sftp_service.dart`): a lazily initialised client over the current SSH session,
cached while the session underneath is replaced.

**Connection list** (`lib/services/storage_service.dart`, `lib/providers/app_providers.dart`):
one stored list, read, changed and written in one stretch. Dialogs and connect flows carry copies of a connection and
write them back whole, so that a star set or an edit saved during a connect is undone when it ends.

**Dashboard layout** (`lib/providers/dashboard_provider.dart`), **versions**
(`agent_version_service.dart`, `update_service.dart`), **settings, themes, snippets**: pure
computations and preferences.

`PROJECT.json` lists each with its status, and the hazards of the code at the lines where they bite.

## 2. The modules and how they correspond to the code

| Module | Extends | Models |
| --- | --- | --- |
| `SshService` | | SSHService's fields, and one operator for each piece of its methods between two awaits |
| `SshClients` | `SshService` | those pieces under any number of callers that do anything: the abstract specification of what the app may do to SSHService |
| `GrpcChannel` | `SshService` | GrpcService's channel and the statistics stream |
| `ConnectionManager` | `GrpcChannel` | the manager's calls, one action per stretch between two awaits |
| `ConnectionsScreen` | `ConnectionManager` | the connections screen's dialogs around those calls |
| `LoginScreen` | `ConnectionsScreen` | the login screen's own connect flow |
| `ConnectionPromise` | | what connecting is for: one connection whose session, tunnel and channel are made and undone in their order; the abstract specification of the manager |
| `ConnectionSystem` | `LoginScreen` | all of it with disconnects, resume, keepalive, network and stream: Init, Next, the properties |
| `FileServer` | | the agent's three handlers over one file system, one action per receive, write or read |
| `FileTransfer` | `FileServer` | the app's uploads and downloads, the streams, deletions: Init, Next, the properties |
| `AgentCalls` | | the agent's process, its methods, the life of a call: invoked, its request received or not, left, over; the graceful stop |
| `AgentChildren` | `AgentCalls` | the programs handlers start: their pipe, apt's locks, the database, the ways they end (external, as `os/exec`, the kernel and apt behave) |
| `AgentPackages` | `AgentChildren` | commands run to their end, and the streamed upgrade |
| `AgentStreams` | `AgentChildren` | the journal, container logs, the network tools, the calls that answer once |
| `AgentPromise` | | what the agent promises of a call: its programs one after the other while they go well, then the truth about them and nothing more; the abstract specification of the agent |
| `AgentSystem` | `AgentPackages`, `AgentStreams` | all of it under any clients and signals: Init, Next, the properties |
| `AgentStats` | | StreamStats: the shared fields, the counters, the readings that fail, the process cache |
| `AgentAnswers` | | the queries' loops over the output of dpkg, apt, systemctl, traceroute, iwconfig, gopsutil, as operators |
| `AgentQueries` | `AgentAnswers` | those queries asked one a step, with what each answer has to be |
| `SshServiceProofs`, `SshClientsProofs`, `ConnectionProofs`, `SerialProofs`, `FileProofs`, `AgentProofs`, `StatsProofs`, `QueriesProofs` | | the theorems |
| `MCSshClients`, `MCConnectionSystem`, `MCFileTransfer`, `MCAgent`, `MCAgentStats`, `MCAgentQueries` | | the small instances for TLC |

**Steps.** Dart runs the app in one isolate: the code between two awaits runs alone, everything else
runs during an await. So each method is cut at its awaits, and an action is what runs from one await
to the next, through every function called on the way: `Dialed` is the rest of `SSHService.connect`
together with what `ConnectionManager.connect` does until it awaits `checkSudoAccess`. `pc[k]` names
the await that call `k` is suspended in, `arg[k]` is the connection it carries, `on[k]` the session or
channel its pending operation was started on. Awaits of commands that change nothing the model sees
are merged (`AgentStarted` is the last of `startAgent`'s commands); `NextCommand` lets such a sequence
move on to the session that is current by then.

**Futures that are already complete.** `await _channel?.shutdown()` without a channel, or `await
_tunnelSocket?.close()` without a socket, resumes from the microtask queue, before any tap, timer or
network event. `Hop(k)` says that call `k` waits for nothing of the kind, and `Next` lets other things
happen only when no call can hop. Without this the model would have interleavings the event loop
cannot produce.

**Failures.** Any command may fail at any time; it can succeed only on a session that is up. A dial
may fail, a bind may fail (another process may hold the port), transports are lost (`LinkDrop`), the
keepalive times out. `Faults` adds two failures of library calls that the code has catch blocks for:
a `shutdown()` and a tunnel `close()` that throw.

**Screens that are left.** `gone` holds the calls whose screen was left. The code tests
`context.mounted` after some awaits and not after others; the actions test `k \in gone` exactly where
the code does, and assign `currentConnectionProvider` only if the screen is there, since a disposed
`ref` throws.

**Identity of sessions and channels.** A member of `Sessions` is an SSHClient object; one that is
closed and that nobody refers to may be used again for a new one, so the finite set bounds how many
exist at once, not how many are made.

**Files.** A path leads to an inode, which outlives the path for the handlers that have it open. A
file is a sequence of blocks named by the upload that wrote them: position and name are its bytes. The
stream of an upload is two counters, the chunks the app has put on it (`sent`) and those the handler
has written (`taken`), with `tail`, the length of a final chunk: chunks are neither lost nor reordered
while the call lives, and what the app sends after its end has broken goes nowhere. The two ends of a
call fail apart: `status` is what the app believes, `link` what the agent does. This matters because
`GracefulStop` and a half-open TCP connection both leave a handler waiting in `Recv` after the app has
given its call up (`agent/main.go:68`). `BeginUnheard` is an upload without a client: its stream has no
listener, so `close()` never completes and neither does the transfer. `met` is a history variable: the
transfers that another transfer of the same path, or a deletion, met. No action reads it.

**The agent's handlers.** A handler is cut where it blocks: at a read of its program's pipe, at the
end of the program, at a `Send`, and where it looks at its context, since its client may leave between
that look and the Send after it. `pc[c]` names the place, `out[c]` is what its client has been sent: lines, and
the messages that report success or failure. `clients` holds the calls whose context is not done. A call begins in the
handler that protoc generated, which reads the request and ends the call when it cannot (`Receives`); a client may open a call and never send one.
A `Send` fails for a client that has left, and also with the client there: a string of proto3 has to be UTF-8, and the lines
of an upgrade, the names of processes and hops and the output a failed command is explained with are the bytes of other programs (`Unsent`). A
program writes what is left in `todo[c]` to its pipe while there is room, and ends, or fails at any time; a
pipe that its handler has dropped is closed by the collector (`Collect`), after which what the program writes is lost. `exits` and
`wrote` are histories of how programs ended and what they wrote: `exits` also tells the first phase
of an upgrade from the second, as `streamCommand`'s caller does by where it is in its code. Commands with `CombinedOutput` have no pipe of their own here: its
reader keeps up. What a tool sends after it has collected everything is its `plan`. A call of the Docker service is answered
`Unimplemented` when the service was not registered.

**Statistics.** One counter stands for each of the kernel's 64-bit counters: a stream's tick reads it for
the network and then, in the steps `Rates`, `Store` and `Stamp`, as the disk's, which are the accesses to the shared
fields that another stream's may come between. `Mod` is the word, `Limit` the 10^12 of the code; an interval is
in seconds and may be longer than one. A tick may fail to read the network, whose counters are then 0 and kept as 0, or the disks, and
then it leaves the disk fields as they are; and the disk may not be among those read, now or at the tick that stored the counters. `moved`, `resets`,
`misses`, `seen`, `before` and `kept` are histories: what was really counted, how often the counters started again, what there was to read
at a stream's last two ticks, and when it last stored the disk's counter, forgotten when another stream touches the disk fields.

**Queries.** `AgentAnswers` translates each loop to a recursive function, a fold or a selection of places over
records: a line of output is what the code tells apart in it (its prefix, the number of its words, the mark before it).
The loops the theorems speak of are recursive functions (`DetailsAfter`, `WordsAfter`, `Selected`) or keep some of the
places (`Kept`), so that they can be reasoned about. `AgentQueries`
has one action that asks any query about any input and keeps both for the properties. `WellFormed` says what the
programs behind the queries keep to: systemctl names a unit once, no two processes share a number, a word has a letter.

## 3. What is checked

Each run is one configuration; "states" are distinct states with two workers.

| Run | Instance | Shows |
| --- | --- | --- |
| `ssh_service` (`MCSshClients.cfg`) | 2 callers, 2 Pis, 3 sessions; 259 000 states | `ConnectedHasClient`, `BoundHoldsPort`, `PingCancelsOwn` under any calls, and `NoOrphanTimer`: a timer armed between the halves of a disconnect stops |
| `serial` (`MCSerial.cfg`) | 2 calls, 2 Pis, one user action at a time, statistics on; 21 500 states | `Released` and `Usable`: all or nothing after every call; `SerialInv`, the invariant behind them; `GuardsAgree`: the screen's guard and the manager's agree; `PromiseKept`: the parts are made and undone in their order; `CallsSettle`: accepted calls end |
| `faults` (`MCFaults.cfg`) | every user action in sequence, with both faults; 516 000 states | `TypeOK`, `GuardsInv` and `SshContract` where login and manager mix and library calls throw |
| `files` (`MCFiles.cfg`) | 2 of 2 uploads and a download, one path, chunks of 2 blocks, files of up to 3; 1.8 million states | `AckedAll`: complete means that every chunk was received; `UploadKept`, `DownloadKept`, `NoPartialLeft`: an undisturbed transfer delivers exactly its file, or leaves none; `FilesAtRest`: a file at rest is whole for good, whatever failed before; `TransfersSettle` |
| `agent` (`MCAgent.cfg`) | 2 calls of 11 methods, a pipe of one line, outputs of up to 3 lines, one too long; 1.9 million states | `NoStrayChild`: only an upgrade that could not send a line leaves its program running; `UpgradeTold`, `ResultTold`: what a client is told is true, whole, once and last; `BrokenOnlyByLeaver`; `AgentKeepsPromise`: every step is one of `AgentPromise` |
| `agent_live` (`MCAgentLive.cfg`) | 2 calls of the three streams that may be held up; 464 000 states | `LeaverNoticed`, `StopCompletes`, `LocksFreed`, each with the handlers that are the exception |
| `stats` (`MCStats.cfg`) | 2 streams, words of 16, limit 1, 2 units counted, 3 seconds, one reset, one failed reading or absent disk; 9.8 million states | `NetTrue`: after a reading that succeeded never more than was moved since, and all of it; `DiskTrue`, `DiskListed`: the rates of a stream that was the last to store the disks' counters, over the time since |
| `answers` (`MCAnswers.cfg`) | each of 17 queries over every output of a few lines; 35 000 states | lists and details agree on what is installed, but for packages on hold, to be purged or to be reinstalled (`InstalledAgree`); `DescriptionWhole`, `UptimeTold`, `UnmarkedTold`, `TopSelected`, `HopsTold` |

`SshContract` is a refinement: `ConnectionSystem` implements `SshClients` with `doing` read off `pc`.
What is shown for `SshClients`, for any callers, therefore holds in the app, and no path of the app
runs half of an SSHService method, or one twice, or writes its fields behind its back.

`PromiseKept` is the other refinement: seen from outside, the services under the manager are one `ConnectionPromise`.
Its variables are read off the state of `ConnectionSystem`: the phase off the manager's state and the calls that are
cleaning up, the session, the tunnel and the channel off the services. It asks of every step what `Released` and `Usable`
ask of the moments when nothing is in flight: that no part is made before the one that carries it, or to another Pi, that
nothing is announced before it is whole, and that what is undone is undone from the channel down.

`AgentKeepsPromise` is the third: seen from outside, the agent is `AgentPromise`, in which a call has programs, a client
and no goroutine, pipe or lock. `life` is read off `pc`, `busy` off the programs that live; the history `exits` is how they
ended. It asks of every step what `ResultTold` and `UpgradeTold` ask of the state a call ends in: that no program
is started after one that failed, or while another of the call lives, that what is told in the ending step is true of all of
them, that nothing is shown or killed afterwards, and that the database breaks only in the step that kills a second
program whose client has left. `Abandons` is the one way to leave a program behind, an upgrade's, and does not ask whether the client is there;
`Quits` is the end of a call that could not say what it had to.

`FilesAtRest` says of a path what `UploadKept` says of an upload: once no upload that was begun on it is at work there, and
none was crossed by another, the file is the one that was there from the beginning, or one upload's alone, with at least the
bytes that were announced. It holds of every such moment, however many uploads failed, and on whichever end, before it.

**Bounds.** Two calls are enough for each pair of user actions to overlap at each pair of awaits; the
guards of the code compare one call's view with one other's. Two Pis are what a switch needs; where
one is used (`faults`) the code never compares connections. Two sessions are the current one and
one being made or left behind, three in `ssh_service`; two channels likewise. A set that is used up
(the login screen leaks sessions and channels) stops the instance at that point, which loses behaviours
and adds none: this is why the liveness run leaves the login screen out.

In `files`, two transfers are what can disturb each other, and one path is where they do. A chunk of two
blocks with at most one full chunk gives the empty file, one shorter than a chunk, exactly a chunk, and
one longer; an announced length of 2 or 3 is right, too long, or too short for what is then read. Two
inodes are all that two transfers and the path can hold.

In `agent`, two calls are what a pair needs to meet over a lock, the database or the stop. The methods asked for are one of each kind
of handler: the other package commands, signals and container commands run the same actions. A pipe of
one line is full as soon as it holds anything; an output of a long line and two more fills it after the scan
has given up. `agent_live` keeps the streams alone, with an empty output and one of four lines; the calls that are left out there
end by themselves. In `stats`, a word of 16 with a limit of 1 keeps the assumption the code
makes, that a wrapped difference lies beyond the limit for every interval; two units counted in three seconds give rates of 0, 1
and 2, below, at and beyond the limit. In `answers`, `MaxResults`, `MaxSample` and
`TopCount` are 2, 3 and 2, and there is one line or process more than each.

What these properties leave out is what the code does otherwise. An upload of an empty file is
acknowledged and creates nothing, since the file is opened by the first chunk; one whose file shrank
after its length was taken is acknowledged and removed by the clean-up (so `UploadKept` asks for
`taken[u] > 0` and `got[u] >= size[u]`). An upload without a client never ends, nor does the handler of
one whose local file could not be read (`TransfersSettle`). Two transfers of one path mix as they like.

**Deadlock.** The configurations say `CHECK_DEADLOCK FALSE`: a user who never acts again,
and an abandoned connect (see `left_connecting`), may leave nothing enabled; in `FileTransfer` every
transfer may be over, in `AgentSystem` the agent gone, in `AgentStats` the bounds reached. `answers` checks it.

**Fairness.** `FairSpec` assumes that an await that can end does: a dial has a timeout, a keepalive
ends after 5 s, a command on a live session is answered and on a dead one fails, a delay elapses
(`CallProgress`); that the periodic timer ticks; that a stream on a dead transport breaks. Nothing is
assumed of the user: not that a dialog is answered, a screen left, or anything tapped; nothing of the
network; and not that any particular outcome of an operation ever happens.

The `FairSpec` of `FileTransfer` assumes only that, while a handler can run, a chunk can be sent, an
answer can be taken, or one end can learn that the other has gone, one of these steps is taken
sometime. gRPC and the two schedulers give more, fairness to each; that much is not needed.

The `FairSpec` of `AgentSystem` assumes weak fairness of each call's handler (the Go scheduler), of each
call's program with the collection of its pipe (the kernel, the Go runtime), and of the return of `main`. Nothing is assumed of clients
(to call or to leave), of signals, of a program to fail, or of a container to write to its log, nor that a request ever comes.

### Runs that find a disagreement

These state what a comment of the code says, and TLC finds the behaviour that refutes it.

| Run | Statement | What happens |
| --- | --- | --- |
| `left_connecting` | proper cleanup (`connection_manager.dart:10`) | a screen left during the agent check returns without disconnecting; the manager stays connecting and refuses every later connect |
| `usable_overlap` | atomic connect and disconnect (`:10`) | a connect made while the dashboard's disconnect is still running loses its session to it and is reported connected |
| `services_told` | ListServices returns all systemd services (`agent/server_service.go:16`), "active, inactive, failed" (`protos/pi_control.proto:186`) | a unit that systemctl marks, as it does every failed one, is listed under the mark, with its load word for a status |
| `partial_only` | if upload failed, delete partial file (`agent/server_files.go:83`) | the handler of an upload the app has given up waits in `Recv` while the user sends the file again, and its clean-up then removes the complete file |

More that was seen while modelling has no run of its own. While one `connect()` awaits its
disconnect from another Pi the state is disconnecting, which the guard at `connection_manager.dart:52`
does not know, so a second `connect()` passes it; `usable_overlap` is the consequence. And
`liveStatsProvider` says it is kept for 30 seconds after the last listener, but never closes its
keep-alive link, so the statistics stream is never cancelled; the exception in `CallsSettle` is the
consequence: a shutdown that waits for that stream waits until the SSH session breaks. The login screen
connects without the manager, which "coordinates all connection services" (`connection_manager.dart:9`) and
whose `disconnect()` then does nothing. `reconnect()` dials the connection that its own `disconnect()` has nulled, and
throws (`ResumeThrows`), so that the "try to reconnect" of `main_screen.dart:55` never does. A keepalive of a replaced
client marks the live one as failed (`PingClosed`; "only mark as error if we can't connect at all", `ssh_service.dart:86`).
`streamStats` resets its counter of retries before each attempt (`grpc_service.dart:47`), so it never passes 1, and an agent that
is gone is called every two seconds for ever, where line 63 says "Max retries reached, stopping reconnection attempts".

Of the agent: `TestNetworkSpeed` and `Traceroute` are as the model has them, but the latency of a hop is 0 on Linux, whose
traceroute writes the number and `ms` as two words. The statistics' disk operation counts are not cut off after the
counters started again, though the comment above the cut-off says that it prevents this (`server_stats.go:283`). What is told of the network is
called bytes per second (`server_stats.go:44`, `protos/pi_control.proto:146`), but is the bytes of the interval since the last tick: a ticker
drops ticks when its reader is late, and nothing divides by the time that has passed; `NetTrue` is therefore about bytes. After a failed reading of the network
the next tick tells the whole counter, if it is below 10^12, as one interval's traffic. The lists look for "install ok installed" anywhere in dpkg's
status, so that a package marked for removal ("deinstall ok installed") is listed like any other, while one on hold is installed
in the details and missing from the lists. A continuation line of any field the parser knows is appended to the description.
The exceptions in the properties of section 3 are the rest: an upgrade abandoned with its client waiting when a line of it is not UTF-8, a quiet journal,
an upgrade stuck behind a line that is too long, a database broken by a client that left.

## 4. What is proved

TLAPS checks these for every number of calls, Pis, sessions and channels.

* `SshServiceProofs`: each piece of SSHService preserves `SshTypeOK` and the three safety properties.
  These lemmas are cited by both systems that are built from the pieces.
* `SshClientsProofs`: `ClientsTypeCorrect`, `ClientsSafe`: the service is safe under any callers.
* `ConnectionProofs`: `TypeCorrect`; `SshSafeInApp`, the three properties in the app, login screen
  and reconnects included; `GuardsInvariant` and `GuardsAlwaysAgree`. `GuardsAgree` is not inductive:
  the connection that makes the manager connected was put in `arg[k]` many awaits earlier, or picked up
  by `continueConnection` from a connecting state that another call left. `GuardsInv` adds that each
  call of connect carries a connection and that a connecting state has one.
* Also `ConnectionProofs`: `AppKeepsContract`, the refinement `SshContract`. `Move(k)` says what a step of
  call `k` is for SSHService: one piece of one of its methods, or nothing; there is a lemma for each
  family of actions. `GuardsInv` is needed because a dial of `SshClients` must be of some Pi.
* `SerialProofs`, under `SerialUse` (one user action at a time, through the manager, no faults):
  `SerialPhases`, `CleanupIsComplete` (`Released`), `ConnectIsComplete` (`Usable`). The last two speak
  only of moments when nothing is in flight; `SerialInv` says, for each await, exactly what exists then
  (`PhaseInv`), who owns every open session and channel (`ResourcesInv`), that there is one call
  (`OneCallInv`), and what is left between calls (`RestInv`).
  `ConnectionIsPromised` (`PromiseKept`) is proved from `SerialInv`, one lemma for the manager's steps, one for the
  screen's, one for what the user starts and one for the background: each step is one of the promise or a stutter. Which one
  a step maps to depends on `PhaseInv`: a clean-up that closes the tunnel is `UndoTunnel` only because the call that runs it is
  the one that is undoing, and a dial is of the target only because `arg[k]` and `cmTarget` are then the same.
* `FileProofs`, for every number of transfers, paths and blocks: `FilesTypeCorrect`;
  `AcknowledgedIsReceived` (`AckedAll`): an open stream has no final chunk yet, and a handler returns
  success only after the final chunk or the end of the stream; `UploadIsKept`, `PartialIsRemoved` and
  `DownloadIsKept` from one invariant, `KeepInv`. Its parts: paths do not share an inode (`DirInv`); an
  unborn transfer has done nothing (`StartInv`); an open file belongs to the one path it was
  opened by (`FdInv`); two unmet transfers of one path do not
  overlap (`RivalInv`); what an unmet upload has written so far, or a download sent, is the file up
  to there (`UploadInv`, `DownloadInv`). Each step has two sides: what it does to its own transfer
  (`OwnKept`, `OwnRead`) and why no other undisturbed one notices (`OthersKept`).
  `FilesRest` (`FilesAtRest`) needs more than one transfer's view, since the file may be the work of an upload that was over
  long ago: `RestInv` says of each path without crossed uploads that what it leads to is what was there, one upload's that is
  over, or the open file of the one that runs. The lemmas follow the steps: what one that touches no directory leaves
  (`QuietRests`), what a deletion, a beginning, an upload's own write, end and clean-up do (`DeleteRests`,
  `BeginRests`, `UploadRests`).
* `SshClientsProofs.TunnelHoldsPort`: a tunnel believed open holds the port, from the lemmas of the pieces.
* `AgentProofs`, for any calls, methods, outputs and capacity of the pipe: `AgentTypes`, `NoProgramLeftBehind`,
  `ResultIsTold`, `UpgradeIsTold`, `DatabaseSound`. The invariant `Own(c)` speaks of one call: what a call nobody made or that still waits for its request has
  (`Idle`), whose program runs (`Life`), that a result is the last message (`ResultOf`, with `PlanOf` for what is still to
  be sent), and where the lines of an upgrade are: in its pipe, with its handler, or sent (`Upgrading`, `Upgraded`). No property is inductive
  without it: that a success comes after every line needs to know, at each `pc`, how many of the lines written are still on the way. `Frame` shows that
  a call's step leaves every other call as it was, so that `Own` need be preserved only by a call's own steps;
  the locks and the database are what calls share, and have an argument of their own (`Held`: apt's locks are held by
  calls that run apt).
  `AgentIsPromised` (`AgentKeepsPromise`) adds two facts to it, `OneRun`, that a call with one program has started it at most once and is past
  it when it ended, and `DpkgHeld`, that an upgrade that holds dpkg's lock is past its first program. There is a lemma for each
  family of handlers (`PackagesKept`, `JournalKept`, `StreamsKept`), for programs and clients
  (`OthersKeep`) and for the process (`ProcessKept`): the step of a call is one of the promise, or shows nothing of itself.
* `StatsProofs`, for any streams, word, limit and bounds: `StatsTypes`, `NetIsTrue`, `DiskRatesTrue`,
  `DiskRatesListed`. The histories are in line (`Past`): between two readings the counter has counted, or has started again
  and counted from there (`Later`), whatever was missed between them; a stream keeps the counter of its last reading of the network, or 0
  when that failed (`Held`), and the disk fields are what the last stream to store them read (`Disk`). The arithmetic is in lemmas: a
  difference is what was counted, or, after the counter started again below its old value, beyond the limit and so shown as 0.

* `QueriesProofs`, for outputs of any length and any of the bounds: `PackagesAgree`, `DescriptionIsWhole`, `UptimeIsTold`,
  `UnmarkedAreTold`, `TopIsSelected`, `HopsAreTold`. The invariant of the specification, `QueryInv`, says only that the answer is one the
  code gives to the input; the work is in the loops. The library's induction takes a predicate as its parameter, which
  no prover here can instantiate, so `UpToInduction` is stated of a set of numbers and proved by a smallest counterexample, from the
  library's well-foundedness of the naturals. With it, each loop's function exists and obeys its recursion
  (`DetailsRecursion`, `WordsRecursion`, `SortRecursion`), and each has an invariant over its rounds: what of the
  description there is after n lines (`DetailsSoFar`), that an address in brackets, once seen, is not lost (`BracketedKept`),
  that after n rounds the n busiest come first and nothing is lost or doubled (`IsSortedTo`, `RoundSorts`). What a loop keeps is in
  order and complete by counting the places up to each (`RankOnto`, `PlaceOfRank`, `KeptFacts`).

Assumptions on constants: `None` is no session, Pi, channel, call or number; `Faults`, `Entry` and `Asked` are subsets of
their values; `Serial` and `CanThrow` are Boolean; a pipe holds at least one line, outputs are sequences of lines, a scan has a port;
`ModAssumption`: what can be counted in all, and the limit over the longest interval, fit the word together (in the code, 10^12 bytes a second
against 2^64: true for half a year between two ticks). `InputsAssumption`: the inputs of `AgentQueries` are `WellFormed`. TLC evaluates them in every run.

`SerialUse` is not an assumption about the code: it is where the promise holds. `usable_overlap`
and `left_connecting` show what becomes of it without: overlapping calls,
and a screen left half way (for which `Released` and `Usable` say nothing, as the manager is
neither disconnected nor connected).

Only model-checked: liveness (`NoOrphanTimer`, `CallsSettle`, `TransfersSettle`, `LeaverNoticed`, `StopCompletes`, `LocksFreed`), which
is out of the prover's reach. Every invariant that a passing run checks is stated by a theorem, and so are the three refinements.
`GuardsAgree` is checked one user action at a time and proved for every interleaving.

## 5. What is not modelled

* Bytes, commands, versions, dialogs' wording, progress: data the properties do not tell apart.
* `openShell`, `getSftp`, `dispose` of SSHService; they change none of its fields while it is used.
* Of file transfers: directories, permissions, the resume offset, the list with its progress, and
  `cancelTransfer`, which marks an entry of that list and stops nothing.
* The app's side of the other unary gRPC calls: they are short and end with their transport.
* A failing `os.Remove` in the clean-up of an upload: its error is not looked at, and the partial file stays.
* Eleven of the queries have no property: their answers copy what the system says field by field, and the run shows only that every output
  of the kinds their loops tell apart is answered. Nor is it modelled that an answer of a query, which quotes programs, may be one that cannot be sent.
* Of the agent: the generated messages and client stubs; flow control in `Send`, which may
  block on a client that reads slowly; a kill of the agent itself (SIGKILL), after which its programs go on; the Windows branches;
  Docker's log frames; speeds and sizes. The read in `measureLatency` has no deadline, and is a step that ends.
* The `updateConnection` write of the connections screen after a success (an await on storage).
* The Pi as the app's commands see it: sshd, the agent's binary, its log. Any answer may come back.
* The components marked `not_modelled` in `PROJECT.json`; those worth modelling are in the plan.

## 6. Plan

In order of importance.

1. Done: the connection core, its invariants, the contract of SSHService, and their proofs.
2. Done: `FileServer` and `FileTransfer`, their properties and proofs, `FilesAtRest` among them. An
   abstract specification in which a transfer replaces its file in one step would say no more than these do: a file
   is truncated when its upload begins, and what is seen of it in between is not hidden from anybody.
3. Done: the agent: its process, calls and child programs (`AgentSystem`), the shared statistics (`AgentStats`), its
   queries (`AgentQueries`), with proofs for each.
4. Done: `AgentPromise`, the abstract agent, and its proof. Left: that an upgrade's lines arrive in order, for which
   the lines of the model would need to be told apart.
5. Done: `ConnectionPromise`, the abstract connection (off, making, on, undoing), refined by the system
   under `SerialUse`, with its proof.
6. `SftpInit` and `ConnectionStore`: small modules for SftpService's first calls and the list of connections.

Runs stay few: components that share an instance share a run.
