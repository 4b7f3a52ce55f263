# A verification project for vito-local

`vito-root-service` is a root daemon on a Unix socket. The user `vito` connects,
sends one JSON line, and the service either runs the command it names through
`/bin/bash -c` and streams the output back, or performs an action: it reports
its version, checks for a release, or updates itself and restarts. This
directory holds TLA+ modules that model it, TLC configurations that check them
on small instances, and theorems about them that TLAPS checks for instances of
every size.

Paths in this file are relative to the repository. "The code" means the Go
sources; tests and documents are quoted where the code disagrees with them.

## 1. The system

| Component | Code | State it keeps | Operations |
|---|---|---|---|
| Server | `internal/server/server.go` | listener, `connSem` (places), `wg` (handlers), `restartChan` | accept loop, limit, drain, restart request |
| Lifecycle | `cmd/vito-root-service/main.go` | signal context, shutdown context, `restartRequested` | start, select on signal and restart, shutdown with a deadline, exit |
| Authorization | `internal/server/auth*.go` | none | compare the peer's uid with the configured one |
| Handler | `internal/server/handler.go` | `execCtx`, `writeMu`, one per connection | parse, route, run a command, answer actions |
| Executor | `internal/executor/executor.go` | process group, two pipes, the context watcher of `os/exec` | start, stream, cancel, reap |
| Protocol | `internal/protocol/protocol.go` | none | parse one request, write responses |
| Updater | `internal/updater/updater.go` | the running version | compare versions, sequence an update |
| Replacement | `internal/updater/download.go` | files: extracted binary, `.name.new`, the binary | download, extract, replace |
| GitHub client | `internal/updater/github.go` | none | latest release, asset for the platform |
| Configuration | `internal/config/config.go` | none after start | user and group lookup |
| systemd units | `systemd/` | socket, restart policy | activation, restart, stop |
| Scripts | `scripts/` | installed files and version marks | install, re-run, uninstall |

How they interact: `main` starts the server with a context that a signal
cancels. The accept loop is one goroutine; each admitted connection gets another
one, which shares the semaphore and the wait group with it and the context with
`main`. A handler starts two reader goroutines per command, which call back into
its `writeResponse`; `os/exec` adds a goroutine that waits for the context. An
update handler talks to GitHub, replaces the binary on disk and asks `main`
through a channel to restart. `main` closes the listener, waits for the wait
group or its deadline, and exits; systemd, which owns the socket of the installed
service, goes on: it starts the next process after a failure, or when a
connection comes, from whatever binary is installed by then.

What is hard in it, and where it bites, is the list `hazards` of
`PROJECT.json`. In short: the accounting of places and handlers over all
interleavings with shutdown; wait group reuse; a client that stops reading or
leaves; background processes that keep the pipes open, or leave the process group;
cancellation that races
the natural end of a command; the death of the process in the middle of the
replacement of its own binary; overlapping updates; version order; stops,
crashes and failed starts around an update; the backlog across lifetimes.

What makes the components correct:

* server: never more than the limit in service, nobody entitled refused below
  it, no handler for a foreign uid, a drain that loses nothing, an end that comes;
* handler and executor: a line is executed exactly when it is a command within
  the limit; no protected variable is changed; all output before the exit status,
  in order, one final answer which is the true one, nothing left behind, and an
  end that comes;
* updater: a later release only, and an installation that is not behind when it
  is told so;
* replacement: the path of the binary names a whole release at every moment;
* the installed service: no old version stays in service after an update, a
  connection that waits is taken up by this process or the next, a failure recovers.

## 2. Modules

| Module | Is | Composes |
|---|---|---|
| `Admission` | what connection handling promises a client: the abstract specification | |
| `Lifetime` | what systemd and clients see of the processes of the service, one after the other: abstract | |
| `Server` | accept loop, handlers, semaphore, wait group, main, Shutdown: one lifetime of the process | implements `Admission` and `Lifetime` |
| `ServerProofs` | theorems about `Server` | extends `Server` |
| `LifetimeProofs` | `Server` implements `Lifetime` | extends `ServerProofs` |
| `ResponseStream` | what a client may read on the connection of a command: abstract | |
| `Environment` | which variables a request may set, and the merge with those of the service | |
| `Command` | one command: the request line, handler goroutine, two readers, mutex, context watcher, process group, pipes, client | extends `Environment`, implements `ResponseStream` |
| `CommandProofs` | theorems about `Environment` and `Command`: what is executed, and types | extends `Command` |
| `ResponseProofs` | theorems about `Command`: its answers and its end | extends `CommandProofs` |
| `BinarySlot` | what "atomically replaces" promises: abstract | |
| `Replace` | `DownloadAndExtract`, `AtomicReplace` and `Cleanup` on names, inodes and open files, by several update requests | implements `BinarySlot` |
| `ReplaceProofs` | theorems about `Replace` | extends `Replace` |
| `Version` | `parseVersion`, `isNewerVersion`, and the precedence of Semantic Versioning | |
| `Upgrade` | the versions running, installed, published and being downloaded | extends `Version` |
| `UpgradeProofs` | theorems about `Version` and `Upgrade` | extends `Upgrade` |
| `Service` | the installed service: systemd, many lifetimes of the process, updates, the backlog | extends `Upgrade`, implements its specification and `Lifetime` |
| `ServiceProofs` | theorems about `Service` | extends `Service` and `UpgradeProofs` |
| `MCServer`, `MCCommand`, `MCReplace`, `MCUpgrade`, `MCService` | constants and symmetry for TLC | |

### Server

`stage[c]` is the program counter of whoever has connection `c` in hand: the
listen backlog, the accept loop (`accepted`, `authorized`, `slotted`), or the
handler goroutine (from `parsing` to `served`). The three deferred calls that
end a handler, `conn.Close`, `wg.Done` and the receive from `connSem`, are three
actions in that order, because a shutdown, a new connection and the exit of the
process can fall between them. `sem` and `wg` are the counters of the code;
that they agree with the stages is an invariant, not a definition.

`req[c]` is what kind of request a connection turned out to be, or "none" as long as
no line has parsed. No step depends on it: it is a record of the routing, there for the
property that says whose connection may be closed without an answer.

`sync.WaitGroup` is modelled with what its documentation warns of: an `Add` that
runs while a waiter is being woken panics (`AddPanics`, `WaiterPanics`). The
waiter goroutine of `Shutdown` therefore has four states of its own.

`ctxDone` is the context of `signal.NotifyContext`. `SelectRestart` also
unregisters the signals, after which a SIGTERM kills the process
(`KilledBySignal`). `ProcessEnds` cuts every connection that is open and, without
socket activation, resets the backlog.

The work of a command, a download or a client is an event without fairness here;
a command in detail is `Command`.

`Lifetime` is the seam between `Server` and `Service`. It has the places of `main`
that others can tell apart, the context, the request for a restart, and of a
connection whether it is away, queued, in hand, in a download or waiting to ask for
the restart. `Server` implements it from its accept loop to its end (`Phase`, `Seen`),
`Service` with any number of processes: so the process that `Service` composes with
systemd and the versions does nothing that the goroutines of `Server` could not be
held to.

### Command

One connection whose request, if it is valid, is a command. `pc` is
`ParseRequest` (`parse`), the refusal of a request (`refuse`), and then
`handleConnection` and `Run` (`start`, `drain` for `wg.Wait`, `wait` and `watch` for the two halves of
`cmd.Wait`, `respond` and `reply` for the last response). `reader[s]` is
`readPipe`. `watcher` is the goroutine `Start` creates in `os/exec`: it calls
`cmd.Cancel` (SIGTERM to the group) when the context is done, waits `WaitDelay`,
kills the leader, and hands its error to `Wait`, which prefers a non-zero exit
status. A chunk stands for the bytes of one `Read`.

The processes are bash and those started from it. `holding[s]` are the
processes that have the write end of stream `s` open: bash has both, a child inherits
some of those its parent has (`Fork`), and any of them may close one while it runs
(`CloseOutput`), as `cmd >/dev/null &` or a daemon does. So one stream may end while the
other goes on, and a pipe may outlive bash. Processes may ignore SIGTERM and may
outlive bash; the client may stop reading, read again, or leave.

`outside` are the processes that have left the group of bash: by `setsid`, as a daemon
does, or as a job of a shell with job control (`LeaveGroup`). What they start is outside
too. SIGTERM reaches the rest, which is `Group`. Bash leads its group and cannot leave
it, and no process joins it again.

The request line comes in pieces. `typed` counts what the client has sent, `got`
what the `bufio.Reader` has taken through the `LimitedReader`, and `line` says
whether the end of the line is sent and what it will turn out to be. So the limit
may be reached with the newline, without it, or with pieces still in the socket,
and the client may go at any moment: `Parsed`, `TooLarge` and `RequestBreaksOff`
are the ways `ReadBytes` returns, with the newline before the limit, as in the
code. While a request is read nobody looks at the context.

`Environment` has keys as they come: a name, whether it is written in capitals,
and what follows it. `isBlockedEnvVar` compares the whole key in capitals;
`Variable` is what the entry `key=value` sets, which is the part before the first
"="; `Merge` lets the last entry win, as `os/exec` does. The filter and the split
are apart because a difference between them is what could go wrong.

### Replace

Names and inodes are apart, as they are for the kernel: `temp` and `target` say
which inode a name stands for, `handle[u]` which inode update `u` has open,
`file` what is in it, in blocks that remember their release. So a file that was
unlinked or renamed while another update writes to it behaves as on Linux.
`dirs` are the temporary directories of the downloads, one per update; `Cleanup`
removes it whatever the outcome. `Die` is the death of the process between any
two steps.

### Version and Upgrade

A version is a record of numbers and identifiers, and `ParseVersion` what the
cutting at dots, at "-" and "+", and `Sscanf` make of it. `Precedes` is clause 11
of Semantic Versioning, written from that document: the reference. `Upgrade` lets
any release become the latest one at any time, keeps the running version apart
from the installed one, and restarts at any time.

### Service

The composition of the parts over time. `proc` is `main`: `config` and `listen`
on the way up (either may fail), `serving`, `shutdown` until the listener is closed,
`draining`; or how the last process ended: `stopped`, `restarting`, or `failed`. `unit` is the state of
`vito-root.service`. `UnitAfter` is `Restart=on-failure`: a process that ends with
a failure while nobody stops the unit is started again (`AutoRestart`), any other
end leaves the unit dead, and a connection in the backlog of the socket starts it
(`Activate`). `Launch` runs the binary that is installed by then.

The accept loop takes connections until the listener is closed, a signal or a restart
notwithstanding (`Accept`).

`Terminate` is a SIGTERM, from a stop of the unit or a kill of the process. Where
`main` catches it (`Catches`) it cancels the context; before `NotifyContext` and
after `stop()` it ends the process. `StopTimeout` is the SIGKILL of
`TimeoutStopSec=`, which races the end of the drain: both are 30 seconds. `Crash`
is any other death. A handler is in one of three states: `accepted`, `updating`
(from the version comparison to the end of the download) and `applied` (installed,
in the half second before `RequestRestart`). The steps of updates are those of
`Upgrade`. Clients do one update at a time; `Replace` has them overlap. A drain may
end with handlers at work: that is the deadline, and `Server` has the detail.

The boot is `StartUnit`; the socket unit is up throughout. The start limit of systemd
(five starts in ten seconds) is not modelled: it needs five clean exits of
processes that were each activated within two seconds.

## 3. Runs

| Run | Expected | Shows | States |
|---|---|---|---|
| `Server_safety` | pass | 3 connections, 2 places, standalone socket, peers with the right uid, a wrong one or none | 207 000 |
| `Server_liveness` | pass | 2 connections, 1 place, socket activation, under `FairSpec` | 26 700 |
| `Server_drain` | violation | "all connections drained" with a handler at work | |
| `Server_update_reply` | violation | an update that fails without an answer | |
| `Command_safety` | pass | a request of up to one piece over the limit, a protected variable asked for in every form, bash, one background process, 2 streams, 2 chunks each, pipes of one chunk | 1 116 000 |
| `Command_liveness` | pass | the same with one chunk and no execution timeout, under `FairSpec` | 191 000 |
| `Command_timeout` | violation | the timeout does not bound the execution | |
| `Replace_sequential` | pass | 3 updates in sequence, 2 releases, 3 blocks | 32 200 |
| `Replace_concurrent` | violation | 2 updates at once leave a broken binary | |
| `Service_updates` | pass | 2 clients, 3 releases and a development build, 3 faults, under `FairSpec` | 133 000 |
| `Service_restart` | violation | the restart after an update leaves the service down until a client comes | |
| `Upgrade_prerelease` | violation | 1.0.0-rc.2 is called current when 1.0.0 is out | |

Why the bounds are enough. *Server*: every rule of the code involves the
connection at hand, another that holds a place, and a third that is refused or
comes late; with two places one is taken, one free or none. The one liveness run
keeps a place contended with one place and two connections, since the fairness is
per goroutine. *Command*: with pipes of one chunk a writer blocks at once, and
with two chunks an order within a stream can go wrong; a second background process
would only repeat what one does to the pipes and to the group (that a child can start
another is then left to the proofs, which have any number). The liveness run leaves the
execution timeout out: a command is cancelled in it by the shutdown or by a failed
write, and the steps that follow ask whether there is a cause, never which. *Replace*: three
blocks give a binary that is empty, partial, and whole, and `MinBlocks` 1 lets a
partial one pass `ValidateBinary` as a partial binary larger than `minBinarySize`
does; a third update finds what a dead one left after a successful one.
*Service*: 1.0.0, 1.0.1 and 1.1.0
differ in one number, in another, and in two that disagree; three faults allow a
failed start, a crash during the update and a stop, in any order; a second client
waits in the backlog while the first one's update ends the process. That the
comparison of versions is right for all numbers is proved. Connections,
streams, updates and releases are symmetric where the run has no liveness property.

### The properties

Server. `SlotsAccounted`: semaphore and wait group equal the number of
connections they stand for, and the accept loop has one connection at most.
`OnlyAuthorizedServed`. `DrainLosesAtMostOne`: an end of the process that has waited
for its connections, an exit after a reported drain or the panic of the wait group,
cuts off at most the connection the accept loop had in hand.
`OnlyCancelledUpdateUnanswered`: of all the connections the handler closes, only that of
an update, and only of one whose context was done, may be without an answer; a request
that does not parse, a command and the other actions are answered during a shutdown
too. `RestartAnswerDelivered`: a
client that was told its update is installed is never that lost connection.
`RestartNotForgotten`: while main is in its select, an installed update has its handler
asleep or its request in the channel. `ImplementsAdmission`, `RunsOneLifetime`: the
refinements. `ShutdownTerminates`,
`AppliedUpdateRestarts`, `BacklogServed`: liveness.

Command. `RequestAccepted`: of the ways a line can come and end, exactly the
valid ones within the limit are executed. `RequestTakenUp`: no reader waits for a
byte it will not read. `WaitsForSomethingUnderWay`: what each of the goroutines waits
for is under way, so that they never wait for each other in a circle.
`EnvironmentGuarded`. `ExitAfterAllOutput`, `AnswerTruthful`,
`NothingLeftBehind`, `ImplementsResponseStream`; `CancelledCommandEnds` and `FinishedCommandAnswered`
with the ways out the code leaves open, written into the properties. For both, a
client that stalls for ever. For a cancelled command also a background process that
holds a pipe for ever (`Survivor`), of two kinds: one that SIGTERM does not end, because
it handles the signal or was started after it by one that does; and one that the signal
does not reach, in another group. Nothing else keeps a cancelled command.

Replace. `ReplacesAtomically`: the refinement of `BinarySlot`.
`AppliedOwnRelease`: what an update installs is its own release, complete.
`NoTempLeft`: every way out of an update cleans up after itself, as long as the process
has not died (what it leaves then is for the next update, `AppliedOwnRelease`).

Upgrade, and with it Service. `CurrentMeansLatest`, `UpdateMovesForward`.

Service. `OutdatedOnlyUntilRestart`: a process that serves although another release
is installed has its restart requested, or a handler that will. `QueuedGetsAccepted`:
a connection in the backlog is accepted, by this process or a later one, whatever
ends this one. `RunsLifetimes`: the refinement of `Lifetime`. `FailureRecovers`: after a failure the service serves again without a
client, unless it is stopped.

### Where code and documents disagree

1. `Server_drain`. `server.go:127,136`. The accept loop may have taken a
   connection before the listener is closed and add it to the wait group after
   the waiter has found it empty. The drain is reported and the exit cuts the
   handler off (or the wait group panics). At most one connection is lost this
   way, by the exit or by the panic, which is `DrainLosesAtMostOne`.
2. `Server_update_reply`. `handler.go:225` relies on `PerformUpdate` to have sent
   the error; the context check at `updater.go:112` does not.
3. `Command_timeout`. `README.md:105`. SIGTERM goes to the group, SIGKILL to bash
   alone, and `Run` waits for the pipes first. So a background process that holds the
   pipes keeps the command for ever if it handles SIGTERM, and also, though nobody
   handles the signal, if it has left the group. (What `README.md:346` says of
   orphans fails in the same way.)
4. `Service_restart`. `main.go:91` counts on systemd to start the service again
   after exit code 0; the unit says `Restart=on-failure`. The new binary runs when the
   next connection activates the socket, which `QueuedGetsAccepted` shows it does,
   and not before (`README.md:244` tells clients that the update restarts the service).
5. `Replace_concurrent`. `download.go:208`. Two updates share `.name.new`: one can
   rename the file the other has just created, answer that it is applied, and the
   restart it asks for leaves the empty file as the binary.
6. `Upgrade_prerelease`. `updater.go:195-196`.

`server_test.go:196,224` describe a shutdown that lets a running command complete.
The test starts the server with a context nobody cancels; `main` drains under one
that is already cancelled, so the commands are sent SIGTERM first (`ShutdownCancels`
in `Command`). The test is about `Shutdown` alone and is right about that.

### Fairness

`Server!Fairness`: a goroutine that can take a step takes one (accept loop,
handlers, main, waiter), and the timer of the shutdown context fires, since
`TimedOut` is a step of main. Nothing is assumed of clients, of commands, of
downloads or of signals: a handler may stay in `parsing`, `running`, `updating`
or `downloading` for ever. Fairness of the handlers covers what needs nobody else: the
local answers, the sleep before the restart, the deferred calls.
(`check-update` asks GitHub, with the 30 seconds of its HTTP client as its bound.)

`Command!Fairness`: goroutines are scheduled, the grace timer fires, a signal
kills a process that neither ignores nor handles it, and the mutex and a client
that reads now and then serve whoever waits (`SF` on the two writes: Go's mutex
does not starve a waiter). Nothing is assumed of a command that was not
signalled, of a process that handles the signal, of the client, or of the
timeout. A request that nobody completes is read for ever.

`Service!Fairness`: systemd activates and restarts; main goes on, and its drain ends
by its deadline; the accept loop accepts; a handler that has slept asks for the
restart. Weak fairness is enough since none of these is switched off for ever by
turns: faults are bounded, and what ends a process ends its claim on them. Nothing is
assumed of clients, requests, downloads, releases or operators.

## 4. Proofs

`ServerProofs` holds for every finite set of connections, every limit, every set
of peers, and with or without socket activation.

| Theorem | Property | Argument |
|---|---|---|
| `TypeCorrect` | `TypeOK` | the range of `sem` and `wg` needs the counts, so `Counters == TypeOK /\ SlotsAccounted` is the inductive invariant; moving one connection changes the cardinality of a set of stages by one or not at all (`CountOfMove`) |
| `SlotAccounting` | `SlotsAccounted` | the same invariant |
| `OnlyAuthorized` | `OnlyAuthorizedServed` | `AuthorizedInv`, which starts at the stage after the check |
| `AnswerGiven` | `OnlyCancelledUpdateUnanswered` | `AnsweredInv`, which says at which stage an answer has been given, and that a connection on its way out without one is that of a cancelled update |
| `DrainLoss` | `DrainLosesAtMostOne` | `ShutdownInv` orders main, listener and waiter; `StragglerInv` says that once the waiter is woken or has returned at most one connection is pending: the `Done` that wakes it was that of the last handler, and what is left is in the accept loop's hand; `DrainedExitInv` carries that over the exit or the panic |
| `RestartAnswered` | `RestartAnswerDelivered` | the same: the pending connection came in after the context was done, so its update stops at the context check |
| `RestartKept` | `RestartNotForgotten` | inductive as it stands: only `UpdateApplied` gives the answer, and only `RequestRestart` wakes the handler |
| `Implementation` | `ImplementsAdmission` | step simulation under `Counters` and `AuthorizedInv`: `AcquireSlot` is `Admit`, `ReleaseSlot` is `Complete`, and the bound needs `sem = Cardinality(Holding)` |

`LifetimeProofs` is under the same assumptions. `OneLifetime` (`RunsOneLifetime`) is a
step simulation under `TypeOK` and `PhaseInv`, which ties the listener to the place of
main: a connection moves as its stage does, the steps of the wait group, the semaphore
and the waiter do not show, and `ProcessEnds`, whatever its cause, is `End`.

`UpgradeProofs` is about any releases; where a theorem needs them to have a certain
form, its hypothesis says so.

| Theorem | Property | Argument |
|---|---|---|
| `NewerIsStrictOrder` | | for all versions, `IsNewerVersion` is irreflexive and transitive, and two versions other than "dev" neither of which is newer are parsed alike: `NewerParts` says that at the first place where two lists of numbers differ the latter has more, or that it continues the former; the first difference exists because `<` on the naturals is well-founded |
| `OnlyNewerInstalled` | | `DownloadInv`: a download in progress is of a version newer, by the code's comparison, than the running one |
| `MovesForward` | `UpdateMovesForward` | for releases of three numbers whose pre-release and build have no dot (`UndottedReleases`): there `IsNewerVersion` compares the three numbers alone and implies `Precedes` (`NewerPrecedes`); `ForwardInv`: a download in progress is of a release that Semantic Versioning puts after the running one |
| `UpToDate` | `CurrentMeansLatest` | for releases of three numbers alone (`FullReleases`), where `IsNewerVersion` is `Precedes` (`NewerIsPrecedence`); inductive with `ForwardInv` |

`Upgrade_prerelease` shows that the restriction of `UpToDate` is needed.

`ServiceProofs` holds for every set of clients, any number of faults, and every set
of releases.

| Theorem | Property | Argument |
|---|---|---|
| `ServiceImplementsUpgrade` | `UpgradeSpec` | every step of `Service` is a step of `Upgrade` or leaves the versions alone: a launch is a `Restart`, an end is a stutter |
| `ServiceMovesForward`, `ServiceUpToDate` | `UpdateMovesForward`, `CurrentMeansLatest` | from the implementation and the theorems of `UpgradeProofs`, under the same hypotheses on the releases |
| `ServiceTypeCorrect` | `TypeOK` | inductive |
| `NeverOutdated` | `OutdatedOnlyUntilRestart` | `OutdatedInv` adds that the unit is up exactly while a process lives, that nobody is in hand before the accept loop runs, and that a process on its way up is what is installed: so an update that outdates a process has its handler in that process |
| `ManyLifetimes` | `RunsLifetimes` | step simulation under `OutdatedInv`: a launch finds the last process ended and nobody in hand, an end takes those in hand and leaves the backlog |

`CommandProofs` and `ResponseProofs` hold for every limit, every environment of the
service, every set of keys asked for, every set of streams and of background
processes, any number of chunks per stream and any pipe capacity.

| Theorem | Property | Argument |
|---|---|---|
| `LimitExact` | `RequestAccepted` | `RequestInv`: what is read is sent and within the limit; so a line that is read whole is within it, and one that is not whole at the limit is longer or open |
| `ProtectedVariables` | `EnvironmentGuarded` | `MergeGuards`: an accepted key is the variable it sets, hence not protected; and only `StartCommand` starts bash |
| `CommandTypeCorrect` | `TypeOK` | inductive; who waits for the mutex is one of the two readers or the handler |
| `CleanEnd` | `NothingLeftBehind` | `StageInv`: at which `pc` the readers, the watcher and bash may still be at work, and who may hold the mutex |
| `TrueAnswer` | `AnswerTruthful` | `ResultInv`: what `Run` will report, given how bash ended and what the watcher has handed over; `AnswerInv`: the answer sent is that report, and it is the last response |
| `NoCircularWait` | `WaitsForSomethingUnderWay` | `PipeInv` (only running processes hold an output), `RunInv` and `StageInv`: the readers are started before the handler waits for them, and over when it takes the mutex |
| `OutputFirst` | `ExitAfterAllOutput` | `PipeInv`: a reader is done when its pipe is empty and nobody holds it; `DeliveredInv`: unless the client went before the answer, what is read of a stream is delivered but for the chunk its reader has in hand; `StageInv`: no reader has one when the answer is sent |
| `ResponseImplementation` | `ImplementsResponseStream` | step simulation under the same invariant: a `Write` by a reader is the next chunk of its stream, the last response is the end |

`ReplaceProofs` holds for every set of updates and releases and every size of a
binary. The first three are about updates that may overlap; the last two assume
`OneAtATime`, that they do not, and `Replace_concurrent` shows that this is needed.

| Theorem | Property | Argument |
|---|---|---|
| `ReplaceTypeCorrect` | `TypeOK` | inductive |
| `NothingLeft` | `NoTempLeft` | `SweptInv`: in a process that never died, a directory is that of an update at work, and the temporary name stands for something only while some update is between `CreateTemp` and its `Rename` or `Discard`, which both free the name, whoever took it |
| `FirstBinaryKept` | | `FirstInv`: neither the temporary name nor an open file is ever the binary of the start, so an overlap can damage only what a successful update has installed |
| `InstalledOwn` | `AppliedOwnRelease` | `UpdateInv`: from the creation of the temporary file on, its inode is that of the one active update, which holds the first `off` blocks of its release; `CopyEnds` needs all of them |
| `ReplaceImplementation` | `ReplacesAtomically` | `BinaryInv`: the binary is whole and never the inode under the temporary name, so no step but `Rename` changes what is installed (`Effect`) |

What a dead update leaves is removed by `RemoveStale` before the next creates its own
file: without that step the inode would be another's, and `UpdateInv` fails at
`CreateTemp`.

The assumptions are those named in the modules (`ConnsAssumption`,
`MaxConnectionsAssumption`, `PeersAssumption`, `SocketAssumption`,
`ReleasesAssumption`, `FaultsAssumption`, `ProcsAssumption`, `RequestAssumption`,
`EnvAssumption`, `InodesAssumption`,
`BlocksAssumption`, and the others that bound the constants of `Command`) and, where it is said, the hypothesis on `Releases`.

Only model-checked: all liveness (proofs under fairness need `ENABLED`, which
the proof system does not handle). Every invariant and every action property the
passing runs check is also a theorem, under the restrictions named above.

## 5. What is not modelled

* JSON and the texts of the answers: a line is valid or not.
* A read deadline for requests: there is none, and the models have none.
* The bytes of the tarball: each of download and extraction succeeds or fails. The
  500 MB limit, which cuts a larger binary without an error, is a note under
  `hazards`. The ignored error of `Close` and the missing `fsync` before the rename
  would need a model of the page cache.
* The match of release assets, which depends on the names in one release alone (a
  note under `hazards` says which names would mislead it), the lookup of the group,
  logging, `auth_other.go`.
* A service started by hand: `createListener` then removes what is at the path. In the
  installed service the unit passes the socket. `Server` has the standalone exit
  (`SystemdSocket`), not two instances at one path.
* Process groups in detail: a process is in the group of bash or not. One that leaves
  never comes back, and one that is outside is not signalled by anybody, so nothing is
  assumed of its end.
* `os.Remove` and `os.RemoveAll` that fail: the clean-up of the replacement is taken to
  succeed where the process lives to do it.
* The characters of a chunk: a chunk is what a `Read` returns, whatever it is cut from.
* Accept errors other than a closed listener: the loop goes on, nothing changes.
* The scripts: a sequence of shell commands run by one person; what they leave, a
  binary of some release and the units, is `UpgradeInit` and `Init` of `Service`.

## 6. Plan

Done: `Server` (with `Admission` and `Lifetime`), `Command` (with `Environment` and
`ResponseStream`), `Replace`, `Upgrade` and `Service`, each with the proofs of its
safety properties and of the abstract specifications it implements.

Next, in this order:

1. `SocketPath`: instances started by hand that remove each other's socket
   (`server.go:181`, `server.go:143`).
2. The response stream of actions against `README.md:146`, and the byte boundary of a
   4096-byte read against the characters of the output.
