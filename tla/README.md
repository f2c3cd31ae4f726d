# zyris-daemon in TLA+

A TLA+ verification project for `zyrisd`, the headless node agent of this
repository: modules that model its concurrent and long-lived parts, TLC
configurations that check them on small instances, and theorems about them whose
proofs TLAPS checks. Line numbers refer to the sources under `src/`.

Contents: [the system](#1-the-system), [what is modelled and how](#2-modules-and-the-code),
[what the runs show](#3-what-is-checked), [fairness](#4-fairness),
[what is proved](#5-what-is-proved), [disagreements with the documentation](#6-findings),
[assumptions](#7-assumptions-about-code-outside-the-repository),
[what is not modelled](#8-not-modelled), [plan](#9-plan).

## 1. The system

`zyrisd` runs as a systemd user service on a machine without a screen in front of
it. A human enrolls the machine once with `zyrisd enroll` (a device-code flow); from
then on the daemon keeps a connection to an exchange and serves a terminal, files,
transfers and, when a desktop session is there, a screen and a keyboard to agents.

| component | source | state | operations |
|---|---|---|---|
| Credential life cycle | `zyrisd-node/src/credentials.rs` | `held`, `gave_up`, the credential file | `bearer`, `refresh`, `rotate` |
| Node run loop | `zyrisd-node/src/run.rs`, `lib.rs` | connection slot, exit code, three tasks | `run`, the on_connect hook, the refresher, `classify_refused`, `terminate` |
| Enrollment command | `zyrisd/src/enroll.rs` | none of its own: file, unit, server | load, stop, clear, obtain, restart |
| systemd unit | `zyrisd/src/service.rs` | unit file, unit state | `stop_if_active`, `restart_if_installed`, install, uninstall |
| State file and status | `zyrisd-node/src/state.rs`, `zyrisd/src/status.rs` | `state.json`, `state.json.tmp` | `write`, `read` |
| Desktop helper, parent | `zyrisd-node/src/display.rs` | process, framing thread, reaper, channel, announced capabilities, backoff | `spawn_child`, `call`, `attach`, `watch` |
| Desktop helper, child | `display/src/main.rs` | pipes, the proven backend, the cached input session, the restore token | serial request loop, probe, capture, input |
| Helper framing | `zyrisd-display-proto/src/lib.rs` | none | `write_frame`, `read_frame` |
| Terminal exec | `zyrisd-node/src/terminal.rs` | child process, its group, pipes | `exec`, `read_capped`, PTY operations |
| Peer transfer | `zyrisd-node/src/transfer.rs` | `listening`, the rendezvous client, the accept loop | `bind`, `on_connect` |
| Path gate, gated file_io | `zyrisd-node/src/gate.rs`, `file_io.rs` | roots and deny list, resolved once | `check` before each file operation |
| Configuration | `zyrisd-node/src/config.rs` | none | load, `resolve_roots` |
| Notification | `zyrisd-node/src/notify.rs` | none | best-effort message on the desktop |
| Command line | `zyrisd/src/cli.rs`, `main.rs` | none | dispatch |
| Packaging | `install.sh`, `packaging`, `scripts` | none | |

How they interact, and what is hard about it:

- **Daemon, file, server, systemd, human.** The daemon presents a refresh token that the
  server makes invalid by answering; the answer may be lost, the file unreadable, the
  clock wrong. Its exit code decides whether systemd restarts it (1) or parks it until a
  human acts (2). `enroll` works on the same file, with the daemon stopped only as far as
  systemd knows of it. Correct means: one bad answer never parks a daemon that could go
  on, a dead credential is never retried for ever, a good one is never lost by the daemon.
- **Three tasks, one state file.** The on_connect hook, the desktop watcher and the
  30-second refresher each rewrite `state.json` whole, through one temporary name and
  without a lock, and each samples what it writes before it starts. Correct means: `status` never
  reads a broken file, and reads the truth after a while. Neither is true of every interleaving
  (findings 3 and 4); the model has all of them and says which are safe.
- **Agents, a channel of one, two threads, a child process, a watcher.** A desktop call
  passes a channel to a thread that blocks in a pipe read; the only way to wake it is to
  kill the helper. Another thread reaps; the watcher withdraws capabilities, backs off,
  respawns. Correct means: each call gets its own answer or an error, in bounded time;
  what is announced is there; what nobody holds any more goes away.
- **A call, a shell, its children, three pipes.** `exec` writes stdin, drains two
  streams past a cap, and on a timeout has to reach a whole process group. Correct means:
  the call returns, the output is exact up to the cap, nothing is left running.
- **Reconnects, a transfer accept loop, a signal.** Each connection runs a hook with three
  awaits; a flag decides which hook starts the one accept loop and is given back on failure; a
  slot, filled in the body of the hook, hands the connection of the moment to the signal handler.
  Publishing may fail at any time, the loop may end. Correct means: at most one loop, one started
  on a connection that stays, a signal heard wherever the node is, and a close frame for every
  connection whose hook was called.
- **A path checked by name, used by name.** Correct means: what the gate resolved is where
  the file layer ends up, whatever was mounted or made since the gate was built or the path
  was checked, and what is not there yet can be made.
- **Two binaries, one unit.** `install` compares the unit's text, reloads, enables, starts or
  restarts; any step may fail or be the last, and some are passed over by what the environment does not tell.
  Correct means: success without a failed step is reported only for a unit of this binary that runs,
  and `uninstall` without one leaves nothing that comes back.
- **A display server that changes.** The helper probes once and keeps what it found for its life.
  Correct means: what it announced works, at least as long as the server stays what it was.
- **A frame and a death.** Correct means: frames arrive whole, and a broken one ends the reader.

The full list of hazards, each at its line and with the properties that watch over
it, is in `PROJECT.json` under `hazards`.

## 2. Modules and the code

| module | models | extends / instances |
|---|---|---|
| `Lifecycle` | credential file, `StoredOnly`, exit codes, the unit, `zyrisd enroll`, the server | |
| `Lifecycle_proofs` | theorems about it | `Lifecycle`, `TLAPS` |
| `DesktopHelper` | helper process, framing and reaper threads, callers, watcher | instances `CallService` |
| `CallService` | the abstract service agents see: each call concluded once | |
| `DesktopHelper_proofs` | theorems, among them the refinement of `CallService` | `DesktopHelper`, `TLAPS` |
| `StateFile` | writers of `state.json`, the connection slot, announced set | instances `AtomicFile` |
| `AtomicFile` | the abstract file a reader sees: from one text to the next in one step | |
| `StateFile_proofs` | theorems, among them the refinement of `AtomicFile` | `StateFile`, `TLAPS` |
| `Exec` | one `exec` call and its process tree | |
| `Exec_proofs` | theorems about it | `Exec`, `TLAPS` |
| `Transfer` | `on_connect` of every connection, the flag, the client, the accept loop | |
| `Node` | `run()` from start to exit: connections, hook, slot, signal, grace | `Transfer` |
| `Node_proofs` | theorems about both | `Node`, `TLAPS` |
| `Service` | `install` and `uninstall` against the systemd user manager | |
| `Service_proofs` | theorems about it | `Service`, `TLAPS` |
| `Gate` | the path gate and path resolution as functions of a tree | |
| `Files` | configured roots, the gate of a process, requests, a tree that changes | `Gate` |
| `Files_proofs` | theorems about both, and lemmas about path resolution | `Files`, `TLAPS` |
| `DesktopChild` | the helper from the inside: probe, backend, input session, token | |
| `Frames` | one direction of the framing, lengths included | |
| `HelperProcess_proofs` | theorems about these two, and lemmas about sequences | `DesktopChild`, `Frames`, `TLAPS` |
| `MCParts` | `Node`, `Service`, `Files`, `DesktopChild`, `Frames` side by side | these five |
| `MCExec` | `Exec` with either of two environments | `Exec` |
| other `MC...` | values for the constants of the runs | the module named |

A definition's comment marked `variant:` describes a plausible slip in that code (a
missing kill, a dropped guard). Variants are used by no specification; they are there to
check that the properties notice them, see section 3.

### Lifecycle

A credential is `[gen, rot]`: the gen-th enrollment, rotated rot times. It stands for
an access token and a refresh token. `store` is the file, `held` the copy in
`StoredOnly.held`, `req` and `reply` the request in flight between the upstream
`Enroller::force_refresh` and the server, so that rotation on the server, the answer,
the save and a crash are all apart. The process walks through `mode`: `boot` (config
and roots, `run.rs`), `bearer`, `bearer_rotate`, `dial`, `refresh_rotate`, `up`,
`backoff`, and the two ends `needs_operator` (`Error::NeedsOperator`, exit 2) and
`refused` (exit 2 if `gave_up`, else 1: `ClassifyRefused` is `classify`).
`AfterExit` is the unit text: `Restart=on-failure`, `RestartPreventExitStatus=2`.
`BearerHeld` and `BearerLoad` are `bearer()`, `Refresh` is `refresh()`,
`RotateAnswered`, `RotateRefused` and `RotateUnreachable` are the arms of `rotate()`
with what `bearer()` or `refresh()` does next, `StoreError` is `store_error`.
`Cli...` are the steps of `enroll()`, one file or unit operation each, so the daemon
runs between any two; clearing the old credential may fail, with the daemon stopped already, and so
may either half of `restart_if_installed`. The environment revokes, expires, rejects, kills, breaks and mends
files, moves the clock, mounts the roots.

### DesktopHelper and CallService

`proc`, `in`, `out` are a helper and its pipes; `framer`, `slot`, `serving` the framing
thread and its channel of capacity one; `st`, `to`, `age` a caller inside
`Child::call`; `wpc`, `cur`, `offer`, `announced`, `backoff` the watcher. An incarnation
is used again once nothing of it is left (process reaped, thread ended, no `Arc<Child>`).
`TimesOut` kills the helper as `call()` does; `FramerReads` fails only when the process
is gone or the frame is broken, which is what "blocked in a read" means. Answers carry
the caller they are for, so that a mix-up would show as `"wrong"`; the code does not
compare the id in a frame. `Tick` advances the clocks of the waiting callers and happens
only when the threads of the daemon are idle: their own steps take no time against a
60-second timeout, the helper's steps take any.

`CallService` has one variable and three actions, Issue, Conclude, Return.
`Calls == INSTANCE CallService WITH call <- callStatus` maps "in the channel" and
"being answered" to pending. "Wrong" maps to itself, which is no value of the abstract
variable, so the refinement excludes it.

### StateFile and AtomicFile

Per writer: where it is between `publish_state` and the end of `state::write`, the `State` it has
read so far, and which file it has open. `Publish` is the call, with the connection state the caller
sampled; `ReadSet` is `caps.descriptors()`; `Open`, `Write`, `Rename`, `Remove` are the system
calls. There is nothing between the three writers: each may stand anywhere while the others go on. An open
file stays what it is while names move: `fd` says whether it is now called `state.json.tmp`,
`state.json`, or nothing, so that a task may write into the file another one has already
renamed. `temp` and `file` are the two texts; a shorter text written over a longer
one is `Torn`. `slot` is `ConnSlot`, whose `is_alive` turns false with the connection without any
hook being called. `last` is the refresher's local variable of that name. `met` and `spoiled` are
history: which writers overlap another one's write, and whether the file was last changed by such.

`AtomicFile` knows whether the daemon is up, what a reader finds, what each writer is publishing, and who
met whom. `Begin` is the open of a publication, `Commit` the whole effect of one that met no other,
`Mix` what writers that met do, of which nothing is promised, `Killed` the end of the process, which costs at
most the publications under way. `Written == INSTANCE AtomicFile WITH up <- phase # "down", pending <- ...`
maps the value of a task between `Open` and its end to what it is publishing: for a writer that met no
other, everything but `Open` and `Rename` stutters, and `Rename` is the commit.

### Exec

Pipes and caps count chunks. `child` is the shell, `other` one process it started,
in its group or escaped into a session of its own. `WriteStdin` is the `write_all`
before the reads; `ReadCapped` takes any number of the chunks that are there, keeps up
to the cap and drops the rest; `TimesOut` is the SIGTERM of `kill_group`, with any
subset of the group dying of it, and `GraceEnds` the SIGKILL after `KILL_GRACE`.

### Transfer and Node

`hook[c]` is where connection c's `on_connect` future stands, by its awaits: the first
`wait_capability`, `peer_publish`, the swap of `listening`, the wait for the directory.
`WaitOk` is an announced capability, also of a connection that died meanwhile; `WaitErr` is
`CONSUME_WAIT` passed, or the connection gone. `Publish` succeeds or fails on any connection (a 5xx, a
timeout, a missing scope), is logged and goes on. `NoApi` to `SpawnLoop` are the code between two
awaits; `LoopEnds` is the return of `serve_peers`, which leaves the flag as it is. `Node` adds the
process: `BindTransfer` may fail and the node goes on; `Connect` is the Runner, which has a connection
nobody else knows of yet; `HookBody` is the body of the hook it then calls, which fills the slot before it
returns the future; `Terminate` is the second branch of the `select!`, which may come between the two;
`SlotClosed` is `ConnSlot::close`, `GraceOver` the end of `CLOSE_GRACE`, during which the
Runner's task goes on and may connect again. The repository does not say whether the Runner waits for a
hook's future before it dials again: `overlap` is chosen once and both are explored.

### Service

The binary may live in any place of `Origins` (in the run two, the package's and
`install.sh`'s), each with its own unit text. `sys` is the unit file, what systemd loaded of it, what runs,
whether the binary that runs was replaced under it (`stale`: an upgrade in place leaves the text of the
unit as it is), linger, and which of the configuration and the runtime directory exist; `cmd` the command
under way, one program counter per call in `install()` and `uninstall()`, in their order, with the variables
its environment has. `SwitchLinger` passes over linger where `$USER` is not one of them, and no step fails.
`Ignored` is a step whose failure nobody looks at (a status of systemctl or loginctl, `remove_dir_all`),
`Bail` a `?`, `Interrupt` a command that ends in between; all three only where `faulty`. The unit meanwhile
ends, restarts, saves; the machine reboots; an `enroll` may run, and a package come, go or be upgraded,
between two commands.

### Gate and Files

A tree maps places to missing, directory, file or link. `Walk` is the kernel's resolution: `Step` walks one
part or follows one link, and stays where there is nothing to walk to; the kernel's limit is `MaxSteps`.
`JoinLikeUpstream` works on the text of the path,
`CanonicalizeDeepest` on the tree, `Check` compares deny before roots: three functions as in
`gate.rs`. `Files` starts from every tree with at most two links and every config of a small
set: `Valid`, `Roots` and `Deny` are `parse` and `load`, `Present` is `resolve_roots`,
`BuildGate` what `run()` makes of them. `Ask` is the check of one request, `Perform` the
operation below it on the tree there is by then, `Appears` a mount or another program.
`Done` groups the methods by what they do to the tree (`look` is stat, list, read, and a cwd).

### DesktopChild

`server` says what `detect()` picks, which backends really capture, whether enumerating
displays works, is empty or panics, and what opening input does: works, asks the user,
fails, panics. `ProbeScreen` and the input steps are `handle(Probe)` in their order, with
`catch_unwind` where the code has it. `backend` is `BACKEND`, `cache` is `INPUT_CACHE` and its
lock, `token` the file. A capture is taken to enumerate the displays, so it panics where
enumeration does.

### Frames

A cell of `wire` is a byte of the pipe: four of a length, then the body; a cell of a body
knows its frame, so frames that were cut at the wrong place or mixed would differ. `WriterDies` leaves any
proper prefix of a frame. `ReadFrame` is a whole `read_frame`, `ReadRefuses` its
`InvalidData`, `ReadEof` its `UnexpectedEof`.

### MCParts

Five components that share no state, checked over one state space: `part` says which of
them moves, the others stay where they start. Nothing is composed by it.

## 3. What is checked

Every property is checked on the code's model (the runs below) and on a
variant of it: one definition replaced by the slip the variant describes, on which TLC
has to find the property violated. The variants are listed in `PROJECT.json` under `mutants`.

| run | bounds | distinct states | shows |
|---|---|---|---|
| `lifecycle_safety` | 2 enrollments, 2 rotations, 1 kill, no file fault | 2 427 237 | `ParkedNeedsAHuman`, `OldTokenNotPresented`, `CredentialNotLost` |
| `lifecycle_live` | 1 enrollment, 1 rotation, 1 kill, all faults, unit or terminal | 515 439 | `ParkedNeedsAHuman`, `HealsByItself`, `RevocationParks`, `EnrollRevives` |
| `enroll_race` | a terminal daemon, no unit | counterexample | finding 1 |
| `helper_safety` | 2 agents and the probe, 2 incarnations, timeout 2 | 1 056 701 | `AnnouncedIsCurrent` |
| `helper_live` | 3 agents and the probe, 1 incarnation, timeout 1 | 69 697 | `CallsConcluded`, `DeadHelperWithdrawn`, `NoOrphanHelper` |
| `helper_kill` | 2 agents, timeout 2 | counterexample | finding 2 |
| `state_file` | 1 kill, three writers | 272 581 | `WholeUnlessMet`, `AtomicWrites`, `DropStaysShown`, `ChangeStaysShown` |
| `state_torn` | no kill | counterexample | finding 3 |
| `state_stale` | no kill | counterexample | finding 4 |
| `exec` | 2 chunks of stdin, pipes of 2, cap 2, output up to 5 a stream, two environments | 34 722 | `TreeGoneAfterTimeout`, `OutputExact`, `CallReturns`, `EndsWithoutTimeout` |
| `exec_stdin` | stdin larger than the pipe | counterexample | finding 5 |
| `parts`: `Node` | 2 connections | 14 320 | `OneAcceptLoop`, `FlagIsHeld`, `NoneLeftUnclosed`, `StopsWhenTold`, `TransferComesUp` |
| `parts`: `Service` | 2 binaries, any number of commands | 235 144 | `InstalledRuns`, `UninstallLeavesNothing` |
| `parts`: `Files` | 2 names, depth 2, 2 links, requests of 2 parts, 4 configs | 83 486 | `ServedFromRootsOnly`, `PlainPathsPass` |
| `parts`: `DesktopChild` | none | 8 464 | `AnnouncedWorks`, `AskedOnce` |
| `parts`: `Frames` | 2 frames, JSON to 2 and blob to 1 cell | 2 085 | `FramesArriveWhole` |

Why the bounds are enough. Two enrollments are the least for a token of an *old* one; two
rotations let a successor be lost and its successor be wanted. Liveness needs only one
of each, with a kill between any two steps, and gets all five kinds of file fault instead, one at a time, in any order. A
helper needs a second incarnation for the threads of a dead one to run beside its
successor, two agents and the probe for a job behind a job; three agents at one
incarnation let a call wait in the channel, one in the thread and one at
the channel's door. In `exec` the output passes both the cap and the pipe, and the cap is
hit exactly, by one chunk less and by more. At MaxRot the server hands out the same
token again instead of going on counting; `Expire` and `Reject` stop there.

Two connections let the hook of a second one meet the flag of a first that still waits for
its directory, with a loop, a failure or a restart in between; with three connections (345 232 states of
`Node`) nothing changes, and the theorems hold for any number. Depth two with two links has a root
behind a link, a denied directory behind a link, a link to a link and `..` out of a root. No resolution of
a request takes more than nine steps here unless it goes round in circles, so ten cut off nothing else; the
theorems hold for any number.
Frames go from one cell below to one above each limit.

What the properties mean:

- `ParkedNeedsAHuman`: exit code 2 only when waiting cannot help. This is the one a
  single misfiled error breaks (a 503, an EIO, a 500, each after the other in any order).
- `OldTokenNotPresented`, `CredentialNotLost`: `enroll` and the daemon never work with two
  enrollments at once, and the daemon replaces a good credential only by its successor.
- `HealsByItself`, `RevocationParks`, `EnrollRevives`: up again, or parked with the
  credential gone, or revived; never a restart loop. `RevocationParks` leaves out a process
  that is on its way to park for another reason (it parks, with the file in place).
- `CallsConcluded`, `DeadHelperWithdrawn`, `NoOrphanHelper`, `AnnouncedIsCurrent`: see the
  modules.
- `WholeUnlessMet`: `status` reads half a text only after two writers met, and not after a write that met
  none was renamed over it; a kill at any instant, and what it leaves behind, never suffice.
  `AtomicWrites` says more: a write that meets no other takes the file from what it was to exactly its own
  text, and without writers that met nothing else changes it.
- `DropStaysShown`, `ChangeStaysShown`: what the file says of the connection and of the announced set in the end,
  although three tasks sample and write without a lock. Both speak of a drop or a change with no
  publication under way across it (`Quiet`). Without that the code does not do it: a task
  that took the connection to be alive, or read the old set, before the change may rename last, and nothing
  writes again (`last` is false already; the watcher is done) until the connection or the set
  changes. TLC finds both when `Quiet` is dropped. `DropStaysShown` also speaks only of connections that lasted
  through a tick of the refresher; for the others see finding 4.
- `EndsWithoutTimeout`: the run has a program of which nothing is asked and a timeout that fires, or one that writes
  all it has, more than cap and pipes hold, and only then ends, with a timeout that need not fire. The second is never
  stalled by the daemon; reading that stopped at the cap would stall it.
- `TreeGoneAfterTimeout`: of the group. A process that called setsid is out of reach,
  and the model has it (`"escaped"`).

`lifecycle_live` uses `ReuseTolerated = TRUE`: the server takes a refresh token again as
long as nobody presented its successor. With single-use tokens a lost answer costs the
enrollment, whatever the daemon does; safety is checked with them.

- `FlagIsHeld`: set exactly while a hook is on its way to start the loop, and for good once one was started. That
  includes a loop that has ended: the code logs it (`transfer.rs:190`) and no later connection starts another,
  so nobody accepts until the process is restarted.
- `TransferComesUp` accordingly claims that a loop was *started*, and that publishing was *tried* on the connection: one
  that failed for a passing reason is not tried again on it (`transfer.rs:171`). It is claimed where hooks do not
  overlap. Where they do, a hook that finds the flag taken leaves, and if the other one then gives the flag back nobody
  listens until the next connection.
- `NoneLeftUnclosed` speaks of connections whose hook had been called when the signal was handled. One that the
  Runner has made and not yet called the hook for, or makes during `CLOSE_GRACE`, ends without a close frame.
- `InstalledRuns` and `UninstallLeavesNothing` speak of commands in which no step failed; the code ignores most
  failures, and reports success, or "Removed credentials", all the same. Both claim linger only where `$USER`
  is set: without it `loginctl` is not called, no step fails, and `install` still prints that it will connect on
  every boot. `InstalledRuns` has `cmd.changed` for a system where earlier commands were cut short (an
  install interrupted after the write makes the next one find the text unchanged, skip the reload
  and only `start`), and for a binary replaced in place, which that `start` does not exchange.
- `ServedFromRootsOnly` leaves out what the gate cannot know: links that lead nowhere at the check, links
  changed since, and a deny entry that was missing at the start and lies behind a link. It leaves out a request
  whose resolution was cut off by the kernel's limit on links (`MaxSteps` in the model, which also counts parts;
  `settled` is false for it), and it is claimed for configured paths that are written with names, without `..`
  (`ConfigsAssumption`); requests and links may have them.
- `AnnouncedWorks` ends with a change of the display server: the proven backend and the input session stay
  what they are for the helper's life, although the comment at `main.rs:77` says that input is opened
  fresh on every call.

Deadlock is not checked where the system may stop for good: a parked unit nobody touches
or an `exec` that is over, a node with its connections used up. The helper and the state file are checked for it.

## 4. Fairness

- `Lifecycle`: the process goes on, systemd restarts what it says it restarts, a
  reachable server answers, and closes a revoked node's connection. A human who started
  `enroll` promises nothing except that the process they started finishes its last step.
  The unit's `RestartSec=5` keeps restarts below systemd's start limit.
- `DesktopHelper`: weak fairness for threads, the watcher, the clock and the kernel's end
  of a killed process; strong fairness for a caller, because a tokio `mpsc` channel admits
  waiting senders in order. No fairness for `HelperAnswers`: a helper may
  never answer. No fairness for agents.
- `StateFile`: weak fairness for each task's steps; none waits for another. Nothing is asked of connections.
- `Node`: weak fairness for the process's own steps (binding, the signal branch of the `select!`, the end of
  `CLOSE_GRACE`), for the call of the hook by the Runner that has a connection, and for each future it returns, whose
  every wait ends by an answer or by `CONSUME_WAIT`. Nothing is
  asked of the server or of connections. The other parts of `MCParts` have no fairness.
- `Exec`: the daemon and its timer, nothing of the program; or, in the other environment of `MCExec`, the daemon and
  a program that writes what it has as far as the pipes let it and ends after that, nothing of the timer.

## 5. What is proved

The theorems hold for every value of the constants that meets the named assumptions
of the modules (`BoundsAssumption`, `EnvAssumption`, `NoneAssumption`,
`BoundAssumption`, `NameAssumption`, `SizeAssumption`, `StateFileAssumption`, `ConnsAssumption`,
`ServiceAssumption`, `FramesAssumption`, `GateAssumption`, `FilesAssumption`, `ConfigsAssumption`). What a theorem assumes beyond them stands in
its own statement: `Managed`, `SystemctlMayFail = FALSE`. Each is needed, and TLC
shows what happens without it (below). The runs all have `SystemctlMayFail = FALSE`; the branches it adds are covered
by `TypeCorrect` only.

| theorem | says | argument |
|---|---|---|
| `Lifecycle_proofs!TypeCorrect` | `Spec => []TypeOK` | one step per group of actions |
| `Lifecycle_proofs!OldTokenStaysHome` | under `Managed`: `Spec => []OldTokenNotPresented` | `ManagedInv` |
| `Lifecycle_proofs!CredentialKept` | under `Managed`: `Spec => CredentialNotLost` | `ManagedInv` |
| `Lifecycle_proofs!ParkedForAReason` | with a working `systemctl`: `Spec => []ParkedNeedsAHuman` | `ParkInv` |
| `DesktopHelper_proofs!TypeCorrect` | `Spec => []TypeOK` | by groups of variables |
| `DesktopHelper_proofs!AnnouncedCurrent` | `Spec => []AnnouncedIsCurrent` | `AnnouncedInv` |
| `DesktopHelper_proofs!CallsServed` | `Spec => Calls!Init /\ [][Calls!Next]_callStatus` | `AnswersInv` |
| `Exec_proofs!TypeCorrect` | `Spec => []TypeOK`, with it: no more than the cap is kept | |
| `Exec_proofs!TreeGone` | `Spec => []TreeGoneAfterTimeout` | inductive as it stands |
| `Exec_proofs!OutputIsExact` | `Spec => []OutputExact` | `OutputInv` |
| `StateFile_proofs!TypeCorrect` | `Spec => []TypeOK` | one step per action |
| `StateFile_proofs!TornOnlyByMeeting` | `Spec => []WholeUnlessMet` | `FileInv` |
| `StateFile_proofs!WritesAreAtomic` | `Spec => AtomicWrites` | `FileInv`, `DownIsIdle` |
| `Service_proofs!InstallRunsIt` | `ServiceSpec => InstalledRuns` | `ServiceInv` |
| `Service_proofs!UninstallIsClean` | `ServiceSpec => UninstallLeavesNothing` | `ServiceInv` |
| `Node_proofs!TypeCorrect` | `NodeSpec => []NodeTypeOK`, with it: no hook without a transfer | `IInv` |
| `Node_proofs!AcceptLoopUnique` | `NodeSpec => []OneAcceptLoop` | `IInv` |
| `Node_proofs!FlagHeld` | `NodeSpec => []FlagIsHeld` | `IInv` |
| `Node_proofs!CloseReachesAll` | `NodeSpec => []NoneLeftUnclosed` | `IInv` |
| `HelperProcess_proofs!AnnouncedOnlyIfItWorks` | `ChildSpec => []AnnouncedWorks` | `ChildInv` |
| `HelperProcess_proofs!DialogOnce` | `ChildSpec => []AskedOnce` | `ChildInv` |
| `HelperProcess_proofs!EveryFrameArrives` | `FramesSpec => []FramesArriveWhole` | `FramesInv` |
| `Files_proofs!ServedFromRoots` | `FilesSpec => []ServedFromRootsOnly` | `FilesInv`, `RequestInv` |
| `Files_proofs!PlainPaths` | `FilesSpec => []PlainPathsPass` | `FilesInv` |

**Managed.** `OldTokenStaysHome` and `CredentialKept` assume that the daemon runs as the installed
unit, that `systemctl` works and that the files stay good:
`Installs = {TRUE} /\ SystemctlMayFail = FALSE /\ Faults = {}`. Without the first two the
statements are false, finding 1. They are false too with any one kind of file fault. `enroll` stops
the unit only when it can load a credential to replace. When it cannot, it ends with "Delete {} and
try again" (`enroll.rs:65`); the human deletes the file, and the second `enroll` finds none, stops
nothing, and works beside a daemon that still holds the old token in memory. With an
unwritable directory or a broken config the human who repairs it starts the service in the
middle of an `enroll`.

**ManagedInv.** `OldTokenNotPresented` is not inductive: nothing in it says what a request
may carry before `enroll` starts. `InSync` says that a request presents what the file
holds, and that what is held is what the file holds unless the process is at its end;
`AnswerFits` that an answer is of the generation presented and a refusal stays true (a
server never takes back a revocation or a rotation); `EnrollAlone` that past its stop
`enroll` has the machine to itself. `CredentialKept` needs the same three: a daemon
overwrites or clears the file only on an answer, which is about that file's credential.

**ParkInv.** `ParkedNeedsAHuman` has to hold with every file fault, a server that rejects, expires and
answers late, a wrong clock, kills, and an `enroll` at any step. Its invariant says, in six parts:
no credential anywhere is ahead of the server, and once the server's last token of an enrollment
expired nobody holds an older one (`ServerFits`, `FileFits`); an answer is the
server's last token (`ReplyFits`); what is in the file, in memory and in the request is one
credential, unless `enroll` is about to restart the unit (`OneCredential`); `gave_up` is set
only in a process that is ending, and a request is in flight only in one that rotates
(`ProcessFits`); and a unit that is parked, or a process on its way there, has its reason (`Excused`). The one assumption is `SystemctlMayFail = FALSE`:
if the restart at the end of `enroll` is ignored, the unit stays parked with a good new
credential beside it, and TLC finds that in a few steps.

**AnnouncedInv** adds the half-way points between the two `caps.add` and
the two `caps.remove` calls.

**AnswersInv.** Since the id of a frame is not compared, answers match requests only
because of the order of things: `PipesFit` says that both pipes are empty while the thread waits for
a job and hold at most the one request, or the one answer, while it serves one. A timed-out job keeps
this true because the caller's timeout kills the helper, and a killed helper's thread ends.

**FileInv.** Nothing keeps the writers apart, so the invariant says what holds of one that met no other: it is the only
such writer between its open and its end (`Alone`), the file it has open is the one called `state.json.tmp`, empty
until it writes and its own text after (`OwnTmp`), whatever a killed process or earlier writers left under that name; and
those that met are really under way (`MetAreBusy`), so that the file counts as spoiled as long as there are any. For the
refinement, `Open` maps to `Begin`, the `Rename` of a writer that met none to `Commit`, a kill to
`Killed`, every step of those that met to `Mix`, and all else to a stutter. Both theorems are of the specification as it is, with
all interleavings: what is not true of it (`NeverHalfWritten`, finding 3) is not claimed.

**ServiceInv.** What the steps of a command so far have made true, per program counter, while none failed and as far as
its environment goes (`InstallSoFar`, `UninstallSoFar`); and where no command can be cut short, what is true between two
commands and until the first change of one (`RestsSettled`). Without that last part nothing
would say why `install` may skip the reload and only `start` when the text is unchanged.

**FramesInv.** What was read is what was written first (`Delivered`); and there are bodies and places for the rest
such that each frame stands on the wire where the one before it ends, and behind the last whole one the beginning of
a frame whose writer died, or nothing (`Layout`). A written frame extends the layout (`LayoutWritten`), a death leaves
a proper beginning (`LayoutDies`), a read takes the first frame off (`LayoutRead`). `LengthsPass` is
the heart: in front of such a layout both lengths the reader sees are those that were written, so neither is too long
and it reads on exactly when the whole frame is there. The cells of a text are compared through
`Text`, `Joined` and `OnWire`, with one lemma for concatenation and one for cutting.

**OutputInv.** What has left a pipe (`wrote - pipe`) was kept up to the cap, and the flag
says if it was more; once a stream ended its pipe stays empty and no process is left to write.

**IInv** of `Node_proofs`. `OneAcceptLoop` says nothing of a hook that is about to start a loop; `OneHolder`
counts both, the hook that waits for the directory and the loop it starts, and `FlagInv` says
that the flag is up exactly while there is such a holder. `FreshConns` and `LoopsAreDone` keep
the two kinds apart. A loop that has ended is
still counted: the flag stays. For the close frame, `SlotInv` says that a connection that is up is the one
in the slot, unless the Runner has yet to call its hook; `OneUp` that there is no other one up in that moment; and
`HandledInv` that those the signal found called are closed or dead.

**ChildInv** ties what was told to what is kept (`ToldInv`, `Kept`), what is kept to the server as long
as it is unchanged (`Proven`), and the token to the approval (`TokenInv`).

**FilesInv** and **RequestInv**. The gate compares with what it resolved when it was built; the property
speaks of what the configured paths stand for now. `FilesInv` says where the gate's entries come from: each
root, and each denied path that was there, is what a configured path resolved to on *some* tree with the same
links (`Was`). Every step keeps the links (`SameLinks`), so this stays true however much was made, removed or
mounted since. `RequestInv` says what the check found and what still holds when the request is performed: no
link leads nowhere (`AllLead`), no link lies on the checked path (`NoLinkOn`), and the path is below a root of
the gate and below none of its denied ones. What appears meanwhile cannot make a link lead nowhere (`LeadsStays`).

The lemmas between the two are about `Step` and its iteration. `Settles`: where no link leads nowhere and the
kernel's walk comes to an end, `canonicalize_deepest`, which tries ever shorter ancestors, finds the place where
that one walk stands still, and no link lies on the path it makes of it: a link further down would have been
walked. So the kernel, given that path, ends there (`PlainResolves`). `WalksAgree` compares the walks of
one path on two trees with the same links: they agree step by step until one of them finds nothing there.
With both, `WasIsReal`: what a path resolved to once is what it stands for now, even where
part of it is gone. Each assumption has its place: `AllLead` because a link that leads nowhere is kept as a name by the
gate and followed by the kernel once its target is there, and `settled` because a resolution that is cut off
is not one that ended.

Induction over the steps of a walk, and over the length of a path, is a lemma of the module (`Induct`): of a set of
numbers instead of a predicate, proved from the library's fact that an injection of a finite set into itself is
onto. The recursive functions `After`, `JoinLikeUpstream` and `Present` exist by `RunExists` and
`IterationExists`.

Each inductive invariant was checked by TLC on the small instances as well, except `FramesInv`, whose layouts are
functions on all numbers, and the part of `FilesInv` that speaks of some tree, which TLC does not enumerate.

Only model-checked: everything about liveness (`HealsByItself`, `RevocationParks`,
`EnrollRevives`, `DeadHelperWithdrawn`, `NoOrphanHelper`, the liveness half of
`CallsConcluded`, `DropStaysShown`, `ChangeStaysShown`, `CallReturns`, `EndsWithoutTimeout`, `StopsWhenTold`,
`TransferComesUp`), because TLAPS does not reason about fairness here. Every other safety property of a run is a theorem.

## 6. Findings

1. `enroll.rs:55` says the daemon is stopped so that it "does not try to rotate with the
   old token". Only an installed unit is stopped. One started from a terminal loads the old, expired credential
   and presents its refresh token; `enroll` clears the file, is granted a new enrollment and saves it; then the
   daemon's answer arrives, and the rotation of the old credential is saved over the new one
   (`enroll_race`). Under the unit this is excluded (`CredentialKept`), except where `enroll` found no credential to
   replace (section 5, "Managed").
2. `display.rs:23` calls `REQUEST_TIMEOUT` the "longest a single request may take". It runs from
   the moment the job is in the channel: a helper may be killed early in a request because
   the one before took long (`helper_kill`).
3. `state.rs:26` says `status` "never reads half-written JSON". Three tasks share one
   temporary name; when two meet, one truncates or overwrites what the other renames, or has renamed
   (`state_torn`). A lock around `publish_state`, or a name per writer, and the sampling under the same lock,
   would also do away with the late writes of section 3.
4. `run.rs:204` gives as the refresher's purpose that a silent drop is not shown as
   connected forever. It compares with what it wrote itself; a connection that comes and
   goes between two ticks stays shown (`state_stale`).
5. `config.rs:57` and `README.md:84` bound an `exec` by its effective timeout. stdin is written before
   the timeout is armed and before the output is read; more stdin than a pipe holds can
   block the call for good (`exec_stdin`).

## 7. Assumptions about code outside the repository

From how `src/` uses it and what its comments say of it:

- `Enroller::force_refresh` reads the file, presents the refresh token, saves the
  successor before it returns, clears the file when the server refuses, and reports an
  unreachable server or a 5xx as `Transport` with the file untouched.
- `Enroller::obtain` returns an unexpired stored credential, rotates an expired one, and
  otherwise starts a device-code enrollment.
- The upstream `Runner` asks for one `refresh()` per 401 until it is connected again,
  backs off on `Unavailable`, and returns every other error from `try_run`.
- The server closes the connection of a revoked node.
- Saving the credential replaces a corrupt or too permissive file.
- A request in flight of a dead process may still rotate on the server: the model has this
  as a rotation before the kill.
- Killing a process that was reaped does nothing (process ids are not modelled).
- `serve_peers` may return at any time. Whether the directory client it was given still works
  after its connection is gone cannot be told from this repository.
- A client from `wait_capability` is that connection's; calls over a connection that ended fail.
- The Runner's task goes on while `run()` sleeps through `CLOSE_GRACE`.
- systemd: `start` does nothing on an active unit, `restart` runs what was loaded last, `enable` reloads,
  a missing `ConditionPathExists` is no failure, a unit whose file is gone is forgotten once it does not run
  and is not failed. The runtime directory comes and goes with the unit.
- A daemon run from a terminal, an `enroll` and a change of packages do not meet an `install` or `uninstall`
  under way; they come between any two of them.
- `LocalFileIo` uses an absolute path as it is and makes missing parents; links in the tree stay while a process runs.
- A session that the portal's dialog approved comes with a token, and with that token the dialog is not shown
  again (the user revoking it is left out). Capturing enumerates the displays.
- `create_dir_all`, open and write of the state file succeed (a full disk is left out), and `XDG_RUNTIME_DIR` stays what it is.
  Of the announced set the file is compared in one respect, whether the desktop capabilities are in it.
- `StoredOnly::new` and `Runner::build` fail only for what is wrong with the configuration (`Boot`).

## 8. Not modelled

PTY operations of the terminal are delegated to the upstream implementation call by call. Notification is
best-effort I/O nothing depends on. Settings other than the paths of the config, log and usage texts are data.
`install`'s checks for root and for a session come before it changes anything. The peer protocol, pins and
the bytes of a transfer are upstream's, as is what `Transfer::bind` does with key and relay.
Packaging and installers run once, outside the running system. What a screenshot contains, what
a device code looks like, what an error says: wording. Windows paths.

## 9. Plan

Done, in this order: `Lifecycle` (the most important behaviour: whether the machine stays reachable),
`DesktopHelper` with `CallService`, `StateFile`, `Exec`, and their first theorems; then `Transfer` and
`Node`, `Service`, `Gate` and `Files`, `DesktopChild`, `Frames`, and the theorems of `Node` and
`DesktopChild`; then `AtomicFile` and its refinement, and the theorems of `StateFile`,
`Service`, `Frames` and `ParkedForAReason`; then those of `Gate` and `Files`; then `StateFile` with three writers that meet,
`Service` with its environment and upgrades in place, `Transfer` with what may fail in it, and their theorems anew.

Next, proving:

1. `OldTokenStaysHome` and `CredentialKept` where faults end before `enroll` begins: the first
   that can still be true with faults at all.
2. The safety that `HealsByItself` rests on: a daemon that is not parked, with a good credential, always has
   a step of its own or of systemd's left, stated without ENABLED.
3. The two-sided pipe: `DesktopHelper`'s element per frame as an abstraction of `Frames`.
