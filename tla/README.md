# Network Lantern in TLA+

A model of the Rust application of this repository (`crates/`, `desktop/`): the
parts whose correctness depends on the order in which several things happen. All
source paths are relative to the repository root.

Contents: [inventory](#inventory) · [modules](#modules-and-how-they-map-to-the-code) ·
[runs and bounds](#runs) · [fairness](#fairness) · [proofs](#proofs) ·
[disagreements](#where-the-code-and-its-texts-disagree) ·
[not modelled](#not-modelled) · [plan](#plan)

## Inventory

How the parts meet: the desktop host (or the command line) asks the **run manager**
for a slot and gives the handle to a task, the **run execution**; that task takes the
lock of the output directory, opens the run log, calls one of the **engines** (basic
path, trace, throughput, tuning) item by item, either in the process or through the
**helper**, writes a record for each result and a summary at the end, and gives the
outcome back to the manager. The desktop polls the manager's progress. The helper is a
privileged service in another process, reached over a socket; it serves one operation at
a time, runs it on blocking threads, and is registered and removed by the desktop. The
tuning engine, inside the helper, keeps a backup directory that it replaces as a whole.

| Component | State it keeps | Operations | Hard behaviour | What makes it correct |
| --- | --- | --- | --- | --- |
| Run manager (`runtime/src/manager.rs`) | the progress record, a watch channel per run, the token of the run, its handles | `begin`, `cancel`, `failure`, `progress`, `finish_outcome`, drop | callers race; an error is reported after the next run began | one run at a time; ended by its own handle only; the channel shows the record |
| Run execution (`runtime/src/execution.rs`, `run_log.rs`) | counters, records, summary, output lock, process-wide log | the task of a run | cancellation at any await, write failures, two processes, crash | the lock excludes; the log is one run's; summary, exit code and shown state agree; each run ends |
| Exit policy (`contracts/src/lib.rs`) | none | code of an error, state of a code | two derivations of one outcome | see run execution |
| Desktop host (`desktop/src-tauri/src/main.rs`) | gate, `helper_changing`, `shutting_down`, the window | start, cancel, helper change, close, shutdown task | flags read and written by three threads without a lock | no change beside a measurement; no exit under one, nor, in a shutdown, under a change; shutdown resolves |
| Command line (`cli/src/main.rs`) | the code of a signal | signal handler | a second signal | the exit code names the signal |
| Helper server (`helper/src/server.rs`) | active runs, early cancellations, quarantine, nonces | `handle`, `cancel_run` | a cancellation that comes first; work that outlives its future | one piece of work at a time, also after a lost connection |
| Helper service and client on Linux (`helper/src/platform/linux.rs`, `client.rs`) | the permit, the reservation, connections | operation, cancel, prepare and abort removal, stop, start | disconnect, deadlines, restart, two removers | a cancelled request ends; the reservation keeps operations out |
| Helper on Windows (`helper/src/platform/windows.rs`, `windows/service.rs`) | the service's registration and state, the protected files, the permit, one pipe per request | register, remove, operation, cancel | elevated processes that outlive their caller, a step that fails, deadlines at both ends | what runs has what is on disk; a reservation holds; work nobody waits for is stopped |
| Helper protocol (`helper/src/protocol.rs`) | nonces with their age | `sign`, `verify`, `accept` | capacity, expiry, clocks that differ | a frame is carried out once |
| Helper on macOS | as on Linux | as on Linux | as on Linux | as on Linux |
| Linux credentials (`helper/src/platform/linux/credentials.rs`) | the secret's file | provision, read, revoke | restart between two steps | the file is there only while the service is |
| Atomic files and sidecar locks (`platform/src/lib.rs`) | files | `atomic_bytes`, `acquire` | crash between steps, a write that lands and fails | old or new, never a mix |
| Profile store (`runtime/src/profiles.rs`) | a JSON file | save, delete, read | several processes | no update is lost |
| Native selection (`runtime/src/native.rs`) | none | local or helper call, retry | retry while the helper cleans up | at most `attempts` calls |
| Paced probes (`path-io/src/native/pacing.rs`) | workers, results, first failure | spawn, collect, cancel, join | threads that finish in any order | limit, first failure, none lost |
| Native probes (`path-io/src/native.rs`, `native/windows.rs`) | sockets | send, and match an answer | late answers, other programs' answers, pending errors | a sample is of the probe it is given to |
| Basic path (`path-basic/src/lib.rs`) | the stages of one item | ping, trace, statistics, TCP | cancellation, a caller that drops the call | a result is whole; threads do not stay |
| Path trace (`path-trace/src/`) | cycles, outstanding probes, names | cadence, collection, lookups | slow answers, slow names, deadlines | cycles are counted right; a completed run has no gap; it ends |
| Throughput (`throughput/src/`) | the control connection, streams, a UDP sequence | the exchange with the server, attempts | failure and cancellation in each state, two sides that wait for each other | everything is released; success is agreed; loss is counted |
| Tuning executor (`tuning/src/native/windows.rs`) | the machine's settings, a backup, a snapshot | Backup, Apply, Restore, Verify | one change of several fails; crash; a user in between | undone, or done as a whole; the original settings survive |
| Backup publication (`tuning/src/backup/publication.rs`) | four paths in one directory | replace, roll back, quarantine | crash, failed barrier, another program | a verified backup always survives |
| Backup staging, trusted files, manifest (`tuning/src/backup/`) | the folder, a staged copy | validate, stage, verify, read, remove | files and directories that are replaced meanwhile | what is restored is one backup; only ours is deleted |
| Configuration, requests, plans, workflow, thresholds, reports | none, or files | validation, expansion, listing | bounds; a report being written | per operation; reached by tests |
| Packets, framing | none | parsing, checksums | lengths | per function; reached by tests |
| Desktop web view (`desktop/src`) | view state | polling, edits, requests | late answers | an answer updates the view that asked |
| PowerShell and Bash reference (`Invoke-NetworkLantern.ps1`, `apps/`, `src/`) | processes, files | the same capabilities | process life cycles | kept as the reference until archived |
| Site planner, scripts, workflows | none | | | not part of the program |

The hazards that come with this, each at its line, and the properties that would catch
them are listed in `PROJECT.json`.

## Modules and how they map to the code

```
OneSlot  <--refines--  RunManager  <--EXTENDS--  RunExecution
                       EXTENDS ExitPolicy        DesktopHost
HelperService   ReplayCache   WindowsHelper   WindowsExchange      the helper
ThroughputControl   UdpStream                                      a throughput test
BasicPath --EXTENDS--> PacedRunner    PathTrace    NativeProbe     the paths
TuningExecutor   BackupPublication   RestoreStaging                tuning
NameStore  <--refines--  ProfileStore                              files
```

The proofs are in modules of their own, which extend what they are about: RunProofs (RunManager,
RunExecution, DesktopHost), HelperServiceProofs, WindowsProofs (WindowsHelper,
WindowsExchange, ReplayCache), StorageProofs (ProfileStore, BackupPublication,
RestoreStaging), NetworkProofs (UdpStream, ThroughputControl, NativeProbe), PathProofs
(PacedRunner, BasicPath), PathTraceProofs and TuningProofs.

**ExitPolicy.** `contracts::exit` and `RunState::from_exit_code`, as operators over codes
and error categories. No state.

**RunManager.** `active` is the progress record under the mutex, `updates` the value in
the watch channel, `token` the set of runs whose cancellation token is cancelled,
`handle` what became of each `RunHandle`. Each method takes the mutex once and for its
whole body, so it is one action: `begin`, `cancel`, `failure`, `progress` (which may or
may not publish, for the 100 ms throttle), `finish_outcome` (and `finish`), `drop`.
`trip` is the token cancelled past the manager, `restart` a new process. What a record
says beyond its state, count, code and the presence of a report is left out.

**OneSlot.** What the manager promises: a slot with one owner at a time, each taking it
once. `ImplementsOneSlot` is the refinement; the holder is the run of the record while
its state is active.

**RunExecution.** Adds to RunManager the task of each run. `pc` names the points between
which the code awaits, writes or calls the manager; `tally` are the counters of
`Execution`, `verdict` the outcome as computed at execution.rs:168-205, `records` and
`summary` the files, `lock` the holder of `.measurement.lock`, `run_log` the slot of
`run_log.rs`, `signal` the code stored by the command line; `setting` is what was
requested, and of which program. A measurement's data is a
grade (good, notable, failed). `Foreign` is another process on the same output
directory; `Crash` ends the process, frees its lock and keeps its files. Which items are
skipped and which errors stop the loop depends on the capability, as in the code.

**DesktopHost.** Adds to RunManager the state of `AppState` and the event loop. Each load
and store of `helper_changing` and `shutting_down`, each snapshot of the manager and each
take of the gate is an action of its own, because the threads meet there; `start_run` is
one action (it holds the gate, and the flag is read once). The run's task is the manager's
operations only (`RunTask`).

**HelperService.** The admission of `HelperServer` (`active`, `pending`, `quarantined`)
inside the Linux service (`permit`: nobody, an operation's connection, or the removal
reservation). `server` follows each connection through `Service::handle` and
`HelperServer::handle`; `work` is the operation's native work, which ends when it ends:
cancelling the token or dropping the future does not stop a blocking thread. `client`
follows `exchange` and `roundtrip`; `remover` follows `remove()`. `Exit` is the end of the
process, in order or not; its threads end with it. An operation is admitted twice: by the
permit and by the table of active runs, and the model shows what each is for.

- `ExpirePending` drops a note only when no connection of its run is between its client's
  cancellation and its admission: the note lives 300 s, the client's grace is 10 s and a
  request is read within 5 s. This is the only timing assumption.
- A request has reached the service's queue before its client can cancel it (`Send`).

**BackupPublication.** `replace_verified` with one action for each call to the file system;
every call may fail, and a removal may fail half way. `dir` is the parent directory as
programs see it, `images` the set of directories a crash may leave: a change is in some of
them as soon as it is made and in all of them after `sync_parent`. That is the weakest
file system the barriers are written for; no order between unsynchronised changes is
assumed. `Swap` puts a foreign tree at a path once, between any two calls.

**ReplayCache.** `SignedFrame` requests with the time their sender's clock shows,
`verify` and `ReplayCache::accept`. A frame is dated and verified by wall clocks, which
differ by up to `CLOCK_SKEW` either way; an entry of the cache has the age of a monotonic
clock (`time`), and `clock_is_set` moves the wall clock of the machine against it
(`offset`). The network delivers a frame late, again and again, or never. An expired nonce is dropped only
from the front of the queue, as in the code; that entries are in the order of their age is
a consequence here.

**WindowsHelper.** What `register` and `remove` do on Windows, in three kinds of process:
the client (`caller`), which prepares, elevates and waits no longer than two minutes; the
elevated process (`elevated`), which goes on when its client has stopped waiting, and may
fail or be ended at each step; and the service with its one permit. Files are modelled one
by one (the root, `clients`, `owner.sid`, the key), with the state between the creation of a
file and its content. `scm` is what the service control manager knows. The ghosts
`reserved` and `overlapped` say whether a confirmed reservation is still in force and
whether two elevated processes have run at once.

**WindowsExchange.** One operation over one pipe: `request` and `exchange` of the client,
`serve_connection` of the service, each waiting with its own deadlines on `clock`. Time
passes only when nothing that is due is left to do.

**ThroughputControl.** `run_test_with_retry` and below it the attempt: `Script` is the
sequence of `run_test_once` after the connection, one action for each kind of step
(`expect_state`, `write_all`, `read_json`, `create_stream`, the data tasks with `spawn`,
`join_all`, the drain). Each attempt has its own streams and tasks, which outlive a failed
attempt until they are dropped. The server is external and modelled from the exchange the
client expects of it: it serves one session, may be busy with another client, fill the
buffers of the streams it sends on, send something else, fall silent or leave, `MaxFaults`
times.

**UdpStream.** `udp_send` with its pacing and the backlog it tolerates, `DatagramStats`
with its window, its omission and its counters, and a network that loses, repeats and
reorders. Loss is compared with a reference: the datagrams sent since the omission that
did not come.

**PacedRunner.** `run_sequential` and `run_concurrent`. `worker` and `outcome` follow each
thread; `collect_worker`, `record_failure` and `clamp_outstanding` are those of the code. A
pause is a step that need not be taken yet. **BasicPath** extends it with `execute_item`:
the stages run their probes through the runner in a blocking thread, which a dropped call
leaves behind with a cancelled child token; what the stages brought is judged at one read of
the token and the status decided at another (`judge`, `conclude`).

**PathTrace.** `execute_run` as its loop of `select!` branches (`cancelled`, `deadline`,
`final_grace`, `join`, `dispatch`), the quarter of a second of collection, the lookups over
a number of resolvers that may not answer, and the status. Timers fire at any time: the
model does not say how long a probe takes, so that every order of answers, grace and
deadline occurs.

**NativeProbe.** One probe per TTL through each kind of socket the code opens: raw and
datagram ICMP, UDP with a listener or the error queue, TCP raw, by error queue, by ICMP
listener, and the Windows one. `open` are the sockets that hear, `heard` what each has to be
read, `pending` the error a connected socket reports at its next use. The network delivers
answers of the trace's own probes in any order and late, those of another program that
probes the same target, and TCP segments from any other host. A scenario is a trace, one
probe after the other, or a round of several at once. `Made` is the sample that is made of an
answer, with where it came from and which probe it answers, whatever the code took it for.

**TuningExecutor.** Backup, Apply, Restore and Verify over `machine`, the settings by name:
a registry value, QoS policies by owner (ours, a legacy name, another program's), a
power-saving property, RSC, the power plan. A component is a sequence of writes, each of
which may fail; Apply decides which backup is effective, takes a snapshot when the backup
was kept, and rolls back; `Crash` ends the process between any two writes; the user changes
settings and the adapter comes and goes between operations. The publication of a bundle is
one step here; its own steps are BackupPublication's.

**RestoreStaging.** A restore from `validate` into memory, through `stage_backup` (the
protected tree, its files, the sentinel), `verify`, the reads during the restore, to the
`Drop` of the staged tree with its identity checks and its disposal path; one action for
each call to the file system. A directory that was made and could not be opened ends the
call before there is anything to remove it (`stranded`). `Meddle` is another program that rewrites files, replaces
directories, or publishes another backup, between any two calls.

**ProfileStore.** `ProfileStore::save`, `delete` and `read` with `SidecarLock::acquire` and
the steps of `atomic_bytes`: the temporary file, its synchronisation, the rename, the
directory's. `durable` is the set of contents a stop of the machine may leave.

**NameStore.** What the store promises: a register for each name, changed only to what an
operation under way on it wants (`due`), from which a stop takes back nothing that was told
(`open`). `ImplementsNameStore` is the refinement; the file is the value of all registers at
once.

## Runs

Deadlock is not checked in any run (`CHECK_DEADLOCK FALSE`): a process that has exited, a
replacement that has returned and clients that are done have no further step, and the
sets of runs, probes and connections are finite. Termination where it matters is stated as
a liveness property instead.

| Run | Instance | Checks | Shows |
| --- | --- | --- | --- |
| `execution_pair` | a throughput run and a workflow of 1 item, another process, crash | `RunsAreApart`, `ChannelCurrent`, `ImplementsOneSlot`, `RunsEnd` | two runs one after the other or refused by the lock; the log of each; every run ends; the manager under them, as the tasks, the relays and the callers use it |
| `execution` | one run of 3 items, of each capability, in the desktop and in the command line | `ReportIsTrue`, `SuccessIsComplete`, `CancelHonoured` | every mix of grades, errors, failed writes, cancellations and signals |
| `desktop` | 2 runs, 2 helper changes | `FlagsProtect`, `ShutdownResolves` | the flags under every interleaving of the event loop, the commands and the shutdown task |
| `helper` | 2 connections of one run id or of two and 1 remover, or 1 connection and 2 removers; 1 note, 2 starts | `OneOperation`, `AdmissionHolds`, `QuarantineHolds`, `CancelledNeverStarts`, `CancelResolves` | one piece of native work at a time, whatever connections are lost; a cancelled request ends, also one cancelled first; a removal excludes operations until another one gives its reservation back |
| `parts` | eight systems side by side, see below | 14 properties | no failure, crash or other program loses a backup or restores a mixed one, loses another's profile, has a request carried out twice, leaves an unwatched operation, miscounts a datagram or misattributes an answer |
| `throughput` | 5 tests (directions, 1 or 2 streams, TCP and UDP, one invalid), 2 attempts, 2 addresses, 2 faults | `OutcomeIsTrue`, `EndsAndReleases`, `HealthySucceeds` | what any server does to a test; that two healthy sides do not block each other |
| `path_basic` | 4 jobs, at most 3 asked and 2 allowed by descriptors, 2 pings, 2 hops of 2 probes | `RunIsAccounted`, `OutstandingIsBounded`, `ReportIsWhole`, `PathEnds` | one item with failing, panicking and cancelled workers and a caller that leaves |
| `path_trace` | 2 cycles of 2 TTLs, 3 outstanding, target at 1 or out of reach, 0 or 2 resolvers | `TraceIsWhole`, `TraceEnds` | every order of answers, timers, failures and cancellation |
| `tuning` | 2 operations, 1 change by the user | `BackupsHold`, `ResultIsTrue`, `OthersAreUntouched` | Backup, Apply and Restore with every write failing and crashes between |
| `tuning_rolled_back`, `desktop_exit`, `windows_answer` | as `tuning`; as `desktop`; one exchange | one property each, violated | see [below](#where-the-code-and-its-texts-disagree) |

A property that is a conjunction of named parts is listed by the name of the whole:
`RunsAreApart` is `ExecTypeOK`, `OutputRootExclusive`, `OneMirror` and `LiveWhileExecuting`;
`ReportIsTrue` is `ReportAgrees`, `CountedIsOnDisk` and `SignalIsReported`; `FlagsProtect` is
`HostTypeOK`, `ChangeExcludesMeasurement`, `FlagIsTrue`, `ExitSparesMeasurement` and
`ShutdownSparesChange`; `AdmissionHolds` is `HelperTypeOK`, `ActiveIsServed` and
`ReservationHolds`; `SamplesAreTrue` is `AnswersAreOwn` and `ReachedByTarget`; `OutcomeIsDurable` is `PublicationTypeOK`, `SuccessIsDurable` and
`ErrorRestores`; the others are defined where they stand.

`parts` is a sum, not a product: its first state chooses one of the eight systems and only
that one takes steps, so that its states are those of eight runs. Its properties are

- `BackupSurvives`, `OutcomeIsDurable`, `ForeignNeverDeleted` (BackupPublication): a verified
  backup is on disk after any crash; success is durable and an error restores; a tree of
  another program is never deleted;
- `RestoreIsOneBackup`, `StrangersAreKept`, `NothingIsLeft` (RestoreStaging): what a restore
  writes is the one backup it verified; another's tree is kept; its own is removed, but for
  the empty directory that could not be opened;
- `ImplementsNameStore`, `SavedSurvives` (ProfileStore): the file is a register for each name,
  so no change of another process is lost, and what was acknowledged survives;
- `ServedIsRecorded`, `RemovalSparesOperation` (WindowsHelper): the running service has the
  owner and the key that are on disk; a reserved removal stops no operation;
- `LeftIsStopped` (WindowsExchange): the service goes on for a client that has gone no
  longer than its cleanup takes;
- `TakenOnce` (ReplayCache): a frame is carried out once, unless the machine's clock was set
  back after it was taken, and refused for room only while every entry is young;
- `StreamIsTrue` (UdpStream): loss is exact and the rate is kept;
- `SamplesAreTrue` (NativeProbe): a sample is of the probe it is given to and the destination
  is reached only by the destination, but for three cases the property names
  (see [below](#where-the-code-and-its-texts-disagree)).

Why the bounds are enough:

- **Runs.** Two live handles cannot exist at once (this is what is checked), so what one
  run can do to another is done by a late report to a record of a later run, and two runs
  have that. What the theorems say of the manager holds for any number.
- **`Total`.** The counters matter in comparisons with each other, 0 and the total. Two or
  three items give every combination of all, some and none failed, and a stop after 0, 1
  or more.
- **Connections.** One operation holds the permit, so what an operation can meet is what one
  other left behind: its entry, its note or its work. Two connections, of one run id or of
  two, give each of these. `MaxPending` 1 makes the table full with two run ids. Removers
  touch each other only through the reservation, so two of them need one operation beside
  them and not two (`MCSpec`).
- **Starts of the service.** State does not survive a start, so the first restart shows all
  that one can.
- **Publication.** No bound but one foreign replacement; a call has one destination.
- **Staging.** Two backups, of which one lacks an artifact, give a mix; the other program acts
  twice (`MaxMeddling`), as a swap and the swap back around a check need.
- **Profiles.** Two processes and two names give the lost update; three writes (`MaxWrites`)
  let one process save twice around another.
- **Windows helper.** Three calls: a registration and a removal of one user, and a third of
  either kind, of that user or another. Each call runs once, in any order; a step may fail
  at any place.
- **Replay cache.** `MAX_NONCES` 2 with three frames is full. The times are as tight as the
  assumption allows (validity 2, skew 1, `NONCE_TTL` 3 = validity + skew; the code has 300 s,
  30 s and 360 s, so 30 s to spare); `MaxTime` 4 lets a nonce expire and its frame be tried after. The machine's clock goes
  with the monotonic one or is a tick behind it, which is enough for a frame to pass again.
- **Exchange.** A tick is five seconds and the deadlines keep their order: frame 1,
  cancellation grace 2, cleanup grace 3, operation 5 (a day in the code); `Horizon` 12 lets
  all of them pass one after the other.
- **UDP.** `MaxSequence` 5 with `Window` 3 lets a datagram be too late to count and a slot of
  the window be used again; `TestEnd` 8 with interval 2 and backlog 3 lets a sender stall
  longer than it may catch up.
- **Probes.** A trace of three TTLs with the target at the second or beyond the last; a round
  of two; one failing call.
- **Throughput.** Two attempts let a stale task or session of the first meet the second; two
  faults let both fail; two streams let one fail or fill up beside another.
- **Paced runner.** Four jobs and two workers (descriptors 70 allow two where three were
  asked) have one waiting for room, one that fails and one not sent.
- **Path trace.** Two cycles are the least that can be mixed; `MaxFailedCycles` 2 and
  `MaxUnknown` 0 make both limits reachable, three outstanding probes let four be too many.
- **Tuning.** What an operation meets is what one before it left behind and what the user
  changed in between. Components of one kind (the registry groups, the adapters, the
  policies of a plan) have one or two members each.

## Fairness

- `RunExecution`: weak fairness of each run's task and relay. The Tokio runtime polls a
  ready task; file system calls return; the engines return after a cancellation or their
  own deadlines. Nothing is assumed of users, signals or other processes.
- `DesktopHost`: weak fairness of the event loop, the shutdown task and a helper change
  that was begun. No run is assumed to end: the five-second deadline resolves a shutdown.
- `HelperService`: weak fairness of the service for each connection, and of a *cancelling*
  client, whose waits are all bounded (5 s and 10 s). No native work is assumed to end: the
  cleanup timeout does without it.
- `ThroughputControl`: weak fairness of the client (a ready task is polled, a timer fires),
  of the runtime that drops aborted tasks, and of the server as a whole. The server's
  actions include falling silent, so fairness does not make it helpful; only
  `HealthySucceeds` assumes a server without faults.
- `BasicPath`: weak fairness of the call, of the runner's thread and of each probe, which has
  a timeout. No caller is assumed to cancel or to wait.
- `PathTrace`: weak fairness of the run's own steps, its timers included. The answers of the
  probes and of the resolvers are no part of it: any of them may never come, and the grace, the
  deadline and the collection do without them.
- All other modules state safety only.

## Proofs

Every theorem is for all values of the constants, from the assumptions named in the modules
and, where one is stated, from a hypothesis of its own.

**Run manager** (`RunProofs`): the properties of the manager for any set of runs and
any `Total` in the naturals. The invariant `Inv` is `TypeOK`,
`BusyIffOwned`, `ChannelCurrent`, `CancellingIsSignalled` and `RecordShape`. The last one
is the strengthening: a record without a run has the state `None`, and the run of a
record has been begun. Without it `BusyIffOwned` is not inductive: `begin`
could take a run whose name is already in the record. From `Inv` every step either takes the
slot (`begin` finds no active record), gives it back (the handle of the run in the record),
or changes nothing of it; `Steps` states this by cases, and `EndedOnlyByOwnerHolds`,
`OutcomeOnlyBecomesFailedHolds` and the refinement `ManagerImplementsOneSlot` follow from it
step by step.

**Run execution** (`RunProofs`): `RunsAreApart`, `SuccessIsComplete` and
`ReportIsTrue` for any runs, settings and plans, through the crash of the process and beside
the foreign one. `ExecInv` is `RunsAreApart` with the manager's `Inv` and `Accounted`:
the place of a task tells what it holds (the lock in `Holding`, the log in `Mirroring`, a
live handle in `Executing`), the counts of a run stand in order, and what ends without a
summary has an error. The manager's part of each step is `HandleMoves`, so that the
step lemmas speak of one task. `SuccessIsComplete` needs more than the counts:
`SuccessIsEarned` follows the success from the end of the loop (the last item was passed or
the run was cancelled, and a cancelled token stays so, `TokenGrows`) through the verdict to
the file. `ReportIsTrue` needs `Truthful`: the report that is shown is the saved verdict of
the run in the record (`Reported`), whose status and exit code agree because each was
derived from the same tallies (`Grounded`), and whose code in the command line is that of
the signal. Its hypothesis `OneCliRun` says that a process of the command line has one run,
which is all `cli/src/main.rs:173-209` executes; with two, a signal meant for the first
would also be told of the second.

`RunsShareOneSlot` says that the whole execution uses the manager by its operations only: every
step of a task, of its relay, of a canceller and of a crash is one of the manager or leaves it
alone, so that all that is proved of the manager alone, the slot included, holds with them.
This needs `CountIsShown`: the count shown of the run that executes is its own, or one less
when the record of the last measurement could not be written, until `Judge` catches up.
`HostSharesOneSlot` is the same of the desktop host.

**Desktop host** (`RunProofs`): `FlagsProtect` for any runs and any number of helper
changes. Two of the conjuncts are not inductive. `ExitSparesMeasurement` needs `RunIsSeen`,
that what the event loop saw of runs still holds when it lets an exit go: a run starts only
from the idle loop. `ShutdownSparesChange` needs `ChangeIsSeen`, that no change is past its
check once the loop lets a shutdown go, and `GateIsHeld`, that the gate makes changes one.

**Helper on Linux** (`HelperServiceProofs`): `OneOperation`, `QuarantineHolds`,
`AdmissionHolds` and `CancelledNeverStarts` for any connections, removers, run ids, starts and
limit of early cancellations. `OneOperation` is not inductive: it says nothing of why an operation whose
connection was dropped does not run beside the next one. `HInv` adds the reason:
`PermitIsServed` (a connection between its permit and its return
holds the permit, hence there is at most one), `WorkIsWatched` (work that goes on belongs
to the connection that still waits for it, or the helper is quarantined) and
`UnsentIsUnknown` (a connection that was not sent has neither). Most steps
are of two kinds, each with a lemma: `Moves` for a step of one connection, `Aside` for one
that moves none. `AdmissionHolds` adds that the notes are finite and within their limit
(`NotesKept`) and that a reservation was made in a start that has been, and is in force for
each remover that made it until another one takes it back (`Reserved`, over the ghost
`undone`). Two removers share one reservation; what happens once one of them has given it back
is outside the property (see [below](#where-the-code-and-its-texts-disagree)). `CancelledNeverStarts` is a statement about
steps; its invariant `CancelTold` says that an answered cancellation is in the notes until
its operation was turned away, as long as no other operation has its run id.

**Windows** (`WindowsProofs`). Helper: `ServedIsRecorded` and `RemovalSparesOperation` for any
finite set of programs and any users. A reservation in force is the permit (`ReservedIsHeld`),
so no operation has it. While elevated processes do not overlap there is one (`OneElevated`),
and none stands at a change of the records of a running service (`ChangesAreQuiet`).
Exchange: `LeftIsStopped` for any timeouts. Time does not pass what is due,
so each stage is left in time (`AskedIsRead`, `RunningIsRead`, `CleanupIsBounded`), and the
bound is the sum of two of them. Cache: `TakenOnce` for any frames, capacity, validity and
skew with `FRAME_VALIDITY + CLOCK_SKEW <= NONCE_TTL` (330 s and
360 s in the code). A frame that was taken is in the cache or too old to be verified, as long as
the machine's clock was not set back since (`TakenIsKnown`, for any `Offsets`). That the front of the queue hides nothing expired behind it is
`QueueIsSorted`; where `accept` stops dropping entries is a least number, which exists by the
library's theorem on well-founded orders (`StaleIsFound`).

**Files** (`StorageProofs`). Profiles: `SavedSurvives` and `OthersAreKept` for any processes,
names (at least one) and number of writes. In `StoreInv`, who is past the lock holds it
(`LockIsHeld`), hence the copy it writes is the file with its own change (`CopyIsOneChange`);
what is renamed was synchronised (`CopyIsSynced`); and every content a stop may leave
has only values that are possible for their names (`DiskIsPossible`, `IntentIsPossible`).
`StoreImplementsNames` is the refinement: the rename is a `Put` of the one name, the
synchronisation of the directory a `Settle`, power loss a `Stop`, and every other step begins
or ends an operation or changes nothing.
Publication: `BackupSurvives`, `OutcomeIsDurable` and `ForeignNeverDeleted` for any trees,
with the set of images of any size. None of them follows from itself: `ImagesFit` tells, for
every call, which directories a crash just before it may leave (after `sync aside` only one
without the old backup in its place, after `publish` two, and so on), and `CauseFits` that
only four calls are recovered from. `ImagesFit` is claimed as long as no other program put a
tree in the way; after that the code checks what it removes, and `ForeignNeverDeleted` comes
from those checks.
Staging: `RestoreIsOneBackup`, `StrangersAreKept` and `NothingIsLeft` for any amount of
meddling. `ConsumedInOrder` says what was read is of the version of the first manifest, in
the expected order; `TreeIsKnown` where the one tree is as long as nobody meddled, the directory that could not be
opened included;
`StagingRanges` that what is at `remove` was identified after its last move.

**Network** (`NetworkProofs`). UDP: `StreamIsTrue` for any rate, window, length and backlog,
and a network that loses, repeats and reorders as it likes. The statistics stand for the set of
datagrams that came (`Tracks`): two numbers that are both within the window have different
slots, so a slot that holds a number is its receipt; counting then follows by the cardinality
theorems. The pace is `Paced`: what was sent is due, and what was sent in one instant was due
no longer ago than the backlog that is tolerated. Throughput: `OutcomeIsTrue` for any tests,
attempts, addresses and faults of the server. `HearsItsOwn` says that what waits on an attempt's
connection is acceptable only if the server said it to that attempt; `AttemptIsWhole` that an
attempt past its data holds all of its streams and past the exchange the results of its own,
not what one before left. Native probes: `SamplesAreTrue` for any number of hops, target and
failing calls, for every kind of socket. `AnswersAreSent`: an answer on its way, or at a socket,
is of a probe that was sent or another program's, and of the kinds this socket hears;
`OneAfterOther`: a trace has one probe under way; `PendingIsSent`: a pending error is of a
datagram sent before. An answer that is taken is then the probe's own, or one of the three that
`SamplesAreTrue` names.

**Paths** (`PathProofs`): `RunIsAccounted`, `OutstandingIsBounded` and `ReportIsWhole` for any
number of jobs, workers, descriptors, pings, hops and probes. `RunnerInv`: jobs were sent in
order (`SentInOrder`), a collected sample is kept once (`CollectedOnce`, an injective
sequence over the joined workers), a run goes on only without a failure and each broken-off
probe has its reason (`FailureIsKept`), and the workers not yet joined are as few as they may
be (`WorkersAreFew`, by the cardinality theorems). `ItemInv` adds the stages: a stage that is
over has all its samples, is listed as failed, or the item says it was cancelled
(`StagesAreWhole`).

**Path trace** (`PathTraceProofs`): `TraceIsWhole` for any cycles, TTLs, resolvers and limit of
outstanding probes. `TraceInv`: a cycle's count is that of its probes that have not come back
(`PendingIsMissing`); a joined answer counts for its cycle (`AnswersCount`); a probe that is
back has one record, or none and its error was noted (`RecordedOnce`, `ErrorsAreNoted`); a run
that still counts as completed has noted nothing that would spoil it (`Completing`), and asked
all names (`NamesAreFound`). TLC checked this invariant on the constants of `path_trace` before
it was proved.

**Tuning** (`TuningProofs`): `BackupsHold`, `ResultIsTrue` and the action property
`OthersAreUntouched`, for any number of operations and of changes by the user, whatever fails
and wherever it stops. `TuningInv` is about what is on disk: before its first write an
operation has changed nothing (`NothingWritten`); what it goes by are whole bundles of values
a machine can have (`BundlesAreGood`); it writes a setting that the folder covers, or what it
found there (`WritesAreAllowed`); and a setting that no operation changed since the backup has
the backup's value (`Untouched`). `OriginalIsRestorable` follows: the backup in the folder, or
an untouched setting, has the first value of each. `Aims` is about how it ends: each
setting to be written has its value or its component is still due (`Aiming`), the writes that
are left give it that value (`WritesAim`, which is where the policies of a name have to be
deleted before they are created), and Apply keeps what is not its own (`ApplyKeeps`). Both
were checked by TLC before they were proved, for two operations with a change by the user
and for three without. This is where a bound had hidden an error of the model: with three
operations the first formulation of the original (the values found by the *first* operation)
was refuted, because a setting can enter a backup only later; `Recorded` now notes the
first value of each setting that any operation changes.

So every safety invariant and action property of the passing runs is stated by a theorem. Only
model-checked is what is out of the prover's reach: liveness under fairness (`RunsEnd`,
`CancelHonoured`, `ShutdownResolves`, `CancelResolves`, `EndsAndReleases`, `HealthySucceeds`,
`PathEnds`, `TraceEnds`), `ENABLED`, and induction over data. The modules declare no recursive
operators. The three refuted properties are not proved to fail in general; a counterexample is
enough.

## Where the code and its texts disagree

Three runs show it:

| Run | Property | What happens |
| --- | --- | --- |
| `tuning_rolled_back` | `RolledBackIsBefore` | a backup was kept from before; the user has since made "Do not use NLA" a DWORD. Apply may change the value because the kept backup names it (windows.rs:304), but the snapshot it would roll back from cannot save it and leaves it out (:468-475). Apply overwrites it, a later write fails, the rollback reports success and removes the snapshot. The comments at windows.rs:195-197 and :468-469 and CHANGELOG.md:11-12 say otherwise. The same goes for a power-saving property of an adapter that went down |
| `desktop_exit` | `ChangeIsNeverCutShort` | the event loop has looked at the flags and lets an exit go; before the process ends, a helper change raises its flag, finds no run and no shutdown, because an idle close sets no flag, and operates: the process exits under it. The comments at desktop/src-tauri/src/main.rs:138-139 and 258-259 say that the close event sees the change, and that a change is never cancelled mid-way. `FlagsProtect` states what holds: no exit under a measurement, and none under a change once a shutdown is announced |
| `windows_answer` | `OperationIsAwaited` | the Windows client waits five seconds for the header of the answer to any message (helper/src/platform/windows.rs:226), but an operation is answered when it ends: every operation of more than five seconds is given up, and the closed pipe then cancels it; `OPERATION_TIMEOUT` at :71 is a day, and the Linux client has no such limit |

Others were seen while modelling; the model has them as behaviours, without a property of
their own:

- A cancellation accepted after `execute_prepared` looked at its token is shown as Cancelling
  and ends as whatever the run had come to; docs/architecture.md:501 has only Cancelled
  after Cancelling.
- A run that ended Cancelled by dropping its handle becomes Failed when its error is
  reported; docs/architecture.md:502-505 has no arrow out of an end state.
- A helper change raises its flag between the shutdown task's last look and the exit event:
  the exit is prevented, `begin_shutdown` finds the flag set and returns, and no task is left
  to clear it (docs/architecture.md:658-660).
- Two removers on Linux share one reservation and the first that fails takes it back
  (deployment/helper/linux/README.md:31-33): an operation may then begin, and the other remover
  stops the service under it. `ReservationHolds` names this exception; the `helper` run has it.
- When the last `sync_parent` of a publication fails, the error is returned with the new tree
  in place (comment at publication.rs:23-25).
- On Windows: a purge interrupted between `clients` and `owner.sid` makes later removals fail
  until someone registers again; a half-written `owner.sid` stops both provision and purge; a
  client whose two-minute wait ends sends AbortRemoval while the elevated removal still goes
  on (docs/RUST.md:219-220: "serialized against active measurements"); a lost answer to
  PrepareRemoval leaves the permit reserved until the service restarts; an AbortRemoval that
  comes after a restart releases another's reservation; a registration racing a removal can
  leave a running service with an older key. `RemovalSparesOperation` and `ServedIsRecorded`
  state what holds beside these.
- docs/workflows/windows-tuning.md:143 and docs/evidence/tuning-matrix.md:35 say that the
  SystemProfile and AFD exports are never imported; `restore_staged` writes them back.
- The comment at path-io/src/native.rs:1881-1882 ("so neither is attributed to it or fails its
  send") holds for errors that have come before the queue is emptied. One that comes between
  that and the send fails the send, and the probe gets an Unreachable of its predecessor, or the
  trace ends with the error (:371-400). `AnswersAreOwn` names it (`FailsSend`).
- A raw TCP trace takes any reset to its ports for an arrival, whatever it acknowledges and
  whoever sends it (native.rs:927-934): `AnyReset`. The connections of a trace on Windows share
  one port, so a router's late answer to an earlier one is taken for that to the next
  (windows.rs:214, 261; packet/src/lib.rs:34-36): `OnePort`.
- `create_private_dir` opens the directory that it has just made before there is a
  `CleanupGuard` (tuning/src/backup/staging.rs:61-68): if that fails, the empty directory stays,
  although nothing meddled and no cleanup failed. `NothingIsLeft` names it (`stranded`).
- A nonce expires by a monotonic clock and a frame by the wall clock
  (helper/src/protocol.rs:234-252, 300-325): after the clock of the machine was set back by
  more than the 30 s that `NONCE_TTL` has to spare, a frame that was carried out and forgotten is valid again. `TakenOnce` names it (`exposed`).

## Not modelled

Serialisation, the HMAC, identities and permissions; the parsing and formatting of
requests, packets, reports, the manifest and the tuning artifacts; socket options, address
scopes and interface selection; the figures of samples and results; times, except where
deadlines meet (WindowsExchange, ReplayCache, UdpStream) or a deadline is a possible step;
the macOS transport (its admission is that of `server.rs`, its reservation that of Linux)
and the Linux credentials; the connection slots of the service; `native.rs`, which chooses
between the process and the helper and retries a throughput test; listing of reports beside
a run that writes; the legacy implementation; the web view. A remover that dies leaves its
reservation in the model as in the code; no text promises otherwise and no property is
stated. TuningExecutor publishes a bundle in one step: that a crash inside the publication
leaves the folder empty for a while is BackupPublication's.

## Plan

Done: the run manager with its abstract slot, run execution, desktop host, the helper on Linux
and on Windows, the replay cache, throughput, the paced runner, basic path, path trace, native
probes, tuning executor, publication, staging, profile store with its abstract store; the
proofs of all their safety properties; the refinements of the slot, by the manager, the
execution and the desktop host, and of the store of names.

Left, in order of importance:

1. Refinements: a helper that admits one operation at a time (HelperService over OneSlot), the
   publication as one atomic change of a backup, which is what TuningExecutor takes it for.
2. The attempts of `native.rs` over the helper: HelperService with a client that retries.
3. TuningExecutor over BackupPublication, so that a crash can fall inside a publication.
4. Linux credentials; reports listed beside a run that writes them; the web view's request
   freshness.
