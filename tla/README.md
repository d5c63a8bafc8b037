# Verification of wist-agentd

TLA+ models of wist-agentd, the TLC runs that check them on small instances and
TLAPS proofs of what holds for every instance. Paths are relative to the
repository (`src/` of the crate where no other directory is given); the lines each
definition models are in `PROJECT.json` (`map`).

## 1. The system

wist-agentd is an edge agent: one long-running daemon per host, a short-lived
child per execution, a detached upgrader, and a gateway that the daemon polls.
Everything it must remember is in files of its state directory, each written
atomically (write to a temporary name, rename), one after the other.

`run_forever_async` (`runtime/daemon.rs`) is a sequential loop of 3-second ticks:
clear a pending authentication ledger, retry after an authentication refusal,
renew the certificate, run a local command, collect finished investigations, take
commands, refresh policies, grants and works, `run_once` (discovery, metrics,
telemetry, `recover_incomplete_executions`, export, `scheduler::drain_next`,
health), command history, status report. An error that no step contains ends
`run_forever`; the service manager starts the process again. Beside the loop run
investigations (tasks of the daemon), children, the upgrader, and the command-line
programs `enroll`, `service`, `refresh-facts` and `diagnose`.

| Component | State | Operations | Hard part | What makes it correct |
|---|---|---|---|---|
| Execution core (`runtime/scheduler*`, `exec/*`, `runtime/daemon_recovery.rs`, `reporting/reporting_pipeline*`) | queue, plan, running record, result, report, envelope and history files; children | submit, recover, execute, time out, report, quarantine | a crash between any two writes; a child that finishes, hangs or dies meanwhile; unreadable files | nothing accepted is lost, nothing recorded runs twice, one outcome, and that is the result; the queue drains |
| Upgrade (`upgrade.rs`, `bin/wist-upgrader.rs`, dispatch in `daemon.rs`) | `work.json`, `upgrade.json`, heartbeat, binaries and backups | dispatch, reconcile, report; back up, swap, restart, wait, restore | two processes that kill and watch each other; lost requests; a half-done installation | one upgrader, true verdicts, no mixed set of binaries, the lock is released |
| Service command and single instance (`service/*`, `single_instance.rs`) | definition file, lock, manager state | install, uninstall, status, restart | commands that fail unnoticed, a process slow to leave, a probe that takes the lock | an installation that reports success runs; an uninstalled agent stays away |
| Log input (`telemetry/logs/files/*`, `telemetry/spool.rs`, `telemetry/logs/gate.rs`) | checkpoint, `seq.json`, spool, pending block | scan, inspect, drain, read, fold, number, send, spool, commit | rotation, truncation, outage and crash between the writes | no line skipped, none read twice in one life, one frame per number |
| Identity (`control/enrollment.rs`, `state_store/{client_identity,agent_runtime}.rs`) | token, key, certificate, `agent_runtime.json` | enroll (daemon and command), `--force`, renew | several files, two programs, lost answers | the files name one agent; the daemon comes up or needs an operator; a due certificate is renewed |
| Commands and terminal state (`runtime/daemon.rs`, `state_store/{commands,auth_terminal}.rs`) | history, in-flight table, pending acknowledgements, ledger | receive, run, acknowledge; declare, retry, clear | lost reports, crash, refused credential in between | a command runs once and gets an outcome; ledger and memory agree |
| Standing works (`control/work.rs`, `state_store/work.rs`) | acknowledged versions, derived duties | pull, apply, acknowledge, restore | crash between the steps of a round | what is acknowledged was read; duties and grant converge |
| Pulled settings (`control/{uplink,discovery_snapshot,source_search_policy}.rs`, fact reports) | policies, timers | pull, apply, throttle | failures, restart, wall clock that steps back | settings converge; reports are neither silent nor late |
| Investigations (`investigate*.rs`) | a report | six topics | bounded walk, processes that come and go, denied files, includes in cycles | the report says what it did not see |
| Diagnosis (`doctor.rs`) | a report | checks in order | the machine changes meanwhile | exit code is what was found |
| Discovery and targets (`discovery/*`, `runtime/daemon_metrics.rs`, `exec/planner_bridge.rs`, `reporting/exporter.rs`) | probe outputs, cache files, candidates, target view, exported files | probe, cache, derive, export | failing probes and writes, restart, seven files one after the other | nothing vanishes unsaid; a healthy round agrees with itself |
| Exporters and TCP sink (`telemetry/{exporters,warp_parse}.rs`) | cursors, connection, backoff | run, send, finish in the background | stalls, partial writes, crash before the cursor | the cursor never passes what was not sent |
| Tick reports (`runtime/daemon_telemetry*.rs`, `daemon_runtime_state.rs`) | failure cache, paused inputs, uplink health | tell failures, pauses, recovery | catch-up batches, differences sent with lost reports | one problem told once; the control plane knows what is paused |
| Configuration and command line; record formats; redaction | | parse, format | | not modelled (section 7) |

## 2. Modules

| Module | Models | Composed in |
|---|---|---|
| `Execution`, `ExecutionLifecycle` | execution core; what it promises (accepted, started, settled once) | refinement in `Execution` |
| `Upgrade` | agentd's handling of upgrade works, the upgrader, the gateway | `Deploy` |
| `Service` | the `service` command, the manager, the lock | `Deploy` |
| `LogInput` | one log input with its writers and its data plane | |
| `Identity` | enrollment, renewal and the files of the identity | |
| `Control` | the control loop: terminal state, commands, investigations as tasks, uplink standby | |
| `WorkGrant`, `Pulls` | standing works; the other pulled settings and throttled reports | `Refresh` |
| `Investigate` | findings, verdict, exit code and body of every report | |
| `DiskScan`, `LoadScan`, `AccountsScan`, `HostScan`, `Doctor` | the topics (`HostScan`: persistence, exposure, telemetry health) and the diagnosis | `Scans` |
| `Discovery`, `Uplink`, `Notices` | discovery round and what is derived from it; the sending part; what a tick tells | `Plane` |
| `Places` | picking places of a sequence (filter and collect) | extended by `LogInput`, `Notices` |
| `SequenceLemmas` | induction, recursive functions, sequences without repetition: what several proofs need | extended by the proof modules |
| `ExecutionProofs`, `DeployProofs`, `LogInputProofs`, `ControlProofs`, `PlaneProofs`, `ScansProofs` | theorems about the module named, and about those it composes (section 5) | |
| `GatewayProofs` | theorems about `Identity` and `Refresh` | |
| `MC*` | instances for TLC | |

`Deploy`, `Refresh`, `Scans` and `Plane` are sums: their parts share no state but
what is named in the header of the module, and a behaviour follows one of them,
chosen at the start. A run of such a module asks the questions of each part and
costs the sum of their states.

### Execution

The files are `plan`, `queue`, `running`, `result`, `rep` (reporting state),
`env` (report envelope) and `hist` (history or quarantine record); `child` and
`late` are the processes and the elapsed deadlines; `pc`, `cur`, `ctx`, `todo`,
`lq`, `lres`, `cls`, `known` are the local variables of the daemon's call stack,
lost by a crash.

| Actions | Code |
|---|---|
| `SubmitPlan`, `SubmitQueue`, `SubmitQueueFails` | `submit_local_plan`, with its duplicate check and its refusal report |
| `TickBegin`, `ScanQuarantine`, `ScanHasResult`, `ScanNoResult`, `ScanDone` | `recover_incomplete_executions` over the running directory |
| `InspectInactive/Active/Unavailable/Expired`, `RecordKill`, `ForceKill`, `ForceKillUnconfirmed` | process identity, deadline and kill escalation of `process_control*` |
| `WriteRecoveryResult` | `synthesize_recovery_result` |
| `EnsureLocalReport`, `PrepareEnvelope`, `PrepareState`, `RebuildEnvelope`, `ReportFails`, `RemoveRunning` | `reporting_pipeline` and the removal that follows it |
| `QuarantineDropState` to `QuarantineDropRunning` | the five writes of `quarantine_execution`, in order |
| `DrainLoadQueue`, `HeadEmpty`, `HeadQuarantine`, `HeadBegin`, `ReconcileCompleted`, `ReconcileUnreadable`, `DequeueCompleted` | `drain_next` and `handle_queue_head` |
| `Spawn`, `SpawnFails`, `StoreRunning`, `StoreRunningFails`, `ChildExited`, `WaitTimesOut`, `GraceExpires`, `CollectResult`, `CollectQuarantine`, `StoreFinished`, `StoreFinishedFails` | `local_exec::execute_async` and the collection of the result |
| `ChildWrites`, `ChildExits`, `ChildFails` | the child, `wist-exec` |
| `DeadlineElapses`, `Corrupt`, `Crash`, `Restart` | time, the disk, the host, the service manager |

Abstractions:

- A result is its kind and the spawn that wrote it (0: synthesized by the
  daemon), so a result that replaces another one is told apart from it. A
  digest is the result it was computed from. Timestamps and the names of
  signals are left out.
- `submit_local_plan` is a library entry without a caller in the daemon. It is
  taken to run between ticks, as the single-writer rule of
  `docs/design/agentd-state-and-boundaries.md` requires. All submissions have
  the default priority, so the queue is first in, first out.
- A reused pid fails the identity comparison and so is an inactive process.
- A child may survive the daemon's crash (foreground mode) or be killed with it
  (systemd's control group): `ChildFails` is always possible.
- Failed writes, unreadable files, an unreadable process identity and a kill
  that cannot be confirmed all consume `MaxFaults`. A failed write that no step
  contains ends `run_forever`: in its effect a `Crash`. A corrupt queue file
  stops the daemon by design and is not modelled.

### Upgrade, Service, Deploy

The gateway (`verdict`, `seq`) and its actions `Grant`, `Withdraw`,
`GatewayTakes` are external: modelled from the requests agentd sends and the
answers it accepts.

| Actions | Code |
|---|---|
| `FetchGrant`, `DispatchUpgrade`, `DispatchRefused`, `AckWork`, `TellRejected`, `ReconcileRecord`, `ReportResult`, `StoreView` | `refresh_work_grant`, `dispatch_upgrade`, `reconcile_upgrade_record` and the store at the end of the refresh |
| `AgentdStarts`, `AgentdCrashes`, `AgentdGone` | `AppliedWorkGrant::restore`, `refresh_runtime_version`; the end of the process, with what it had not stored |
| `UpgraderStarts`, `FetchesPackage`, `VerifiesDigest`, `StagesPackage`, `VerifiesArtifact`, `ArtifactUnusable` | request and target checks, download and unpacking, the version the packaged binary reports, the shape of the package |
| `BacksUp`, `Swaps`, `InstallFails` | `install_binaries`, binary by binary |
| `Restarts`, `WaitsReady` | `systemctl restart`, `wait_for_version` |
| `RestoresBackup`, `RestartsAgain`, `Finishes` | `restore_backups`, the second restart, the final record |
| `UpgraderDies`, `HeartbeatExpires` | a killed upgrader, `UPGRADER_DEAD_AFTER` |

A failed or throttled fetch changes nothing and is not an action; what a
package holds is abstracted to its shape and the version it reports; step names and detail
texts of the record are left out; the clash of two upgraders in the staging
directory is not modelled; the heartbeat task is reliable while its process lives
(it runs on its own thread of the runtime). A `systemctl restart` that fails may
have stopped agentd already. An installation with agentd alone (`BareInstalled`)
reaches an upgrader through `WARP_INSIGHT_UPGRADER_BIN`.

agentd stores a dispatch only at the end of the refresh, and not when the
acknowledgement was not accepted. `forgot` remembers the works whose dispatch was
lost that way, `MaxWipes` bounds how often it happens. Such a work is dispatched
again; beside another work it can lead to two upgraders and an overwritten record,
so exclusion and truth except forgotten works, and `deploy` follows a single
forgotten work to its verdict.

`Service` runs one command at a time: `RunService`, `EnrollFirst`,
`WriteDefinition`, `CommandWorks`/`CommandFails` for each command of
`activate_commands` or `deactivate_commands`, `CommandsEnd`, `RemoveFails`;
`ProbeLock` and `ProbeDone` are `service status`. `AcquireLock` and `EnterLoop`
are the start of the daemon, which ends before its loop without an identity or when the
host lacks something it needs (`fit`: a configuration that loads, a state directory it can
initialise, wist-exec; `HostChanges` breaks and mends it). `LeavingExits` is the end of a
process that was told to stop; a daemon started by hand ends when somebody stops it
(`HandExits`), or never. `ManagerRestarts`, `IntervalPasses` and `Boot` the
policy that the unit and plist texts state. What systemctl and launchctl do
(`Works`, `Effect`, `MayFail`) is external. `HandStarts` is a daemon started by
hand.

### LogInput

`name` and `text` are the directory and the files, `cp` the checkpoint, `spool` and
`arrived` the frames, `b` the batch in memory, `next` the sequence counter, `pc` the
step of the processor. A tick is `BeginTick`, `ReplaySpool` or `NothingSpooled`,
`LoadSingle` or `ScanFamily`, then for each file `InspectFile`, `DrainRotated`,
`ReadActive`, then `FilesDone`, `SpoolOverflow`, `SendStaged`, `StoreSeq`,
`CommitState`. Applications append, rotate along a chain, truncate and create files
between any two of these steps, other parts of the daemon take numbers of the
sequence (`OtherFrame`; `InvestigationFrame` takes one from `seq.json`), sends and
replays fail, and the daemon crashes.

What is left out: the configuration of the input is fixed (pattern filters,
deselection, `max_new_files`), `migrate_input_pending` and a spool at its limit (which
has the effect of `ReplayFails`: the tick reads nothing). `Quiet` and `Still` name the
steps during which no file is cut or renamed. The code finds a file by inspecting its
path and reads the path afterwards; what happens to it in between it cannot see
(section 6). `waived` collects the lines the code gives up by design: those before
the startup position, and those of a file that was cut and renamed before it was read
again.

### Identity

`token`, `key`, `cert`, `rt`, `ledger` are files, `proc` the call stacks of the daemon
and of `wist-agentd enroll`, which takes no lock. `Ensure`, `BuildRequest`,
`PostAccepted/Rejected/Lost`, `StoreCertificate`, `StoreIdentity`, `Scrub` are
`ensure_enrolled` write by write; `CheckRenewal` to `RestoreRuntime` the renewal;
`Discard` the three removals of `--force`; `TickLoads` and `TickStores` the tick's
read and write of `agent_runtime.json`. A write that fails or is interrupted may leave a
file that cannot be parsed (`Unfinished`). The configuration has the control plane enabled
and names its endpoint: with it disabled the daemon runs without an identity and keeps its
token, without an endpoint it ends as without a token. The gateway sends a certificate
with every enrollment it accepts: the code would store an identity without one
(`enrollment.rs:779-786`), and the renewal would ask for a reinstallation. `overlap` is set once the command
enrolls or discards an identity while the daemon lives; `IdentityWhole` excepts it.

### Control

One tick is the chain clear, term, renew, take, drain, handle, fetch, run, report, and
the process may be killed at every point. In a terminal state the tick ends after
`term`: neither local nor remote commands are taken until the retry. `Duplicate`, `Decline`, `AcceptRefresh`,
`AcceptProbe`, `AcceptInvestigate` are the branches of the command handler;
`RecordCommand` its history of `HistoryLimit` entries; `ReportAccepted/Lost/Refused`
the status report that carries acknowledgements away and commands in. Each of
`McScenarios` fixes the commands and the budget of crashes, losses, refusals and
faults, so that one run covers combinations that would be too large together. The
`refresh-facts` processes (`client`) look at the request slot, write it and wait beside
the daemon: `LookRequest`, `SubmitRequest`, `RefreshFactsEnds`. The daemon reads the slot
(`ReadLocal`) and removes the file afterwards (`RemoveLocal`), whatever it holds then;
`replaced` remembers in whose favour a command was lost unread.

### WorkGrant and Pulls

`FetchWork` replaces what is held, `AckStep` acknowledges work by work, `EndRound`
stores the view, `RestoreWork` starts from it. `Duties` derives tasks, exporter runs,
unsupported units and the metrics interval from the held works. `Pulls` counts time in
ticks; each of `RefreshPolicy/Search/Uplink/Snap` is due, fails, or applies, and
`Send` is the end of the tick with its two throttled reports. A snapshot setting the
gateway does not have is a 404 (`None`) or, withdrawn, a 204 (`Unset`); the code applies
only the first of the two.

### Scans

An investigation or a diagnosis chosen by `Accepted` runs its own steps on a host of a
small set, and `Answer` makes one report of its findings. `DiskScan` walks a tree of
ten entries with a hard link and a mount under budgets of entries and
time, with a least size for the files it lists; `LoadScan` reads counters, lets processes burn, start and exit, and reads again;
`AccountsScan` follows includes of sudoers and sshd_config one file per step;
`HostScan` and `Doctor` are passes over sources that may be denied, absent or, for the
diagnosis, change between two checks.

### Plane

`Discovery` is the round (`LoadCache`, one step per probe, `ComposeSnapshot`, the
writes of cache, candidates and view, `Report`) with `MetricsTick` and `Export`;
`Uplink` the metrics batch and the exporter runs over a TCP sink that connects, stalls,
breaks, backs off and finishes in the background; `Notices` the inputs of a tick, each
a number of unread and spooled batches, and what is printed and reported of them. Ages
and revisions saturate at `MaxAge` and `MaxRevision`; the metrics sampling limit is 1
instead of 3; sequence numbers of exporters are in `LogInput` and not here; a batch is
atomic with respect to the link.

## 3. Runs

| Run | Instance | Checks |
|---|---|---|
| `exec_mixed` | 2 executions, 1 crash, 1 fault, bad exits | `TypeOK`, `NeverForgotten`, `SpawnedOnce`, `ReportTrue`, `RecordsRespected` |
| `exec_live` | 3 executions of 2 plans, 1 crash | `OneRunner`; `ImplementsLifecycle`, the refinement of `ExecutionLifecycle`; `Progress` |
| `exec_claim_result_kept` | 1 execution, 1 crash | `CompletedResultKept`, violated (section 6) |
| `upgrade_safe` | a full and a bare package on a bare installation; 1 crash, 1 killed upgrader, 1 fault | `TypeOK`, `OneUpgrader`, `VerdictIsTrue`, `EndsWhole` |
| `deploy` | 1 upgrade work, 2 forgotten dispatches, 1 crash, 1 lost request; 2 definitions, 2 `service` commands, 1 upset, 1 daemon by hand, on systemd and launchd | `OneUpgrader`, `UpgradeSettles`; `UninstallStops`, `InstallTakes` |
| `log_safe` | a single file and a family with a rotation chain of three, 3 lines with a continuation, 1 rotation or truncation, 1 outage, 1 foreign frame, 1 crash | `LinesKept`, `OneFramePerNumber` |
| `log_live` | two chains, banner, noise, tail start, 1 rotation, 1 outage, no crash | `LineReceived` |
| `identity` | 2 agents, 2 tokens, daemon and command, 2 faults, 2 events (expiry, denial) | `IdentityKept`, `DaemonComesUp`, `DueIsRenewed` |
| `control` | 9 scenarios | `ControlSafe`, `CommandSettled`, `LocalAnswered`, `TerminalFollows` |
| `pulls` | 2 works, 3 versions; 2 edits, 1 failure, 1 restart, clock steps of 1 and 5 ticks | `PullsSafe`, `SnapshotPrompt`, `PullsSettle` |
| `scans` | the hosts of `MCScans` | `DiskReportTrue`, `LoadChargedRight`, `IncludesRead`, `AnswerTrue`, `ScanEnds` |
| `plane` | 2 probes, 3 items; 2 exporter runs, 2 entries; 2 inputs and an unsupported one | `VanishTold`, `HealthyRoundAgrees`, `EntriesKept`, `WorkStateTold`, `TickTold`, `PlaneSettles` |

What the properties say is stated above each of them; those of several parts name
their parts (`LinesKept` is the type invariant, `NoLineSkipped` and `ReadOnce`).

Why these bounds.

- *Executions* meet in the queue, the single slot and the duplicate check: two are
  enough for the first two, three (two of one plan and one behind them) for the third.
  A fault in the recovery of a crash is in `exec_mixed`. `MaxSpawns` leaves one spawn
  per crash and the regular one; no run is cut short by it (deadlock is checked).
- *Upgrades*: two works are enough for the lock, because `has_upgrade_in_flight` does
  not distinguish which other work holds it; two binaries are enough for a mixed
  installation; `MaxLaunches` leaves room for one dispatch more than is expected.
- *Service*: two definitions tell an old daemon from a new one; `Retries` and `Burst`
  are 1 and 3 instead of 5 and 10, which keeps their order.
- *Log input*: a rotation between two reads, with an unread tail, a pending block and a
  new file, needs three inodes and three lines; a second rotation within one tick is
  beyond the instance.
- *Identity, control, pulls*: one fault of each kind and a second one during the
  recovery of the first.
- *Scans*: every branch of a check is reached by some host of the set; the walk's
  budgets cut it at every depth.
- *Plane*: `MaxAge` exceeds both intervals; two runs of one exporter are the least that
  can confuse cursors.

`CHECK_DEADLOCK FALSE` stands where the system may stop: an upgrader that is killed
right after it restarted agentd into a version that does not come up leaves the host
without a running agent; an operator need not enter another command; a scan ends with
its answer; bounded edits and faults run out while the loop stutters.

Each property has at least one mutant of the code under which TLC finds it violated
(`PROJECT.json`, `mutants`), for instance a recovery result that is reported but not
written, a failed restart that keeps the new binaries, a failed send whose batch is
not spooled, a cursor shared by two runs, a directory of includes whose files are not
followed further.

## 4. Fairness

Weak fairness of the daemon's own steps everywhere: the loop always ticks again, the
service manager restarts the process, crashes and faults are bounded. In addition

- `Execution`: each deadline passes. Nothing is assumed of children: they may hang for
  ever and the queue still drains.
- `Upgrade`: a heartbeat nobody renews expires; each upgrader's steps happen
  (downloads, commands and `wait_for_version` have limits). Nothing is assumed of the
  gateway beyond what it does when a request reaches it.
- `Service`: a started command goes on, the process that was told to stop exits (the
  manager kills it after its timeout), the start-limit interval passes. Nothing is
  assumed of a daemon started by hand: it may hold the lock for ever, and `InstallTakes`
  excepts the time it does.
- `LogInput`: strong fairness of a scan of the family and of a read that finds the
  block idle. Both depend on a clock: rescans are periodic, and a pending block is
  sealed when it has not grown for a time, so in an unbounded sequence of ticks they
  come up again and again.
- `Identity`: strong fairness of the hourly check, a timer that is read between other
  steps. `Control`: strong fairness of its two timers (retry and grant), which are
  only looked at in some ticks; an investigation ends, for every scan is bounded in
  time. That a refusal is lifted is not assumed: `CommandSettled` allows for it, and
  `LocalAnswered` asks for a result only if the terminal state does not last.
- `Plane`: the link returns, a background write finishes (it has a time limit), a
  report is sent.

## 5. Proofs

TLC checks each property on the instance of its run; the theorems below hold for every
value of the constants that satisfies the named assumptions of the module that declares
them, which TLC evaluates on every run. Where a theorem needs more, its statement says so
(`ASSUME`). Every proof of an invariant is of one form: an inductive invariant that is
checked by TLC first, one lemma per action or family of actions, and one step for each
conjunct that the action can disturb.

| Module | Theorem | States | Further assumption |
|---|---|---|---|
| `ExecutionProofs` | `TypeCorrect`, `SpawnedOnceHolds` | `TypeOK`, `SpawnedOnce` | |
| | `NeverForgottenHolds`, `ReportTrueHolds` | `NeverForgotten`, `ReportTrue` | |
| | `OneRunnerHolds` | `OneRunner` | `MaxFaults = 0`, finitely many executions |
| | `ImplementsLifecycleHolds` | `ImplementsLifecycle`, the refinement | `MaxFaults = 0` |
| | `RecordsRespectedHolds` | `RecordsRespected` | |
| `DeployProofs` | `TypeCorrect`, `OneUpgraderHolds`, `VerdictIsTrueHolds` | `TypeOK`, `OneUpgrader`, `VerdictIsTrue` of `Upgrade` | `Units` for `OneUpgrader` |
| | `SecondIsForgottenHolds`, `SuccessIsWholeHolds` | a second upgrader is one of a forgotten dispatch; a success leaves the binaries of one version | |
| | `EndsWholeHolds` | `EndsWhole` | `OwnVersions` |
| | `UninstallStopsHolds` | `UninstallStops` of `Service` | |
| | `DeployUpgrades` | `DeploySpec => Spec`: the theorems on upgrades hold in `Deploy` | |
| `LogInputProofs` | `TypeCorrect`, `OneFramePerNumberHolds` | `TypeOK`, `OneFramePerNumber` | |
| `ControlProofs` | `ControlSafeHolds` | `ControlSafe` | |
| `GatewayProofs` | `IdentityKeptHolds` | `IdentityKept` of `Identity` | |
| | `PullsSafeHolds`, `SnapshotPromptHolds` | `PullsSafe`, `SnapshotPrompt` of `Refresh` | |
| `PlaneProofs` | `EntriesKeptHolds`, `VanishToldHolds`, `HealthyRoundAgreesHolds` | `EntriesKept`, `VanishTold`, `HealthyRoundAgrees` | |
| | `WorkStateToldHolds`, `TickToldHolds` | `WorkStateTold`, `TickTold` | |
| `ScansProofs` | `AnswerTrueHolds`, `LoadChargedRightHolds` | `AnswerTrue`, `LoadChargedRight` | |
| | `DiskReportTrueHolds` | `DiskReportTrue` | |

### The arguments

*Execution.* `SpawnedOnce` is not inductive: that the head of the queue is about to be
spawned says nothing about how often it was spawned. `SpawnInv` adds `CurOK` (wherever the
daemon works on an execution, there is one), `QueueOK` (an id is queued once, only after
its plan was written, and is out of the queue when quarantine has passed the dequeue),
`LocalQueueOK` (`drain_next` works on the queue that is on disk), `CountOK` (at most one
recorded spawn, none where the daemon is about to submit or spawn), `EvidenceOK` (a queued
execution whose spawn was recorded has left a running record or a result, so the queue
head does not reach `Spawn` again) and `ResultOK`. `EvidenceOK` is the heart: each action
that removes one of the two files has to find the other, or the execution out of the
queue.

The other theorems rest on more. `TraceInv` says of each execution what its files have left:
`RecordOK` and `ProcessesOK` (records name processes that were spawned, in order),
`ResultAfter`, `DigestOK`, `HeldOK`, `AcceptedOK`, and `PlaceOK` of the step the daemon is
at. `NeverForgotten` and `ReportTrue` follow from it, with any number of crashes and
faults. `RecordsRespected` is about the life before the first crash: `UncrashedInv` adds
what holds while `crashes = 0`. A file that can no longer be read makes the daemon
quarantine an execution whose process may live on, so one process at a time, and the
lifecycle, are only true without faults: both theorems assume `MaxFaults = 0`, as the run
`exec_live` does, and `FaultlessInv` adds what is true then (every process is accounted
for by a record, a key is found where it is looked for). The refinement is proved step by
step: the initial states map to initial states of `ExecutionLifecycle` and every step to
one of its steps or to a stutter.

*Upgrade.* `UpgradeInv` relates the three memories of a work: a live upgrader has the
execution that was dispatched (`LiveOK`), which agentd holds in memory or in `work.json`
unless its dispatch was forgotten (`ViewOK`, `OnceOK`, `TodoOK`), and the record and
heartbeat on disk are those of the upgrader that last wrote (`RecOK`, `BeatOK`); what
agentd is about to say and what the gateway was told agree with the record (`SayOK`,
`StatusOK`, `VerdictOK`). `OneUpgrader` needs `Units`, upgraders that run as systemd units named after their work:
only the name keeps a forgotten work from being launched twice. For
`EndsWhole`, `PackageOK` and `BackupOK` follow each binary through backup, swap and
restore. They need `OwnVersions`: each work brings a version of its own that is not
installed. Without it `EndsWhole` is false. With three works and downgrades TLC finds this:
w1 (version 2) is killed after it swapped a companion that was absent, so agentd stays at 1;
w3 (version 1) backs the companion up under `.bak-1` and succeeds; w4 (version 2) finds that
backup in place and keeps it, its restart fails, and its rollback restores a companion of
version 2 under agentd 1 and reports "rolled back". A backup
`<name>.bak-<version>` that exists is never refreshed (`upgrade.rs:705`).

*Service.* `ServiceInv`: an uninstall has only commands left that stop something
(`OnlyStops`), and after the stop nothing is left that would start the daemon
(`StaysStopped`).

*Log input.* `LogInv` is the types of the whole state, and: the stored sequence number is
the one in memory during a tick (`NumbersOK`), the records of the batch have the numbers
that follow it, and a frame of this life has a number below it or is of the batch whose
numbers are about to be stored (`LeftOK`). A crash ends the life before the number is
stored and makes every frame one of an earlier life. The types are the larger part: what
`Folded`, `At`, `KeptAtPath` and `Committed` return is established by induction. The
library's induction theorems take an operator and cannot be instantiated; `SetInduction`
(`SequenceLemmas`) is a first-order form, proved from the pigeonhole principle for finite
sets, and `StepsExist` and `StepsStay` derive from it that a recursive function on `0..n`
exists and where its values are.

*Identity.* `IdentityInv`: as long as the two programs do not overlap, the files are those
of one agent or a step of one of the programs explains the difference (`WholeOK` with
`HoldsOK` of each program); what was issued is an agent (`IssuedOK`), and the daemon gets
into its loop only past the removal of the token (`ScrubOK`).

*Control.* `ControlInv`: `StandbyOK` (from the renewal to the end of the tick the uplink
is in standby if a terminal state is held), `KindsOK` (what is in work as an investigation is never taken for a refresh)
and `CountOK`: an executed command that was not written off is in the history, among the
accepted or in work, and in the history on disk when the daemon is down. The attempt to
prove it showed that `dropped`, which remembers what the history limit has cut, missed the
records cut when `run_once` fails; `TickFails` was corrected and a scenario added.

*Refresh.* `WorkInv`: nothing the daemon holds is ahead of the gateway (`NoneAhead`), a
grant with the gateway's sequence number is the gateway's grant, in memory and on disk
(`GrantOK`: what lets `refresh_work_grant` skip the write), and the stored view is a fixed
point of storing (`ViewOK`), from which `DriftVisible` follows. `PullInv`: the silence of a
report is bounded by the steps of its timer (`QuietOK`).

*Plane.* Sending: `SendInv` ties the cursor of a run to what has arrived or is in the batch
that is being finished (`MarksOK`, `RunsOK`, `FinishingOK`, `AccountOK`, `BatchOK`).
Discovery: `DiscoverInv` follows an item from the host through outputs, cache and snapshot
(`VanishOK`) and what is derived and exported from one snapshot (`AgreeOK`). The attempt to
prove an earlier `VanishTold`, which compared with the last snapshot even if it was stale,
showed it false beyond the bounds of the run: a cache store that fails twice, so that an older
snapshot replaces the one in memory, then a round in which every probe fails, lets an item
vanish unsaid. The property now speaks of the last refreshed snapshot (`steady`).
Telling: `TellInv` is the types (`TellTypes`), and: what the control plane holds, corrected by
the changes that wait, is what the last tick found paused (`ChangesOK`); what was said so
far is of the inputs before the one in turn, each thing once, and another batch only follows
one that the output took (`SaidOK`); an input that was left with records in its spool has made
the tick an active one (`LeftOK`). The heart of the first is `HeardAll`: hearing the differences between two sets,
in whatever order they are listed, turns one into the other.

*Investigations and diagnosis.* `AnswerTrue` needs an invariant for each kind of scan
(`ScansInv`): which statuses the findings made so far have, as far as the facts decide it
(`AccountsInv`, `HostInv`), and that a finished group of checks of a diagnosis has a failed
check for each trouble it looks for that was there from the start, and none without a trouble
(`DoctorInv`). What the report says follows from which statuses occur, not from their order
or number (`ReportSays`).
`LoadChargedRight` needs sums: `MapThenSumSet` is a recursive function over the parts of a
set whose existence is proved by induction over a finite set (`PartInduction`); from it come
the laws of sums that the proof uses (`SumLe`, `SumPart`, `SumTwo`, `SumJoin`). `LoadInv` then
says that since the first reading a meter has grown by what the processes of its group used,
or by less if the group was made again in between; a group's processes are of its service,
and two groups share none.
`DiskReportTrue` needs `DiskInv`. `WalkShape` says which directories were opened (those that
got a node within the depth, can be opened and wait on no stack) and which entries were
looked at (those of an open directory that its cursor has returned); every directory is on one
stack, below its first-level directory; what was looked at is counted or is in the report; and a
first-level directory that is not finished has its turn. With nothing in the report, a file that
was missed would have a first directory above it that was not read to its end, and there is
none (`FileReached`). `WalkBytes` and `WalkFiles` are about sums and candidates: a file that
was dropped has `TopCount` candidates that are at least as large. `WalkFresh` and `WalkShares`
keep the count: while the budget has an entry for every first-level directory, those that had no
slice yet wait in front of the others, and what is left of the budget after the present slice is
enough for them. This is where the even share matters, and the slice of one entry when the share
is nothing (`ShareFits`). The tree is any finite tree in which going up from an entry ends at
the root (`TreeAssumption`), and the options are numbers, of which the slice and the number of
files listed are not 0 and more candidates are kept than listed (`BudgetAssumption`; the code
keeps the larger of 16 and four times as many, `investigate_disk.rs:1403`).

### Model-checked only

- Liveness, and the fairness it rests on: `Progress`, `UpgradeSettles`, `InstallTakes`,
  `LineReceived`, `DaemonComesUp`, `DueIsRenewed`, `CommandSettled`, `LocalAnswered`,
  `TerminalFollows`, `PullsSettle`, `PlaneSettles`, `ScanEnds`.
- `NoLineSkipped` and `ReadOnce` (of `LinesKept`): they follow a line through files,
  records, spool and checkpoint.
- `IncludesRead`: what is reached through includes is a closure, and sshd's reading order a
  recursion through folds over folds.


## 6. What the models disagree with

One statement of the documentation has a run of its own:

| Run | Code | Statement |
|---|---|---|
| `exec_claim_result_kept` | `runtime/daemon_recovery.rs:80`: recovery looks for the result, then at the process; a child that finishes in between loses its result to a synthesized failure | recovery loses no completed result (`docs/design/agentd-state-and-boundaries.md:346`) |

`RecordsRespected` says that the same holds as long as no crash happened, together
with two further statements that fail only after one.

Three comments say more than the code does. The models do what the code does, and the
passing properties except the case:

| Code | Comment | Model and property |
|---|---|---|
| `state_store/commands.rs:94`: `refresh-facts` looks at the slot and then writes it; two that look before either writes both write | a pending request is not overwritten (`commands.rs:87`) | two steps in `Control`; `LocalAnswered` asks for the result of the command that was kept |
| `control/discovery_snapshot.rs:108`: a 204 is a success, its empty body does not parse, and the failure keeps the setting that was withdrawn; the arm for 204 (117-119) is not reached | a 204 falls back to the local configuration (`discovery_snapshot.rs:116`, also 16 and 21) | `ObserveSnap` keeps the setting when the gateway has none (`gw.snap = Unset`); `SettingsConverge` speaks of the other answers. Stated without the exception, as `<>[](gw.snap = Unset => snap = None)`, it is violated |
| `single_instance.rs:116`: the lock is probed by taking it, and a daemon that starts then ends with AlreadyRunning | the probe does not affect the start of the daemon (`single_instance.rs:106`) | `ProbeLock` holds the lock for a step; `InstallTakes` holds because the manager starts the daemon again |

The following were met while modelling and are limits that the passing properties
allow for. Each says what the code does and, where there is one, the statement it
differs from.

*Execution.* The quarantine record is stored before the queue entry is removed, so
after a crash in between a quarantined execution runs again (`exec/quarantine.rs:152`;
`docs/design/agentd-failure-handling.md:256`). An unreadable `result.json` at the
queue head fails every tick (`runtime/scheduler_reporting_support.rs:93`;
`agentd-failure-handling.md:29,181`); it gets there only when a crash separated the
execution from its dequeue. After a crash inside quarantine an execution may have a
report and a quarantine record. A child stays alive unattended when its identity
cannot be read (`exec/local_exec.rs:112`) or its running record is unreadable at the
deadline.

*Upgrade.* An upgrader that dies before its first record keeps the upgrade lock
(`runtime/daemon.rs:2736`; `upgrade.rs:67`). A backup cut short is kept and restored
later under the verdict "rolled back" (`upgrade.rs:705`; `upgrade.rs:1228`). A
"rejected" report that gets lost is never repeated (`daemon.rs:2628`). Heartbeat
writes that fail for a minute make a live upgrader look dead (`upgrade.rs:855`). With
`allow_downgrade` to the running version `wait_for_version` is vacuous
(`upgrade.rs:808`). Two works whose dispatches are both forgotten can run two
upgraders.

*Service.* `service/mod.rs:8-10` leaves a start that finds the lock held to the
retries of Restart and KeepAlive. Under systemd, `StartLimitBurst=10` in 60 s with
`RestartSec=5` is reached after about 50 s, and the unit is not started again;
`InstallTakes` takes this for an end. `service install --enrollment-token` spends the
token before it finds the service already installed. A start that loses the lock to a
probe is repeated by the manager, which `InstallTakes` checks. `daemon-reload` of
an uninstall runs before the file is removed.

*Log input.* A file that is truncated, or renamed and created anew, between its
inspection and its read is read at the old offset. A deleted file whose inode is
reused for a file with the same first line and the same bytes before the offset is
taken for the old one, and so is a file that was cut and rewritten with the same banner
between read and commit. A family reads a file twice that was renamed to a name the
pattern also matches (`checkpoint_support.rs:24`; `file.rs:791`). Pruning may drop the tail of a renamed file
that was read to its end at the time; a rotated tail longer than `max_lines` is lost in
single mode. After a crash between sending and storing `seq.json` numbers are used
again (comment at `file.rs:292`), and an unreadable `seq.json` starts at 0:
`OneFramePerNumber` speaks of one life of the daemon.

*Identity.* A retry after a lost answer presents a token that is spent
(`enrollment.rs:386-389`). A torn key is never replaced. The tick reads and writes
`agent_runtime.json` in two steps, so it can bring back what `enroll --force` has
discarded.

*Control.* An investigation may get two final outcomes when it is repeated after a
crash (`daemon.rs:968`, `daemon.rs:1253`). A ledger removal that failed twice can
remove a ledger entered meanwhile, until the next retry (`LedgerAgrees` is therefore
`[]<>`). The renewal tells every terminal code as "revoked".
A `refresh-facts` that writes the slot between the daemon's read and removal of the file
loses its command unread (`daemon.rs:877`, `daemon.rs:888`), like one that another
`refresh-facts` overwrites; `LocalAnswered` then asks for the result of the command that
was kept. In a terminal state the loop sleeps again before it takes local commands
(`daemon.rs:1831`), so a `refresh-facts` gets no result until the credential is accepted.

*Standing works and settings.* `outcome.unsupported` is never filled. A failed write of
`work.json` is not repeated until the next change. Input ids of two works can coincide
(`work.rs:536`). A 404 of the uplink grant keeps the last grant. A work whose parameters
could not be read is restored without units and counts as working until the first pull.

*Investigations and diagnosis.* Denied crontabs, files of `sudoers.d` and key files are
counted but may leave the verdict at "all normal", and so may an `ld.so.preload` that
cannot be read, while `investigate_persistence.rs:19`
and `investigate_accounts.rs:14-16` take what was not read for unknown. Agent
directories that coincide are counted twice (`investigate_disk.rs:783-791`). The spool
check of the diagnosis looks in `state_dir/spool/logs` although `spool_dir` is
configurable, and probes the network with the control plane disabled. A home that the
agent may not enter counts as one without keys (`investigate_accounts.rs:751-754`).

*Discovery and sending.* A periodic probe that fails drops its resources for one round
(`discovery/runtime.rs:278-288`; comment at 28-33), and the failure is told:
`VanishTold` is stated that way. After a failed due run the next round counts the
cached output as good; a forced refresh whose probes all fail is "ready" when outputs
are cached; a failed store repeats a revision; a crash between the cache files leaves a
mixed snapshot until the next round; a class without rows keeps its old exported file.
Output in which no entry has a `__CURSOR` keeps the old cursor and is read again
(`runtime/daemon_telemetry.rs:499`), as after a failed write. An exporter without a cursor loses entries when the uplink is down for longer than its
window. Acceptance by the socket counts as sent.

*Tick reports.* A paused input whose source vanishes or whose work is withdrawn is
reported as resumed (`daemon.rs:2336-2339`). Changes are lost with a report that fails
(`daemon.rs:2060`), and after a restart an input may stay "paused" at the control
plane: `WorkStateTold` excepts both. The spool of a withdrawn input is not replayed.
After standby all failures are printed again.

## 7. Not modelled

- Configuration and command line: parsing and validation of text. The loaded
  configuration is a constant of every module.
- Record formats of lines and samples, and the redaction of investigation text
  (`investigate_safety.rs`): conversions of characters, about which no property here
  speaks.
- The probes of discovery and the readers of `/proc`, `/sys` and packages: what they
  return is the input of `Discovery` and of the scans.
- Exporters other than the kernel log: those without a cursor differ from it only in
  what a window means.
- TLS and the wire format of requests: a request gets through, is lost, or is refused.
- The gateway, systemd, launchd, journald and the applications that write logs are
  external: modelled from how the code uses them and marked so in the map.
- Composition of all parts into one tick: the parts meet in few places (sequence
  numbers, uplink standby, the restart), and each of these is an action of the module
  that depends on it (`InvestigationFrame`, `OtherFrame`, `force_standby` in `Control`,
  `Crash`). The product is beyond the model checker.

## 8. Plan

1. `Scans`: `IncludesRead`.
2. `LogInput`: `ReadOnce`, from "the lines behind an offset were read in this life", and
   `NoLineSkipped`.
3. Larger instances where time allows: a second crash in `exec_live`, a second turn in
   `log_safe`.
