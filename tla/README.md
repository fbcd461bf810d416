# A verification of the sandbox: models, checks, proofs

The system runs commands and file operations of many clients in isolated
workspaces over a shared, versioned file tree. On the **host** a gateway accepts
requests, and a manager creates, destroys and samples sandboxes (containers). In
every **sandbox** a daemon serves RPC and HTTP and owns a runtime: a layer store
(`runtime-layerstack`), workspaces mounted on snapshots of it
(`runtime-workspace`), sessions on top of the workspaces (`operation`), an engine
for executions in the workspaces' namespaces (`namespace-execution`), and the
helper processes that live in those namespaces (`namespace-process`). Telemetry
runs beside all of it.

The modules here are translations of that code. TLC checks them on small
instances (12 runs). TLAPS proves the safety of six of them for every value
of their constants (8 modules of proofs). `PROJECT.json` maps each definition
to the source lines it stands for, lists the hazards of the code with the
properties that watch them, and names for each property a mutation of the model
that breaks it.

To check: `tlc -workers 2 -config X.cfg M` for a run, `tlapm M.tla` for a proof.

## 1. Modules and the code they model

Control is kept whole: every guard, early return, error path and the order of
steps. Data is reduced to what the properties tell apart: a layer is the change
set it carries, a file a short sequence of lines, a record its size and time.
A step of a module is what the code does between two points at which another
thread, a process, a failure or a crash can come in; what runs under a mutex is
one step unless it does I/O that may fail half-way or a process can die in it.

### The layer store

| module | code | state and steps |
|---|---|---|
| `LayerStack` | `layerstack/src/stack`, `storage` | manifest, leases, layer directories, what of it is durable. Publish, squash (plan, build, sync, commit, collect), lease, release, remount onto a rewritten chain, sweep at boot; each disk operation may fail, a crash or a power loss may come between any two |
| `VersionedStore` | none: what the store promises | a log of change sets, and frozen snapshots of it |
| `StorageLock` | `storage/lock.rs` | handles, the flock between processes, the reentrant lock that prefers writers, its condition variable |
| `LayerView` | `projection`, `squash/flatten.rs`, the export's delta and its application | what each reader makes of a stack of layers: reads, listings, the mounted tree, a squash, an exported delta |
| `ThreeWayMerge` | `publish/merge.rs` | the diff, the regions, the merge loop, the origin of each line |
| `PublishResolve` | `publish/plan.rs`, `resolve.rs`, `route.rs`, `opaque_dir.rs`, `overlay/capture.rs` | routes, validation against the active manifest, merge, amend, structural conflicts |
| `WorkspaceBase` | `workspace_base`, the host's archive of it | the parallel copy of a directory that is being edited, the shared cache, the binding |

### Workspaces and sessions

| module | code | state and steps |
|---|---|---|
| `WorkspaceManager` | `workspace/src/lifecycle`, `session`, `service` | creation, remount, teardown pass by pass with the ledger of what is released, `manager.json`, the boot reap, the ring of outcomes, shutdown |
| `HolderSupervisor` | `workspace/src/namespace/holder.rs`, `supervisor.rs` | the worker with its bounded queue, the records of holders, waits, signals, deadlines, the exit subscription, shutdown |
| `HolderStart` | `holder.rs`, `fds.rs`, `namespace-process/src/holder` | the handshake of daemon, holder and the namespace's init over pipes, with death signals; a failed start ends the holder, unless that fails too |
| `LiveRemount` | `lifecycle/remount.rs`, `quiesce.rs`, `remount_overlay.rs` | freeze, staged switch of the root, masks, overlays left staged, classification of the outcome, the end of a faulty session |
| `WorkspaceSession` | `operation/src/workspace_session`, `exec_command.rs` | create, exec, publish, file operation, remount, destroy, holder exit, shutdown on one session, with its gate and destroy flights |
| `RecoveryArtifact` | `workspace_session/service/recovery.rs` | the bounded copy of a session's work when its finalization fails |

### Executions and files

| module | code | state and steps |
|---|---|---|
| `NamespaceExecution` | `namespace-execution`, the command service | registry, supervisor, promises, launch, yield, cancel, eviction, shutdown |
| `CommandScope` | `runner/shell_exec/wait.rs` | the runner's wait for a process group: scans of `/proc`, termination, grace |
| `Transcript` | the PTY reactor, `yield.rs`, transcript reads | timestamped appends, bounded windows, final and running yields |
| `FileRunner` | `runner/setns/file_op.rs` | walk, read, list, atomic write under processes that change the same names and swap directories for links that lead out of the tree |
| `FileText` | `operation/src/file` | edits and line windows of a text |
| `FileAudit` | the auditability store, `publish_changes.rs` | origins, owners, event log, replay, blame |

### Daemon, host, telemetry

| module | code | state and steps |
|---|---|---|
| `RuntimeServices` | autosquash engine, `services.rs` | notification, worker, the gate it shares with a manual squash, the phases of a shutdown, a runtime that is dropped without one |
| `DaemonServer` | `sandbox-daemon/src/rpc`, `http`, `serve.rs` | admission, refusals, connections, tunnels, clients and work that stall, the ordered shutdown, run files |
| `CgroupRoot` | `cgroup_setup.rs` | vacating the cgroup root while process numbers are reused |
| `DiagnosticTracker` | the daemon's diagnostics | samples, windows, cooldown, captures |
| `SandboxManager` | `sandbox-manager`, the Docker provider | create (batches, rollback), destroy, forward, sampler, snapshot file, load and reconcile |
| `Export` | `export_changes` on both sides | fold under a lease, spool, paging with lost, doubled and foreign replies, rendering |
| `ResourceRing` | `resource_ring.rs` | the ring file write by write, reads, repair |
| `Gateway` | `sandbox-gateway/src/gateway` | listener, socket and pid file, permits, request lines, streaming, shutdown |
| `EventLog` | telemetry `sink.rs`, `lines.rs`, `reader.rs` | compaction, rotation and append under a flock, queries without it; the arena of newest lines |
| `TraceSpans` | telemetry `observer.rs`, `reader.rs` | spans, thread contexts, the registry of open spans, the forest a query shows |

The modules named `MC...` instantiate these for TLC. They state constants,
symmetry, and how several components stand in one run (section 2).
The modules named `...Proofs` hold theorems (section 4).

## 2. The runs

A run may hold several components **side by side**: the initial state picks the
component a behaviour is about (its `subject`) and the others rest. The state
space is then the union of the components' state spaces, not their product, so
every component is explored as it would be alone. Where components
interact, the interaction is inside a module: a session against its gate, its
flights and its holder; a remount against the session's tasks; the supervisor
against its callers.

| run | asks | answer |
|---|---|---|
| `layerstack` | Can a publish, squash, release, remount or sweep, with a crash, a power loss or a failed disk operation at any step, remove a layer somebody needs, strand a session or change a view? Does the store implement `VersionedStore`? | holds: `WellFormed`, `LayersOnDisk`, `SurvivingManifestsIntact`, `ImplementsVersionedStore` |
| `squash_late_fault` | Does a squash that reports failure leave the manifest valid, as `squash.rs:105-107` says? | **violated**, section 5 |
| `storage_lock` | Three threads of one process and one of another on one root: exclusion, no missed wake-up, writers not starved. Beside it, the engine's shutdown ends | holds: `LockSafe`, `NoMissedWakeup`, `WritersGetIn`, `JobsSettle` |
| `contents` | Do all readers of a stack of layers agree with its mount? Is the merge right on every triple of small files? Does any publish lose another's work? | holds: `StackReadersAgree`, `MergeCorrect`, `StackSquashKeepsView`, `PublishKeepsWork` |
| `session_live` | Does every call on an explicit session return, and is a dead holder dealt with? Does the start of a holder come back, and does a runner answer, whatever process dies or stalls? | holds: `SessionProgress`, `ProcessesAnswer` |
| `session_stuck` | The same for an exec that makes its own session | **violated**, section 5 |
| `workspaces` | One leader per teardown, work that survives, mounts that stay pinned, nothing without an owner, outcomes that are true; and the operations on files | holds: `SessionSafe`, `MountSafe`, `Owned`, `OutcomesTrue`, `FilesTrue` |
| `holder` | Are the supervisor's answers true, are all holders watched, and does every call and the shutdown end? | holds: `AnswersTrue`, `HoldersWatched`, `SupervisorProgress` |
| `executions` | Are the engine's slots and directories exact and does a result mean the end? Does anything see a half-done remount? | holds: `RegistryExact`, `OverMeansOver`, `OwnAnswerKept`, `RemountSafe` |
| `host_services` | Sandboxes created and destroyed while the gateway restarts; exports folded while layers are collected; a ring cut short; two gateways and one socket | holds: `RegistryTrue`, `NothingRemains`, `ExportSafe`, `RingTrue`, `GatewaySafe` |
| `daemon_services` | Does every stop end, and is all that was accepted answered or ended? | holds: `ServicesStop`, `DaemonDrains`, `ServicesProgress`, `DaemonStops`, `GatewayProgress` |
| `sandbox_parts` | The cgroup root, the base, the recovery artifact, the telemetry and the end of a command, with deaths and failed operations anywhere | holds: `SandboxPrepared`, `ArtifactTrue`, `TelemetryTrue`, `CommandsTrue` |

Each property has at least one mutant in `PROJECT.json`: a plausible bug in one
mapped definition with which TLC finds the property violated.

### Bounds

Every bound is a constant named in a module, with its value in the `.cfg`.

- **Actors.** Two of each kind that contend (clients plus the dispatcher,
  workspaces, executions, requests, producers), three or four where a third
  party matters: three threads of one process and a fourth of another for the
  lock (a reader, a writer, and a reader that comes after the writer), three
  callers for the supervisor (a spawn and two that wait).
- **Resources** are at the size at which they run out: one address for two
  workspaces, one queue slot, one permit, one blocking worker, a ring of three.
- **Faults.** One or two per behaviour, so that a fault can hit the handling of
  a fault. `LeasesAndFaults`, `SandboxesAndFaults` and `ConnectionsAndGateways`
  trade the second fault against the size of the instance.
- **Data.** Stacks of three layers over three nested names (a whiteout, an
  opaque directory and something below it fit); files of up to three lines; four
  layer ids, enough for a squash to replace a run and be overtaken by a publish;
  an export stream of three bytes in pages of one, so that a reply may be that of
  another page; producers of telemetry with different budgets (3 and 5 bytes);
  transcripts of four bytes read in windows of four, so that a window holds
  several rows and the limit of a read cuts it.
- **Hypotheses of `workspaces`.** `LeakyRelease = FALSE`, `ReapFaults = FALSE`
  and `MaxRemounts = 1`: with any of these relaxed the code leaves something
  behind, for the reasons in section 5, and `Owned` does not hold. `Ring` is as
  large as the set of workspaces; a smaller ring forgets outcomes by design.
- **Hypothesis of `layerstack`.** `Faults` leaves out the late failures (an fsync
  that fails after its rename); `squash_late_fault` is what they do.

Deadlock is not checked where the system may rest: after a shutdown, or when
the bounded number of operations is used up. `layerstack` checks it.

### Fairness

Safety runs assume none. The liveness properties assume weak fairness of what
the operating system schedules and of what the code bounds by a timeout, and
nothing of clients:

- each thread in a call, each worker and each connection handler takes its
  next step when it can (`WorkspaceSession.InCall`, `HolderSupervisor.Worker`,
  `DaemonServer.Attend`, `Gateway`, `RuntimeServices`). A client may stop reading
  (`peer` of `Gateway`, `stalled` of `DaemonServer`) and the work of a request may
  hang: no write and no dispatch has a deadline. `DaemonStops` therefore says
  that a shutdown ends if nothing holds it up for ever (`HeldUp`). A process that was sent SIGKILL
  dies; a deadline passes; a command ends only where the property waits for it;
- a notified waiter wakes and a lock that is free is retried (`StorageLock`);
- strong fairness in two places. `RuntimeServices.TakeGate`: the squash gate is
  a mutex that a manual squash may take again and again, and a blocked thread
  gets it at last. `NamespaceExecution.PollJob`: the supervisor polls all jobs in
  turn, and the poll that sends the signal is not skipped for ever.

Client arrivals, faults, crashes, forks of a command's processes and the
holder's death are never fair: they may happen or not.

## 3. What the abstract specification says

`VersionedStore` is a log of change sets. A publish appends to it in one
step; a snapshot is a prefix that never changes; a crash may take back only what was
not acknowledged. `MCLayerStack.Abstract` maps the store to it: the log is what
the active chain shows (`View`), the acknowledged part is what the oldest manifest
that a power loss may leave shows, a snapshot is what a leased chain shows.
Squashes, collections and remounts map to stutters.

Pure algorithms are checked against a reference of another shape:
the merge against line-wise statements about what each side
changed, readers and squashes against the tree a mount shows, the arena
against "the newest lines that fit", a text edit against the split of the
text at its matches, blame against who published each line.

## 4. What is proved

TLAPS proves the safety properties below for every number of actors, resources,
faults and restarts: the bounds that the runs set are arbitrary numbers here. A
theorem that names a property of a run states exactly the formula TLC checks.
The proofs rest on the `ASSUME`s of the modules (sets that are finite, bounds that
are numbers, names that differ), which TLC evaluates in the runs, and on the
library theorems about finite sets.

All proofs have one shape: an inductive invariant `IInv` (`MInv`), shown for the
initial states and for each action, implies the property; the last step is
temporal logic. The properties are not inductive by themselves; what has to be
added is the argument.

| module | theorem | property | what `IInv` adds, and why |
|---|---|---|---|
| `LayerStackProofs` | `StoreInvariant`, `LayersSafe`, `SurvivorsSafe` | `LayersOnDisk`, `SurvivingManifestsIntact` | A collection is safe only because the ids a publish or squash is still making are in no manifest and under no lease, and because the plan lease stays registered until the squash lets it go (`Kept`, `Writer`, `Squasher`, `Down`). Under `NoLateFault`: the fsync after a manifest's rename does not fail (section 5 is what happens when it does) |
| `StorageLockProofs` | `LockInvariant`, `LockIsSafe`, `WakeupSafe` | `LockSafe`, `NoMissedWakeup` | The counters count the guards alive, and the recorded writer holds every exclusive guard (`Held`, `Counters`) |
| `WorkspaceManagerProofs` | `ManagerInvariant`, `MountsAreSafe` | `MountSafe` | A teardown removes a directory because its ledger says holder and fds are gone, so the ledger is true (`Ledger`) and stays so while other calls run (`Control`, `Starts`); a remount releases the lease it replaced because nobody shares it (`Mounts`). No hypothesis |
| `WorkspaceOutcomesProofs` | `OutcomesInvariant`, `NothingWithoutOwner`, `WorkspacesAreOwned` | `Owned` | The pool holds exactly the addresses in use, `manager.json` names what a restart must reap, what is reported gone holds nothing, every lease has an owner (`Pool`, `Files`, `ScratchFound`, `Outcomes`, `Leased`). `NothingWithoutOwner` has no hypothesis; `WorkspacesAreOwned` has those of the run: `~LeakyRelease`, `MaxRemounts <= 1`, `~ReapFaults` |
| `WorkspaceRingProofs` | `OutcomesAreTrue` | `OutcomesTrue` | With `Cardinality(Ws) <= Ring` as well, the ring never forgets: a sequence of distinct members that misses one is shorter than the set |
| `HolderSupervisorProofs` | `SupervisorInvariant`, `AnswersAreTrue`, `HoldersAreWatched` | `AnswersTrue`, `HoldersWatched` | Who has a record and since when, who waits on it, and where the worker is in its loop. A worker step finishes a record, keeps it, or touches none; each kind keeps the promises once |
| `LiveRemountProofs` | `RemountInvariant`, `RemountIsSafe` | `RemountSafe` | Each stage of the switch knows where the one before it left the root (`RootAt`) and the masks (`Masking`), and the account of frozen tasks is complete when the second scan finds nothing new (`Stopping`); an overlay is staged only where a later stage or the destroy deals with it, or its unmount has failed (`Littering`) |
| `GatewayProofs` | `GatewayInvariant`, `GatewayIsSafe` | `GatewaySafe` | No connection is handled by a process that has not written its pid file (`Placed`), so permits add up; client and channel together hold every line the operation wrote (`Told`, `Runs`); a process removes only a socket it bound, unless the path changed hands between its check and its unlink (`raced`) |

`WorkspaceOutcomesProofs` extends `WorkspaceManagerProofs`, and
`WorkspaceRingProofs` extends both: the counting argument needs the theorems
about finite sets, which the larger proofs do without. A leaf that says `Zenon`,
`ZenonT` or `SMTT` names the prover that finds it.

### Only model-checked

- **Liveness** (`WritersGetIn`, `JobsSettle`, `SessionProgress`,
  `ProcessesAnswer`, `SupervisorProgress`, `ServicesProgress`, `DaemonStops`,
  `GatewayProgress`): fairness and `ENABLED` are out of the prover's reach.
- **Properties about what a recursion or a fold computes**: `WellFormed` and
  `ImplementsVersionedStore` (the fold `View`), `StackReadersAgree`,
  `StackSquashKeepsView`, `MergeCorrect`, `PublishKeepsWork`, `RingTrue`, and the
  texts, transcripts and logs of `FilesTrue`, `CommandsTrue` and
  `TelemetryTrue`. Induction over data cannot be carried out with the provers
  at hand.
- **Within reach, but not proved**: `SessionSafe`, `RegistryExact`,
  `OverMeansOver`, `OwnAnswerKept`, `RegistryTrue`, `NothingRemains`, `ExportSafe`,
  `ServicesStop`, `DaemonDrains`, `ArtifactTrue`, `SandboxPrepared`.

## 5. Where the code and its own words differ

Two disagreements have a run of their own, with a counterexample.

- **`squash_late_fault`** (`squash.rs:274`). `commit_squash` takes every error of
  `write_manifest` for "nothing committed" and removes the layers it promoted.
  `write_atomic` also fails when only the fsync of the directory fails, after
  the rename: the manifest on disk then names removed layers. The comment at
  `squash.rs:105-107` says that the old manifest stays valid.
- **`session_stuck`** (`exec_command.rs:59`). An exec that made its own session and
  fails to admit its command (the holder died in between) destroys the session
  while it still holds the session's gate, and waits for it. `destroy_session.rs:68-71`
  says never to wait there while holding the gate. `session_live` therefore
  leaves out the operation `implicit`, and the operation `file` for size.

The others were met while modelling. The properties are stated so that they
hold; each exception is named in the property or is a bound.

Layer store and publishing:
- `list_dir` stops at a layer in which an ancestor of the listed directory is
  opaque, before it takes that layer's own entries (`projection/mod.rs:212`).
- An export does not say that a directory was removed and made again, so the
  base's content of it comes back (`delta.rs:169`; `ExportAgreesUnlessRemade`).
- `merge.rs`: regions that meet are compared by their new lines only (138);
  `Active(i)` may name the wrong line after uneven regions (142;
  `ActiveOriginTrueUnlessUneven`); a final newline dropped on one side joins two
  lines (181).
- An opaque directory whose hidden entries are all ignored is published without
  validation and hides a source file published since (`plan.rs:249`).
- A base that is promoted but not bound is refused at every later boot; the
  creator that loses the race for a shared base gets `ENOTEMPTY` and fails.

Workspaces, sessions, holders:
- A second remount forgets a parked lease (`lifecycle/remount.rs:193`, `147`), so
  nothing releases it; hence `MaxRemounts <= 1`. The parked lease is persisted,
  which `state.rs:23-24` denies.
- A record that the boot could not clean up is kept for a retry, but the first
  creation overwrites the file (`persistence.rs:141`); hence `~ReapFaults`. A
  remount's release that fails leaves its lease behind; hence `~LeakyRelease`.
- Gates of missing sessions are made again and stay (`create_workspace_session.rs:130`
  against `core.rs:289-293`); sessions in `FinalizeFailed` are destroyed on other
  paths than `guarded_destroy` (`shutdown.rs:181` against `model.rs:104-105`).
- Holders: an unclaimed holder that ignores TERM may get no further attempt
  (`holder.rs:1320`); a record is dropped unreaped when the blocking reap of the
  shutdown fails (`holder.rs:895`).
- The check for a dead parent in the namespace's init compares `getppid()` with 1
  where it is 0 (`holder/namespace.rs:189`); the orphan keeps a pipe open that the
  create call reads. `HandshakeEnds` excepts `pidInit = "orphan"` by name.
- A failed start whose termination of the holder fails as well reports the
  failure with the holder alive (`holder.rs:1826-1834`, `1855-1858`); the supervisor
  keeps its record. `HandshakeTrue` excepts it by name (`call = "uncleaned"`).
- A staged overlay whose unmount fails, or whose runner dies, stays mounted below
  its own path; the skip releases its lease and no later remount looks for it
  (`StagingGone` excepts `littered`).
- A lift of the masks that fails half-way, or a runner that dies while they are
  lifted, resumes tasks with masks missing, against `MaskGuard`'s comment.
- A recovery transaction left by a daemon that died blocks later attempts of a
  daemon with the same pid.

Commands and files:
- An edit of a file in a session is a read and a write with the gate released in
  between (`edit.rs:43-78`): the first of two overlapping edits is lost. A killed
  runner leaves its temporary file in the session's tree.
- A dropped audit event does not turn into `unknown` at the next open
  (`audit.rs:24-25`); a torn append swallows the events after it up to the next
  line feed; a text on the ignored route is one event of line 1 by its committer,
  whoever wrote the lines (`resolve.rs:62-66`); the digest of a
  merged file is that of the request. `BlameTrue` is about files none of whose
  events was lost.
- A `/proc` that cannot be listed counts as "no live member" (`wait.rs:159-161`);
  `ScopeTrue` is about runners that can read it.
- A completed yield may come before the last drain of the output
  (`dto.rs:50-52` against `yield.rs:118-120`); an evicted session is read from offset 0.

Daemon and host:
- An autosquash worker that panics is never replaced (`worker.rs:95`).
- `/files/list` drops its blocking permit with its client, so more dispatches run
  than `rpc/runtime.rs:50` allows; an RPC answer is written without a deadline
  (`connection.rs:34`), so that a client which stops reading, or work which hangs,
  holds up the shutdown (`HeldUp`).
- An RPC connection that is being refused when the listeners are aborted is
  dropped without an answer (`lifecycle.rs:121-127`, `222-231`); `AcceptedAnswered`
  excepts it (`answer = "cut"`). Refusals over HTTP are waited for.
- `serve --spawn` takes any live process with the recorded pid for the daemon.
- The pidfd of `PinnedRootProcess` keeps an identity, not a number
  (`cgroup_setup.rs:366-368`): a foreign process may be moved, and the
  preparation then fails.
- `activity_revision` returns to 0 when the gateway restarts.
- The ring's history is lost when the manager dies between record and header of
  a full ring, or when the clock steps back.
- A destroy ignores that the ring file could not be removed
  (`destroy_sandbox.rs:32`) and reports success with the file in place;
  `NothingRemains` excepts exactly these (`strayRings`).
- The pages of an export carry no digest: a reply with the right offset and length
  and other bytes passes all checks (`export_changes.rs:192-252`). `StreamWhole` says
  that the bytes of the daemon arrive once and in order; bytes of another origin are
  the value 0, which it lets stand.
- An export's spool may stay until the next boot; an export whose last
  reply is lost cannot be resumed.
- The gateway drops connections in flight when it stops, a streaming operation
  outlives its connection, and the clean-up removes the pid file of another process. The check of the socket's identity and its
  unlink are two calls (`listener.rs:211-218`): another gateway's socket may be
  removed in between.

Telemetry:
- The daemon's sink has the configured budget, the runner's the default
  (`observability/service.rs:51-55`, `shell_exec.rs:129`). Below the default the
  store outgrows the configured budget, against
  `docs/sandbox-observability-resource-isolation-spec.md:219-229`; above it the
  runner compacts the daemon's segments. `BudgetKept` is about the budget of the
  producer that wrote last.
- A query that meets a rotation misses a segment; `.compact.<pid>` files of dead
  producers stay; a late long record may evict newer ones; the two readers may
  keep different records of one millisecond; events at the root of a trace are not shown.
- A diagnostic sample may be older than its counters, and a clock set back drops samples.

## 6. What is not modelled

`PROJECT.json` lists every component with its status. Left out are:

- **data and tables**: the operation contract and catalog, the registries that
  decode arguments, the shapes of responses, the command line and MCP front ends,
  the wire codec, the configuration (its values are constants here);
- **kernel interfaces in a fixed order**: seccomp and capabilities, `setns`, the
  encoding of netlink messages, mount options; that such a call fails is a step
  of the module that makes it;
- **stateless readers**: collectors of cgroup, disk and layer statistics, the
  resource sampler, the observability queries;
- **variants of what is modelled**: the installer that runs daemons without
  containers, TCP and Windows listeners of the gateway, the duplicate
  registration of a holder;
- `xtask`, which checks the source tree and is not part of the running system.

Components of status `partly` say in their note what is missing: limits that
only reject, the JSON and tar formats, file modes and times, log wording.
