---------------------------- MODULE LiveRemount ----------------------------
(***************************************************************************)
(* The live remount of one session: its overlay is replaced by one on the  *)
(* squashed chain of layers while its commands stay alive.                 *)
(*   - workspace/src/lifecycle/remount.rs: the transaction, under the      *)
(*     session's gate: new lease, quiesce, switch, classification;         *)
(*   - namespace-execution/src/quiesce.rs: finding, stopping and           *)
(*     inspecting every task of the session's mount namespace;             *)
(*   - namespace-process/src/runner/setns/remount_overlay.rs: the staged   *)
(*     switch, in a process of its own that may die at any step;           *)
(*   - operation: remount_session.rs and the end of the sweep in           *)
(*     actions/squash.rs, which destroys a session whose mount is unknown. *)
(* Next to it the session's tasks fork, open files and exit, and commands  *)
(* are admitted whenever the gate is free.                                 *)
(*                                                                         *)
(* Chain c is the c-th chain of layers the session is mounted on; the      *)
(* lease, the overlay mount and the layers of a chain have its number.     *)
(* What a lease protects is LayerStack's business, what the record on disk *)
(* makes of a remount WorkspaceManager's.                                  *)
(***************************************************************************)
EXTENDS Naturals, FiniteSets

CONSTANTS
  Tasks,
  Cgroups,         \* whether sessions have a cgroup: a set of BOOLEANs
  HiddenPaths,     \* number of paths masked in the namespace
  MaxChain,        \* remounts of the session
  MaxSwitchFaults  \* failing system calls and dying runners

ASSUME RemountAssumption ==
  /\ IsFiniteSet(Tasks) /\ Cgroups \subseteq BOOLEAN
  /\ {HiddenPaths, MaxChain, MaxSwitchFaults} \subseteq Nat

VARIABLES
  cgroup,                   \* the session has one
  task, fd,                 \* each task's state, and the chain a file of which it has open
  step, branch,             \* where the transaction stands; how the quiesce ended
  scan, found, frozen,      \* tasks still to visit, tasks found, the guard FrozenTasks
  at, next,                 \* the runner's step; the path it lifts next
  root, staging, rollback,  \* overlays: on the workspace root, staged, moved away (a set)
  masks,                    \* how many masks each hidden path carries
  bare,                     \* a mask could not be kept or put back
  strays, littered,         \* staged overlays left mounted (a set); one could not be unmounted
  report,                   \* the runner's report
  leased, record, parkedLease,   \* leases held; the chain and the parked lease of the handle
  failures

liveVars == <<cgroup, task, fd, step, branch, scan, found, frozen, at, next, root, staging, rollback,
                 masks, bare, strays, littered, report, leased, record, parkedLease, failures>>
taskVars == <<task, fd>>
quiesceVars == <<scan, found, frozen, branch>>
runnerVars == <<at, next, root, staging, rollback, masks, bare, strays, littered, report>>
handleVars == <<leased, record, parkedLease>>

Nothing == MaxChain + 1       \* no chain
Missing == [first |-> FALSE, verified |-> FALSE, detail |-> "missing"]
Report(first, verified, detail) == [first |-> first, verified |-> verified, detail |-> detail]

SessionGateFree == step \in {"idle", "faulty"}
InNamespace(t) == task[t] \in {"run", "stop"}
Alive(t) == task[t] \in {"out", "run", "stop"}

RemountInit ==
  /\ cgroup \in Cgroups
  /\ task \in [Tasks -> {"new", "run"}] /\ fd = [t \in Tasks |-> Nothing]
  /\ step = "idle" /\ branch = "none" /\ scan = {} /\ found = {} /\ frozen = {}
  /\ at = "none" /\ next = 1
  /\ root = 0 /\ staging = Nothing /\ rollback = {}
  /\ masks = [k \in 1..HiddenPaths |-> 1] /\ bare = FALSE
  /\ strays = {} /\ littered = FALSE /\ report = Missing
  /\ leased = {0} /\ record = 0 /\ parkedLease = Nothing
  /\ failures = 0

CallFails == failures < MaxSwitchFaults /\ failures' = failures + 1
CallWorks == UNCHANGED failures

(***************************************************************************)
(* The tasks.  A command's runner is in the cgroup before it gets its      *)
(* request, and joins the namespaces some time after the gate is free.     *)
(***************************************************************************)
TaskStep == UNCHANGED <<cgroup, step, quiesceVars, runnerVars, handleVars, failures>>

AdmitTask(t) ==
  /\ SessionGateFree /\ task[t] = "new"
  /\ task' = [task EXCEPT ![t] = "out"]
  /\ UNCHANGED fd /\ TaskStep
JoinNamespace(t) ==
  /\ task[t] = "out"
  /\ task' = [task EXCEPT ![t] = "run"]
  /\ UNCHANGED fd /\ TaskStep
Fork(t, u) ==
  /\ task[t] = "run" /\ task[u] = "new"
  /\ task' = [task EXCEPT ![u] = "run"]
  /\ fd' = [fd EXCEPT ![u] = fd[t]]
  /\ TaskStep
OpenFile(t) ==
  /\ task[t] = "run" /\ root # Nothing /\ fd[t] = Nothing
  /\ fd' = [fd EXCEPT ![t] = root]
  /\ UNCHANGED task /\ TaskStep
CloseFile(t) ==
  /\ task[t] = "run" /\ fd[t] # Nothing
  /\ fd' = [fd EXCEPT ![t] = Nothing]
  /\ UNCHANGED task /\ TaskStep
\* A task exits, or is killed by the cancellation of its command.
TaskExits(t) ==
  /\ Alive(t)
  /\ task' = [task EXCEPT ![t] = "dead"]
  /\ fd' = [fd EXCEPT ![t] = Nothing]
  /\ TaskStep
\* A signalled task runs on, and may still fork, until it stops.
StopsNow(t) ==
  /\ step \in {"signal", "poll"} /\ t \in frozen /\ task[t] = "run"
  /\ task' = [task EXCEPT ![t] = "stop"]
  /\ UNCHANGED fd /\ TaskStep

(***************************************************************************)
(* The quiesce.                                                            *)
(***************************************************************************)
\* Dropping the guard continues every task in it.
Resume == task' = [t \in Tasks |-> IF t \in frozen /\ task[t] = "stop" THEN "run" ELSE task[t]]

Quiescing == UNCHANGED <<cgroup, fd, runnerVars>>

\* QuiesceOutcome::Blocked and a clean skip: tasks resumed, new lease released.
BackOut ==
  /\ Resume /\ frozen' = {} /\ scan' = {} /\ found' = {} /\ branch' = "none"
  /\ step' = "idle"
  /\ leased' = leased \ {record + 1}
  /\ UNCHANGED <<cgroup, fd, record, parkedLease>>
Blocked == BackOut /\ UNCHANGED runnerVars

\* acquire_rewritten_lease: a squash has made a newer chain.
Rewrite ==
  /\ step = "idle" /\ record < MaxChain
  /\ leased' = leased \cup {record + 1}
  /\ step' = "check"
  /\ CallWorks /\ UNCHANGED <<task, quiesceVars, record, parkedLease>> /\ Quiescing

\* A child mount below the workspace, or an unreadable mountinfo, blocks.
CheckHolderMounts ==
  /\ step = "check"
  /\ \/ CallFails /\ Blocked
     \/ /\ step' = "scan" /\ scan' = Tasks /\ found' = {}
        /\ CallWorks /\ UNCHANGED <<task, frozen, branch, handleVars>> /\ Quiescing

\* The scan of /proc looks at one task after the other.
Visit(t) ==
  /\ step \in {"scan", "rescan"} /\ t \in scan
  /\ scan' = scan \ {t}
  /\ found' = IF InNamespace(t) THEN found \cup {t} ELSE found
  /\ CallWorks /\ UNCHANGED <<task, step, frozen, branch, handleVars>> /\ Quiescing

\* Then the cgroup's members are read at once; one of them outside the
\* namespace is an escape.
Members == IF cgroup THEN {t \in Tasks : Alive(t)} ELSE {}
Escaped == \E t \in Members : ~InNamespace(t)
Discovered == found \cup Members

LaunchRunner(how) ==
  /\ step' = "switch" /\ branch' = how
  /\ at' = "lift" /\ next' = 1 /\ report' = Missing
  /\ UNCHANGED <<cgroup, taskVars, frozen, root, staging, rollback, masks, bare, strays, littered, handleVars>>

Discover ==
  /\ step = "scan" /\ scan = {} /\ CallWorks
  /\ \/ Escaped /\ Blocked
     \/ /\ ~Escaped /\ Discovered = {}
        /\ LaunchRunner("empty") /\ UNCHANGED <<scan, found>>
     \/ /\ ~Escaped /\ Discovered # {}
        /\ step' = "signal" /\ scan' = Discovered
        /\ UNCHANGED <<task, found, frozen, branch, handleVars>> /\ Quiescing

\* A task that is gone is skipped; any other failure gives up.
Signal(t) ==
  /\ step = "signal" /\ t \in scan
  /\ \/ CallFails /\ Blocked
     \/ /\ scan' = scan \ {t}
        /\ frozen' = IF task[t] = "dead" THEN frozen ELSE frozen \cup {t}
        /\ CallWorks /\ UNCHANGED <<task, step, found, branch, handleVars>> /\ Quiescing
Signalled ==
  /\ step = "signal" /\ scan = {} /\ CallWorks
  /\ \/ frozen = {} /\ LaunchRunner("vanished") /\ UNCHANGED <<scan, found>>
     \/ /\ frozen # {} /\ step' = "poll"
        /\ UNCHANGED <<task, quiesceVars, handleVars>> /\ Quiescing

\* poll_all_stopped: within the budget, or blocked.
PollAllStopped ==
  /\ step = "poll" /\ CallWorks
  /\ \/ Blocked
     \/ /\ \A t \in frozen : task[t] \in {"stop", "dead"}
        /\ step' = "rescan" /\ scan' = Tasks /\ found' = {}
        /\ UNCHANGED <<task, frozen, branch, handleVars>> /\ Quiescing

Recheck ==
  /\ step = "rescan" /\ scan = {} /\ CallWorks
  /\ \/ (Escaped \/ ~(Discovered \subseteq frozen)) /\ Blocked
     \/ /\ ~Escaped /\ Discovered \subseteq frozen
        /\ step' = "inspect"
        /\ UNCHANGED <<task, quiesceVars, handleVars>> /\ Quiescing

\* A file below the workspace root, the working directory, a mapping: all of
\* them are files open on the overlay that is mounted there.
Pinned(t) == fd[t] # Nothing /\ fd[t] = root
InspectFrozen ==
  /\ step = "inspect"
  /\ \/ CallFails /\ Blocked
     \/ (\E t \in frozen : Pinned(t)) /\ CallWorks /\ Blocked
     \/ (\A t \in frozen : ~Pinned(t)) /\ CallWorks /\ LaunchRunner("frozen") /\ UNCHANGED <<scan, found>>

(***************************************************************************)
(* The staged switch.  Until the explicit restore every return puts the    *)
(* masks back (MaskGuard); before the first move it unmounts the staging   *)
(* overlay.  Both are attempts only.                                       *)
(***************************************************************************)
Switching == UNCHANGED <<cgroup, taskVars, step, quiesceVars, strays, handleVars>>
Runs(s) == step = "switch" /\ at = s

Masked(m, ks) == [k \in DOMAIN m |-> IF k \in ks THEN m[k] + 1 ELSE m[k]]
Remask(m) ==
  \/ masks' = Masked(m, DOMAIN m) /\ UNCHANGED bare
  \/ masks' = m /\ bare' = TRUE
\* Variant: a stage that fails leaves the staged overlay where it is.
StrictUnmount_Skipped == UNCHANGED <<staging, littered>>
StrictUnmount ==
  \/ staging' = Nothing /\ UNCHANGED littered
  \/ littered' = TRUE /\ UNCHANGED staging

EndWith(r) == at' = "done" /\ report' = r /\ UNCHANGED next
GoTo(s) == at' = s /\ UNCHANGED <<next, report>>

\* strict_unmount of one mask; a path that carries none is fine.  A failure
\* returns before there is a guard.
LiftNext ==
  /\ Runs("lift") /\ next <= HiddenPaths
  /\ \/ /\ masks' = [masks EXCEPT ![next] = IF @ = 0 THEN 0 ELSE @ - 1]
        /\ next' = next + 1 /\ CallWorks /\ UNCHANGED <<at, report, bare>>
     \/ CallFails /\ EndWith(Report(FALSE, FALSE, "failed")) /\ bare' = TRUE /\ UNCHANGED masks
  /\ UNCHANGED <<root, staging, rollback, littered>> /\ Switching

\* The layers of the new chain lie below the masks.
Visible == \A k \in DOMAIN masks : masks[k] = 0
StageOverlay ==
  /\ Runs("lift") /\ next > HiddenPaths
  /\ \/ Visible /\ CallWorks /\ staging' = record + 1 /\ GoTo("open") /\ UNCHANGED <<masks, bare>>
     \/ /\ (~Visible /\ CallWorks) \/ CallFails
        /\ Remask(masks) /\ EndWith(Report(FALSE, FALSE, "failed")) /\ UNCHANGED staging
  /\ UNCHANGED <<root, rollback, littered>> /\ Switching
OpenRoots ==
  /\ Runs("open")
  /\ \/ CallWorks /\ GoTo("restore") /\ UNCHANGED <<staging, littered, masks, bare>>
     \/ CallFails /\ StrictUnmount /\ Remask(masks) /\ EndWith(Report(FALSE, FALSE, "failed"))
  /\ UNCHANGED <<root, rollback>> /\ Switching
\* A restore that fails half-way is followed by the guard's: some paths are
\* masked twice.
RestoreMasks ==
  /\ Runs("restore")
  /\ \/ CallWorks /\ masks' = Masked(masks, DOMAIN masks) /\ GoTo("probe") /\ UNCHANGED <<staging, littered, bare>>
     \/ /\ CallFails /\ StrictUnmount /\ EndWith(Report(FALSE, FALSE, "failed"))
        /\ \E k \in 0..(HiddenPaths - 1) : Remask(Masked(masks, 1..k))
  /\ UNCHANGED <<root, rollback>> /\ Switching
ProbeStaging ==
  /\ Runs("probe")
  /\ \/ CallWorks /\ GoTo("move") /\ UNCHANGED <<staging, littered>>
     \/ CallFails /\ StrictUnmount /\ EndWith(Report(FALSE, FALSE, "failed"))
  /\ UNCHANGED <<root, rollback, masks, bare>> /\ Switching
MoveOldAway ==
  /\ Runs("move")
  /\ \/ /\ CallWorks /\ rollback' = rollback \cup {root} /\ root' = Nothing
        /\ GoTo("second") /\ UNCHANGED <<staging, littered>>
     \/ CallFails /\ StrictUnmount /\ EndWith(Report(FALSE, FALSE, "failed")) /\ UNCHANGED <<root, rollback>>
  /\ UNCHANGED <<masks, bare>> /\ Switching
MoveNewIn ==
  /\ Runs("second")
  /\ \/ CallWorks /\ root' = staging /\ staging' = Nothing /\ GoTo("visible")
     \/ CallFails /\ EndWith(Report(TRUE, FALSE, "failed")) /\ UNCHANGED <<root, staging>>
  /\ UNCHANGED <<rollback, masks, bare, littered>> /\ Switching
ProbeVisible ==
  /\ Runs("visible")
  /\ \/ CallWorks /\ GoTo("unmount")
     \/ CallFails /\ EndWith(Report(TRUE, FALSE, "failed"))
  /\ UNCHANGED <<root, staging, rollback, masks, bare, littered>> /\ Switching
\* The old overlay is busy while a task has a file of it open.
UnmountRollback ==
  /\ Runs("unmount")
  /\ \/ /\ \A t \in Tasks : fd[t] # record
        /\ CallWorks /\ rollback' = rollback \ {record} /\ EndWith(Report(TRUE, TRUE, "switched"))
     \/ /\ \E t \in Tasks : fd[t] = record
        /\ CallWorks /\ EndWith(Report(TRUE, TRUE, "busy")) /\ UNCHANGED rollback
     \/ CallFails /\ EndWith(Report(TRUE, TRUE, "failed")) /\ UNCHANGED rollback
  /\ UNCHANGED <<root, staging, masks, bare, littered>> /\ Switching
\* It crashes or times out; a report it has written is dropped in that case.
RunnerDies ==
  /\ step = "switch" /\ CallFails /\ at # "lost"
  /\ at' = "lost" /\ report' = Missing
  /\ bare' = (bare \/ \E k \in DOMAIN masks : masks[k] = 0)
  /\ littered' = (littered \/ staging # Nothing)
  /\ UNCHANGED <<next, root, staging, rollback, masks>> /\ Switching

(***************************************************************************)
(* The end of the transaction, and of a session with an unknown mount.     *)
(***************************************************************************)
\* Variant: a runner that left no report is taken to have done nothing.
CleanSkip_WhenMissing == ~report.first
\* classify_remount_report: without a report the mount on the workspace root
\* is compared with the one before the switch.
CleanSkip == IF report = Missing THEN root = record ELSE ~report.first
Verified == report.verified /\ report.detail \in {"switched", "busy"}

Ended == step = "switch" /\ at \in {"done", "lost"} /\ CallWorks
\* An overlay that is still staged stays mounted, and no later remount looks
\* for it: the next one stages below a path of its own.
RunnerGone ==
  /\ at' = "none" /\ report' = Missing
  /\ staging' = Nothing /\ strays' = strays \cup ({staging} \ {Nothing})
  /\ UNCHANGED <<next, root, rollback, masks, bare, littered>>

Skip == Ended /\ CleanSkip /\ BackOut /\ RunnerGone
Switch ==
  /\ Ended /\ ~CleanSkip /\ Verified
  /\ Resume /\ frozen' = {} /\ branch' = "none" /\ step' = "idle"
  /\ leased' = IF report.detail = "busy" THEN leased ELSE leased \ {record}
  /\ parkedLease' = IF report.detail = "busy" THEN record ELSE Nothing
  /\ record' = record + 1
  /\ UNCHANGED <<cgroup, fd, scan, found>> /\ RunnerGone
\* The frozen tasks are never resumed; the session is destroyed when the whole
\* sweep is done, under the gate again.
RemountFails ==
  /\ Ended /\ ~CleanSkip /\ ~Verified
  /\ step' = "faulty" /\ parkedLease' = record + 1
  /\ UNCHANGED <<cgroup, taskVars, quiesceVars, leased, record>> /\ RunnerGone
DestroyFaulty ==
  /\ step = "faulty" /\ CallWorks
  /\ step' = "gone"
  /\ task' = [t \in Tasks |-> "dead"] /\ fd' = [t \in Tasks |-> Nothing]
  /\ root' = Nothing /\ rollback' = {} /\ strays' = {}
  /\ leased' = leased \ {record, parkedLease}
  /\ UNCHANGED <<cgroup, quiesceVars, at, next, staging, masks, bare, littered, report, record, parkedLease>>

RemountTasks ==
  \/ \E t \in Tasks : AdmitTask(t) \/ JoinNamespace(t) \/ OpenFile(t) \/ CloseFile(t) \/ TaskExits(t) \/ StopsNow(t)
  \/ \E t, u \in Tasks : Fork(t, u)
QuiesceHolderScope ==
  \/ Rewrite \/ CheckHolderMounts \/ Discover \/ Signalled \/ PollAllStopped \/ Recheck \/ InspectFrozen
  \/ \E t \in Tasks : Visit(t) \/ Signal(t)
StagedSwitch ==
  \/ LiftNext \/ StageOverlay \/ OpenRoots \/ RestoreMasks \/ ProbeStaging \/ MoveOldAway
  \/ MoveNewIn \/ ProbeVisible \/ UnmountRollback \/ RunnerDies
RemountNext == RemountTasks \/ QuiesceHolderScope \/ StagedSwitch \/ Skip \/ Switch \/ RemountFails \/ DestroyFaulty

RemountSpec == RemountInit /\ [][RemountNext]_liveVars

(***************************************************************************)
(* Properties.                                                             *)
(***************************************************************************)
RemountTypeOK ==
  /\ cgroup \in BOOLEAN
  /\ task \in [Tasks -> {"new", "out", "run", "stop", "dead"}] /\ fd \in [Tasks -> 0..Nothing]
  /\ step \in {"idle", "check", "scan", "signal", "poll", "rescan", "inspect", "switch", "faulty", "gone"}
  /\ branch \in {"none", "empty", "vanished", "frozen"}
  /\ {scan, found, frozen} \subseteq SUBSET Tasks
  /\ {root, staging, record, parkedLease} \subseteq 0..Nothing /\ {rollback, strays, leased} \subseteq SUBSET (0..MaxChain)
  /\ masks \in [1..HiddenPaths -> Nat]

\* With a cgroup, no task of the session runs while its mounts are moved, however
\* tasks fork, exit and join during the scans - unless every task that was found
\* had gone when it was to be signalled (the early return of quiesce_holder_scope).
SwitchUnobserved ==
  step = "switch" /\ cgroup /\ branch # "vanished" => \A t \in Tasks : task[t] \notin {"out", "run"}

\* Every way out of the transaction but the faulty one continues what it stopped.
ResumedUnlessFaulty == step = "idle" => \A t \in Tasks : task[t] # "stop"

\* The masks are back when the runner is gone, if no mask failed and no runner
\* died while they were lifted.
MasksBack == step # "switch" /\ ~bare => \A k \in DOMAIN masks : masks[k] > 0

\* The tasks of a session neither see the switch nor are left stopped or
\* unmasked by it (quiesce_holder_scope, MaskGuard).
TasksUndisturbed == RemountTypeOK /\ SwitchUnobserved /\ ResumedUnlessFaulty /\ MasksBack

\* Every overlay the session can reach has its lease: the one on the workspace
\* root, the old one at the rollback point, the new one being staged.
MountsLeased ==
  /\ {root} \cup rollback \subseteq leased \cup {Nothing}
  /\ step = "switch" => staging \in leased \cup {Nothing}
\* Between transactions the handle names what is mounted.
RecordTrue == step = "idle" => root = record
\* What the runner reports is so.
ReportTrue ==
  report # Missing =>
    /\ ~report.first => root = record
    /\ report.verified => root = record + 1
    /\ report.detail = "switched" => record \notin rollback
\* A skipped or finished remount leaves no staged overlay mounted, unless its
\* unmount failed or the runner died with it; its lease is released in any case.
StagingGone == step = "idle" /\ ~littered => strays = {}

\* Whatever fails or dies in between, the mounts, the leases and the handle agree
\* (classify_remount_report and the arms of execute_remount).
MountsAccounted == MountsLeased /\ RecordTrue /\ ReportTrue /\ StagingGone

\* A live remount, whatever fails in it, is invisible to the tasks of the
\* session and leaves nothing behind that no lease and no record covers.
RemountSafe == TasksUndisturbed /\ MountsAccounted
=============================================================================
