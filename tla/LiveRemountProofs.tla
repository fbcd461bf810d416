-------------------------- MODULE LiveRemountProofs --------------------------
(***************************************************************************)
(* A live remount is safe, for any number of tasks, hidden paths and       *)
(* layers, and wherever it fails.                                          *)
(*                                                                         *)
(* What the runner reports is true only because each stage of the switch   *)
(* knows where the previous one left the root, and a task cannot run       *)
(* during the switch only because the account of frozen tasks is complete  *)
(* when the second scan finds nothing new. IInv says both, stage by stage. *)
(***************************************************************************)
EXTENDS LiveRemount, TLAPS

\* The steps of a remount before the switch.
Quiescent == {"check", "scan", "signal", "poll", "rescan", "inspect"}
\* The stages of the staged switch in the runner.
Stages == {"lift", "open", "restore", "probe", "move", "second", "visible", "unmount", "done", "lost"}
\* The outcomes a runner reports.
Details == {"missing", "failed", "switched", "busy"}

\* Types of all variables.
TypesFull ==
  /\ RemountTypeOK
  /\ at \in Stages \cup {"none"} /\ next \in Nat \ {0} /\ bare \in BOOLEAN
  /\ report \in [first : BOOLEAN, verified : BOOLEAN, detail : Details]
  /\ record \in 0 .. MaxChain
  /\ step = "switch" <=> at # "none"

\* A stopped task is one the remount has frozen, nothing is frozen before the
\* scan, and once all are frozen they stay so: the switch is seen by no
\* running task.
Stopping ==
  /\ \A t \in Tasks : task[t] = "stop" => t \in frozen
  /\ step \in {"idle", "check", "scan"} => frozen = {}
  /\ step \in {"rescan", "inspect", "switch"} => \A t \in frozen : task[t] \in {"stop", "dead"}
  /\ step = "inspect" /\ cgroup => \A t \in Tasks : task[t] \notin {"out", "run"}
  /\ SwitchUnobserved

\* As long as no restore has failed, a hidden path that is to be masked is
\* masked.
Masking ==
  ~bare =>
    /\ at = "lift" => \A k \in 1 .. HiddenPaths : k >= next => masks[k] > 0
    /\ at \notin {"lift", "open", "restore"} => \A k \in 1 .. HiddenPaths : masks[k] > 0

\* Where the switch is, the root is the old overlay, nothing, or the new one,
\* and the report says which.
RootAt ==
  /\ step \in {"idle"} \cup Quiescent => root = record
  /\ at \in {"lift", "open", "restore", "probe", "move"} => root = record
  /\ at = "second" => root = Nothing
  /\ at \in {"visible", "unmount"} => root = record + 1
  /\ at \in {"open", "restore", "probe", "move", "second"} => staging = record + 1
  /\ staging \in {record + 1, Nothing}
  /\ root \in {record, record + 1, Nothing}
  /\ at # "done" => report = Missing
  /\ at = "done" => report.detail # "missing"
  /\ ReportTrue

\* The overlays that are mounted, staged or pinned have their leases.
Leasing ==
  /\ step # "gone" => record \in leased
  /\ step \in Quiescent \cup {"switch", "faulty"} => record < MaxChain /\ record + 1 \in leased
  /\ step = "gone" => root = Nothing /\ rollback = {}
  /\ step # "switch" => staging = Nothing
  /\ rollback \subseteq leased /\ rollback \subseteq 0 .. record

\* A staged overlay is unmounted, moved to the root or left to the destroy of
\* the session, unless one could not be unmounted.
Littering ==
  /\ strays # {} /\ step \notin {"faulty", "gone"} => littered
  /\ staging # Nothing /\ at \in {"lift", "visible", "unmount", "lost"} => littered
  /\ staging # Nothing /\ at = "done" => littered \/ (report.first /\ ~report.verified)

\* The inductive invariant.
IInv == TypesFull /\ Stopping /\ Masking /\ RootAt /\ Leasing /\ Littering

\* The bounds are numbers.
LEMMA Numbers == MaxChain \in Nat /\ HiddenPaths \in Nat /\ Cgroups \subseteq BOOLEAN
BY RemountAssumption, Zenon

(* The variables of each group, typed. *)
TaskTypes == task \in [Tasks -> {"new", "out", "run", "stop", "dead"}] /\ fd \in [Tasks -> 0 .. Nothing]
\* The variables of the freeze.
QuiesceTypes ==
  /\ branch \in {"none", "empty", "vanished", "frozen"}
  /\ scan \subseteq Tasks /\ found \subseteq Tasks /\ frozen \subseteq Tasks
\* The variables of the runner.
RunnerTypes ==
  /\ at \in Stages \cup {"none"} /\ next \in Nat \ {0} /\ bare \in BOOLEAN
  /\ report \in [first : BOOLEAN, verified : BOOLEAN, detail : Details]
  /\ root \in 0 .. Nothing /\ staging \in 0 .. Nothing /\ rollback \subseteq 0 .. MaxChain
  /\ strays \subseteq 0 .. MaxChain
  /\ masks \in [1 .. HiddenPaths -> Nat]
\* The variables of the handle.
HandleTypes ==
  /\ record \in 0 .. MaxChain /\ parkedLease \in 0 .. Nothing /\ leased \subseteq 0 .. MaxChain
\* The place of the remount.
StepTypes ==
  /\ cgroup \in BOOLEAN
  /\ step \in {"idle", "check", "scan", "signal", "poll", "rescan", "inspect", "switch", "faulty", "gone"}
  /\ step = "switch" <=> at # "none"

\* The types are those of the groups.
LEMMA TypeParts ==
  TypesFull <=> TaskTypes /\ QuiesceTypes /\ RunnerTypes /\ HandleTypes /\ StepTypes
<1>1. record \in 0 .. MaxChain => record \in 0 .. Nothing
  BY Numbers DEF Nothing
<1> QED BY <1>1, Zenon DEF TypesFull, RemountTypeOK, TaskTypes, QuiesceTypes, RunnerTypes, HandleTypes, StepTypes

\* And so after a step.
LEMMA TypesNext ==
  ASSUME TaskTypes', QuiesceTypes', RunnerTypes', HandleTypes', StepTypes'
  PROVE  TypesFull'
<1>1. record' \in 0 .. MaxChain => record' \in 0 .. Nothing
  BY Numbers DEF Nothing
<1>2. record' \in 0 .. Nothing
  BY <1>1, Zenon DEF HandleTypes
<1> QED BY <1>2, Zenon DEF TypesFull, RemountTypeOK, TaskTypes, QuiesceTypes, RunnerTypes, HandleTypes, StepTypes, Nothing

\* The lower chains and Nothing, which is none of them.
LEMMA Chains ==
  ASSUME HandleTypes
  PROVE  /\ record \in Nat /\ record # Nothing /\ Nothing \in Nat /\ Nothing \in 0 .. Nothing
         /\ 0 .. MaxChain \subseteq 0 .. Nothing /\ Nothing \notin 0 .. MaxChain
         /\ record < MaxChain => record + 1 \in 0 .. MaxChain /\ record + 1 # Nothing
         /\ record + 1 \in 0 .. Nothing
BY Numbers DEF HandleTypes, Nothing

\* The tasks of the session keep the types.
LEMMA TypesOfTasks ==
  ASSUME TypesFull, RemountTasks
  PROVE  TypesFull'
<1>0. TaskTypes /\ QuiesceTypes /\ RunnerTypes /\ HandleTypes /\ StepTypes
  BY TypeParts, Zenon
<1>1. Nothing \in 0 .. Nothing /\ root \in 0 .. Nothing
  BY <1>0, Chains, Zenon DEF RunnerTypes
<1>2. UNCHANGED <<cgroup, step, quiesceVars, runnerVars, handleVars, failures>> /\ TaskTypes'
  BY <1>0, <1>1, Zenon DEF RemountTasks, AdmitTask, JoinNamespace, OpenFile, CloseFile, TaskExits, StopsNow, Fork,
       TaskStep, TaskTypes, Nothing
<1>3. QuiesceTypes' /\ RunnerTypes' /\ HandleTypes' /\ StepTypes'
  BY <1>0, <1>2, Zenon DEF quiesceVars, runnerVars, handleVars, QuiesceTypes, RunnerTypes, HandleTypes, StepTypes, Nothing
<1> QED BY <1>2, <1>3, TypesNext, Zenon

\* Resuming the frozen tasks gives every task a state.
LEMMA ResumeTypes ==
  ASSUME TaskTypes, Resume
  PROVE  task' \in [Tasks -> {"new", "out", "run", "stop", "dead"}]
BY Zenon DEF TaskTypes, Resume

\* No report is a report.
LEMMA MissingType == Missing \in [first : BOOLEAN, verified : BOOLEAN, detail : Details]
BY Zenon DEF Missing, Details

\* The freeze keeps the types.
LEMMA TypesOfQuiesce ==
  ASSUME TypesFull, RootAt, Leasing, QuiesceHolderScope
  PROVE  TypesFull'
<1>0. TaskTypes /\ QuiesceTypes /\ RunnerTypes /\ HandleTypes /\ StepTypes
  BY TypeParts, Zenon
<1> USE DEF quiesceVars, runnerVars, handleVars, taskVars
<1>1. CASE Blocked /\ step \in Quiescent
  <2>1. TaskTypes'
    BY <1>0, <1>1, ResumeTypes, Zenon DEF Blocked, BackOut, TaskTypes, Nothing
  <2>2. QuiesceTypes' /\ RunnerTypes'
    BY <1>0, <1>1, Zenon DEF Blocked, BackOut, QuiesceTypes, RunnerTypes, Nothing
  <2>3. HandleTypes' /\ StepTypes'
    BY <1>0, <1>1, Zenon DEF Blocked, BackOut, HandleTypes, StepTypes, Nothing, Quiescent
  <2> QED BY <2>1, <2>2, <2>3, TypesNext, Zenon
<1>2. ASSUME NEW how \in {"empty", "vanished", "frozen"}, LaunchRunner(how), UNCHANGED <<scan, found>>, step \in Quiescent
      PROVE  TypesFull'
  <2>1. TaskTypes' /\ QuiesceTypes' /\ HandleTypes' /\ StepTypes'
    BY <1>0, <1>2, Zenon DEF LaunchRunner, TaskTypes, QuiesceTypes, HandleTypes, StepTypes, Nothing
  <2>2. RunnerTypes'
    BY <1>0, <1>2, MissingType DEF LaunchRunner, RunnerTypes, Nothing, Stages
  <2> QED BY <2>1, <2>2, TypesNext, Zenon
<1>3. CASE Rewrite
  <2>1. TaskTypes' /\ QuiesceTypes' /\ RunnerTypes' /\ StepTypes'
    BY <1>0, <1>3, Zenon DEF Rewrite, Quiescing, TaskTypes, QuiesceTypes, RunnerTypes, StepTypes, Nothing
  <2>2. HandleTypes'
    BY <1>0, <1>3, Chains, Zenon DEF Rewrite, HandleTypes, Nothing
  <2> QED BY <2>1, <2>2, TypesNext, Zenon
<1>4. ASSUME step \in Quiescent, step' \in Quiescent, Quiescing, UNCHANGED <<task, branch, handleVars>>,
             scan' \subseteq Tasks, found' \subseteq Tasks, frozen' \subseteq Tasks
      PROVE  TypesFull'
  <2>1. TaskTypes' /\ QuiesceTypes' /\ RunnerTypes' /\ HandleTypes'
    BY <1>0, <1>4, Zenon DEF Quiescing, TaskTypes, QuiesceTypes, RunnerTypes, HandleTypes, Nothing
  <2>2. StepTypes'
    BY <1>0, <1>4, Zenon DEF StepTypes, Quiescent, Quiescing
  <2> QED BY <2>1, <2>2, TypesNext, Zenon
<1>5. scan \subseteq Tasks /\ found \subseteq Tasks /\ frozen \subseteq Tasks /\ Discovered \subseteq Tasks
  BY <1>0, Zenon DEF QuiesceTypes, Discovered, Members
<1> USE DEF Quiescent
<1>6. CASE CheckHolderMounts
  BY <1>1, <1>4, <1>5, <1>6, Zenon DEF CheckHolderMounts
<1>7. CASE Discover
  BY <1>1, <1>2, <1>4, <1>5, <1>7, Zenon DEF Discover
<1>8. CASE Signalled
  BY <1>2, <1>4, <1>5, <1>8, Zenon DEF Signalled
<1>9. CASE PollAllStopped
  BY <1>1, <1>4, <1>5, <1>9, Zenon DEF PollAllStopped
<1>10. CASE Recheck
  BY <1>1, <1>4, <1>5, <1>10, Zenon DEF Recheck
<1>11. CASE InspectFrozen
  BY <1>1, <1>2, <1>11, Zenon DEF InspectFrozen
<1>12. ASSUME NEW t \in Tasks, Visit(t) PROVE TypesFull'
  BY <1>4, <1>5, <1>12, Zenon DEF Visit
<1>13. ASSUME NEW t \in Tasks, Signal(t) PROVE TypesFull'
  BY <1>1, <1>4, <1>5, <1>13, Zenon DEF Signal
<1> QED BY <1>3, <1>6, <1>7, <1>8, <1>9, <1>10, <1>11, <1>12, <1>13, Zenon DEF QuiesceHolderScope

\* Masking some paths adds a mask to each of them and to no other.
LEMMA MaskedType ==
  ASSUME NEW m \in [1 .. HiddenPaths -> Nat], NEW ks
  PROVE  /\ Masked(m, ks) \in [1 .. HiddenPaths -> Nat]
         /\ \A k \in 1 .. HiddenPaths : Masked(m, ks)[k] = IF k \in ks THEN m[k] + 1 ELSE m[k]
BY DEF Masked

\* Restoring the masks leaves every path masked or says that it has failed.
LEMMA RemaskType ==
  ASSUME NEW m \in [1 .. HiddenPaths -> Nat], Remask(m), bare \in BOOLEAN
  PROVE  /\ masks' \in [1 .. HiddenPaths -> Nat] /\ bare' \in BOOLEAN
         /\ ~bare' => ~bare /\ \A k \in 1 .. HiddenPaths : masks'[k] > 0
<1>1. DOMAIN m = 1 .. HiddenPaths
  BY Zenon
<1>2. Masked(m, DOMAIN m) \in [1 .. HiddenPaths -> Nat] /\ \A k \in 1 .. HiddenPaths : Masked(m, DOMAIN m)[k] = m[k] + 1
  BY <1>1, MaskedType, Zenon
<1>3. \A k \in 1 .. HiddenPaths : Masked(m, DOMAIN m)[k] > 0
  BY <1>2
<1>4. CASE masks' = Masked(m, DOMAIN m) /\ UNCHANGED bare
  BY <1>2, <1>3, <1>4, Zenon
<1>5. CASE masks' = m /\ bare' = TRUE
  BY <1>5, Zenon
<1> QED BY <1>4, <1>5, Zenon DEF Remask

\* The reports of the runner have their type.
LEMMA ReportTypes ==
  /\ Report(FALSE, FALSE, "failed") \in [first : BOOLEAN, verified : BOOLEAN, detail : Details]
  /\ Report(TRUE, FALSE, "failed") \in [first : BOOLEAN, verified : BOOLEAN, detail : Details]
  /\ Report(TRUE, TRUE, "failed") \in [first : BOOLEAN, verified : BOOLEAN, detail : Details]
  /\ Report(TRUE, TRUE, "busy") \in [first : BOOLEAN, verified : BOOLEAN, detail : Details]
  /\ Report(TRUE, TRUE, "switched") \in [first : BOOLEAN, verified : BOOLEAN, detail : Details]
  /\ Missing \in [first : BOOLEAN, verified : BOOLEAN, detail : Details]
BY Zenon DEF Report, Missing, Details

\* The stages of the switch keep the types.
LEMMA TypesOfSwitch ==
  ASSUME TypesFull, RootAt, Leasing, StagedSwitch
  PROVE  TypesFull'
<1>0. TaskTypes /\ QuiesceTypes /\ RunnerTypes /\ HandleTypes /\ StepTypes
  BY TypeParts, Zenon
<1>1. /\ Nothing \in 0 .. Nothing /\ record \in 0 .. MaxChain
      /\ step = "switch" => record + 1 \in 0 .. Nothing
      /\ at = "move" => root \in 0 .. MaxChain
  BY <1>0, Chains, Zenon DEF Leasing, RootAt, HandleTypes
<1>2. step = "switch" /\ Switching /\ at' \in Stages
  BY Zenon DEF StagedSwitch, LiftNext, StageOverlay, OpenRoots, RestoreMasks, ProbeStaging, MoveOldAway, MoveNewIn,
     ProbeVisible, UnmountRollback, RunnerDies, Runs, GoTo, EndWith, Stages
<1>3. TaskTypes' /\ QuiesceTypes' /\ HandleTypes' /\ StepTypes'
  BY <1>0, <1>2, Zenon DEF Switching, taskVars, quiesceVars, handleVars, TaskTypes, QuiesceTypes, HandleTypes,
     StepTypes, Nothing, Stages
<1>4. masks' \in [1 .. HiddenPaths -> Nat] /\ bare' \in BOOLEAN
  <2>0. masks \in [1 .. HiddenPaths -> Nat] /\ bare \in BOOLEAN
    BY <1>0, Zenon DEF RunnerTypes
  <2>1. CASE LiftNext
    <3>1. \A k \in 1 .. HiddenPaths : (IF masks[k] = 0 THEN 0 ELSE masks[k] - 1) \in Nat
      BY <2>0
    <3>2. next \in 1 .. HiddenPaths
      BY <1>0, <2>1, Numbers DEF LiftNext, RunnerTypes
    <3>3. \/ masks' = [masks EXCEPT ![next] = IF @ = 0 THEN 0 ELSE @ - 1] /\ bare' = bare
          \/ masks' = masks /\ bare' = TRUE
      BY <2>1, Zenon DEF LiftNext
    <3> QED BY <2>0, <3>1, <3>2, <3>3, Zenon
  <2>2. CASE RestoreMasks
    <3>1. CASE masks' = Masked(masks, DOMAIN masks) /\ bare' = bare
      BY <2>0, <3>1, MaskedType, Zenon
    <3>2. ASSUME NEW k \in 0 .. (HiddenPaths - 1), Remask(Masked(masks, 1 .. k))
          PROVE  masks' \in [1 .. HiddenPaths -> Nat] /\ bare' \in BOOLEAN
      <4>1. Masked(masks, 1 .. k) \in [1 .. HiddenPaths -> Nat]
        BY <2>0, MaskedType, Zenon
      <4> QED BY <2>0, <3>2, <4>1, RemaskType, Zenon
    <3> QED BY <2>2, <3>1, <3>2, Zenon DEF RestoreMasks
  <2>3. CASE StageOverlay \/ OpenRoots
    BY <2>0, <2>3, RemaskType, Zenon DEF StageOverlay, OpenRoots
  <2>4. CASE ProbeStaging \/ MoveOldAway \/ MoveNewIn \/ ProbeVisible \/ UnmountRollback \/ RunnerDies
    BY <2>0, <2>4, Zenon DEF ProbeStaging, MoveOldAway, MoveNewIn, ProbeVisible, UnmountRollback, RunnerDies
  <2> QED BY <2>1, <2>2, <2>3, <2>4, Zenon DEF StagedSwitch
<1>5. next' \in Nat \ {0}
  <2>1. next' = next \/ next' = next + 1
    BY Zenon DEF StagedSwitch, LiftNext, StageOverlay, OpenRoots, RestoreMasks, ProbeStaging, MoveOldAway, MoveNewIn,
       ProbeVisible, UnmountRollback, RunnerDies, GoTo, EndWith
  <2> QED BY <1>0, <2>1 DEF RunnerTypes
<1>6. report' \in [first : BOOLEAN, verified : BOOLEAN, detail : Details]
  <2>1. report \in [first : BOOLEAN, verified : BOOLEAN, detail : Details]
    BY <1>0, Zenon DEF RunnerTypes
  <2> QED BY <2>1, ReportTypes, Zenon DEF StagedSwitch, LiftNext, StageOverlay, OpenRoots, RestoreMasks, ProbeStaging,
       MoveOldAway, MoveNewIn, ProbeVisible, UnmountRollback, RunnerDies, GoTo, EndWith
<1>7. root' \in 0 .. Nothing /\ staging' \in 0 .. Nothing /\ rollback' \subseteq 0 .. MaxChain
  <2>1. root \in 0 .. Nothing /\ staging \in 0 .. Nothing /\ rollback \subseteq 0 .. MaxChain
    BY <1>0, Zenon DEF RunnerTypes
  <2>2. /\ root' \in {root, Nothing, staging} /\ staging' \in {staging, Nothing, record + 1}
        /\ rollback' \subseteq rollback \/ (at = "move" /\ rollback' = rollback \cup {root})
    BY Zenon DEF StagedSwitch, LiftNext, StageOverlay, OpenRoots, RestoreMasks, ProbeStaging, Runs,
       MoveOldAway, MoveNewIn, ProbeVisible, UnmountRollback, RunnerDies, StrictUnmount
  <2> QED BY <1>1, <1>2, <2>1, <2>2, Zenon
<1>8. RunnerTypes'
  BY <1>0, <1>2, <1>4, <1>5, <1>6, <1>7, Zenon DEF RunnerTypes, Nothing, Switching
<1> QED BY <1>3, <1>8, TypesNext, Zenon

\* So do the ends of a remount.
LEMMA TypesOfEnd ==
  ASSUME TypesFull, RootAt, Leasing, Skip \/ Switch \/ RemountFails \/ DestroyFaulty
  PROVE  TypesFull'
<1>0. TaskTypes /\ QuiesceTypes /\ RunnerTypes /\ HandleTypes /\ StepTypes
  BY TypeParts, Zenon
<1> USE DEF quiesceVars, runnerVars, handleVars, taskVars
<1>1. /\ Nothing \in 0 .. Nothing /\ record + 1 \in 0 .. Nothing /\ record \in 0 .. Nothing
      /\ step = "switch" => record + 1 \in 0 .. MaxChain
      /\ step = "switch" => {staging} \ {Nothing} \subseteq 0 .. MaxChain
  BY <1>0, Chains, Zenon DEF Leasing, HandleTypes, RootAt
<1>2. TaskTypes'
  BY <1>0, <1>1, ResumeTypes, Zenon DEF Skip, BackOut, Switch, RemountFails, DestroyFaulty, TaskTypes, Nothing
<1>3. QuiesceTypes'
  BY <1>0, Zenon DEF Skip, BackOut, Switch, RemountFails, DestroyFaulty, QuiesceTypes
<1>4. RunnerTypes'
  <2>1. CASE DestroyFaulty
    BY <1>0, <1>1, <2>1, Zenon DEF DestroyFaulty, RunnerTypes, Nothing
  <2>2. CASE RunnerGone /\ step = "switch"
    BY <1>0, <1>1, <2>2, MissingType, Zenon DEF RunnerGone, RunnerTypes, Nothing
  <2> QED BY <2>1, <2>2, Zenon DEF Skip, Switch, RemountFails, Ended
<1>5. HandleTypes'
  <2>1. leased' \subseteq leased
    BY Zenon DEF Skip, BackOut, Switch, RemountFails, DestroyFaulty
  <2>2. record' \in {record, record + 1} /\ (record' = record \/ step = "switch")
    BY Zenon DEF Skip, BackOut, Switch, RemountFails, DestroyFaulty, Ended
  <2>3. parkedLease' \in {parkedLease, record, Nothing, record + 1}
    BY Zenon DEF Skip, BackOut, Switch, RemountFails, DestroyFaulty
  <2> QED BY <1>0, <1>1, <2>1, <2>2, <2>3, Zenon DEF HandleTypes, Nothing
<1>6. StepTypes'
  BY <1>0, Zenon DEF Skip, BackOut, Switch, RemountFails, DestroyFaulty, RunnerGone, StepTypes, Ended
<1> QED BY <1>2, <1>3, <1>4, <1>5, <1>6, TypesNext, Zenon

\* Every step keeps the types.
LEMMA TypesStep ==
  ASSUME TypesFull, RootAt, Leasing, RemountNext
  PROVE  TypesFull'
BY TypesOfTasks, TypesOfQuiesce, TypesOfSwitch, TypesOfEnd, Zenon DEF RemountNext

-----------------------------------------------------------------------------
(* The tasks. *)

\* A stopped task stays stopped until it is resumed or dies, and a closed
\* gate lets no task in.
LEMMA TaskMoves ==
  ASSUME TypesFull, RemountTasks, NEW t \in Tasks
  PROVE  /\ task[t] \in {"stop", "dead"} => task'[t] \in {"stop", "dead"}
         /\ task'[t] = "stop" => task[t] = "stop" \/ t \in frozen
         /\ ~SessionGateFree /\ (\A u \in Tasks : task[u] \notin {"out", "run"}) => task'[t] \notin {"out", "run"}
<1>1. task \in [Tasks -> {"new", "out", "run", "stop", "dead"}]
  BY Zenon DEF TypesFull, RemountTypeOK
<1> QED BY <1>1, Zenon DEF RemountTasks, AdmitTask, JoinNamespace, OpenFile, CloseFile, TaskExits, StopsNow, Fork

\* Resuming what was frozen leaves no task stopped.
LEMMA ResumesAll ==
  ASSUME TypesFull, Stopping, Resume
  PROVE  \A t \in Tasks : task'[t] # "stop"
BY Zenon DEF Stopping, Resume

\* The freeze counts every task it has stopped.
LEMMA StoppingQuiesce ==
  ASSUME TypesFull, Stopping, QuiesceHolderScope
  PROVE  Stopping'
<1>0. task \in [Tasks -> {"new", "out", "run", "stop", "dead"}] /\ frozen \subseteq Tasks
  BY Zenon DEF TypesFull, RemountTypeOK
<1> USE DEF Quiescing, quiesceVars, runnerVars, handleVars, taskVars
<1>1. CASE Blocked
  BY <1>1, ResumesAll, Zenon DEF Blocked, BackOut, Stopping, SwitchUnobserved
<1>2. CASE Discover /\ ~Blocked
  <2>1. /\ UNCHANGED <<task, frozen, cgroup>> /\ frozen = {} /\ step' \in {"signal", "switch"}
        /\ step' = "switch" => Discovered = {}
    BY <1>2, Zenon DEF Discover, LaunchRunner, Stopping
  <2>2. step' = "switch" /\ cgroup => \A t \in Tasks : task[t] \notin {"out", "run"}
    BY <2>1, Zenon DEF Discovered, Members, Alive
  <2> QED BY <2>1, <2>2, Zenon DEF Stopping, SwitchUnobserved
<1>3. CASE Signalled
  <2>1. /\ UNCHANGED <<task, frozen, cgroup>>
        /\ step' = "poll" \/ (step' = "switch" /\ branch' = "vanished" /\ frozen = {})
    BY <1>3, Zenon DEF Signalled, LaunchRunner
  <2> QED BY <2>1, Zenon DEF Stopping, SwitchUnobserved
<1>4. CASE PollAllStopped /\ ~Blocked
  BY <1>4, Zenon DEF PollAllStopped, Stopping, SwitchUnobserved
<1>5. CASE Recheck /\ ~Blocked
  <2>1. /\ step = "rescan" /\ step' = "inspect" /\ UNCHANGED <<task, frozen, cgroup>>
        /\ ~Escaped /\ Discovered \subseteq frozen
    BY <1>5, Zenon DEF Recheck
  <2>2. ASSUME cgroup, NEW t \in Tasks PROVE task[t] \notin {"out", "run"}
    <3>1. Alive(t) => t \in frozen
      BY <2>1, <2>2, Zenon DEF Discovered, Members
    <3>2. t \in frozen => task[t] \in {"stop", "dead"}
      BY <2>1, Zenon DEF Stopping
    <3> QED BY <3>1, <3>2, Zenon DEF Alive
  <2> QED BY <2>1, <2>2, Zenon DEF Stopping, SwitchUnobserved
<1>6. CASE InspectFrozen /\ ~Blocked
  <2>1. step = "inspect" /\ step' = "switch" /\ UNCHANGED <<task, frozen, cgroup>>
    BY <1>6, Zenon DEF InspectFrozen, LaunchRunner
  <2> QED BY <2>1, Zenon DEF Stopping, SwitchUnobserved
<1>7. CASE Rewrite \/ (CheckHolderMounts /\ ~Blocked)
  <2>1. /\ UNCHANGED <<task, frozen, cgroup>> /\ step' \in {"check", "scan"} /\ step \in {"idle", "check"}
    BY <1>7, Zenon DEF Rewrite, CheckHolderMounts
  <2> QED BY <2>1, Zenon DEF Stopping, SwitchUnobserved
<1>8. ASSUME NEW t \in Tasks, Visit(t) PROVE Stopping'
  <2>1. UNCHANGED <<task, frozen, cgroup, step, branch>>
    BY <1>8, Zenon DEF Visit
  <2> QED BY <2>1, Zenon DEF Stopping, SwitchUnobserved
<1>9. ASSUME NEW t \in Tasks, Signal(t), ~Blocked PROVE Stopping'
  <2>1. UNCHANGED <<task, cgroup, step, branch>> /\ frozen \subseteq frozen' /\ step = "signal"
    BY <1>9, Zenon DEF Signal
  <2> QED BY <2>1, Zenon DEF Stopping, SwitchUnobserved
<1> QED BY <1>1, <1>2, <1>3, <1>4, <1>5, <1>6, <1>7, <1>8, <1>9, Zenon DEF QuiesceHolderScope

\* The stages of the switch run while the remount is in it.
LEMMA SwitchFrame ==
  ASSUME StagedSwitch
  PROVE  step = "switch" /\ Switching
BY Zenon DEF StagedSwitch, LiftNext, StageOverlay, OpenRoots, RestoreMasks, ProbeStaging, MoveOldAway, MoveNewIn,
   ProbeVisible, UnmountRollback, RunnerDies, Runs

\* Every step keeps the account of the stopped tasks.
LEMMA StoppingStep ==
  ASSUME TypesFull, Stopping, RemountNext
  PROVE  Stopping'
<1>1. CASE RemountTasks
  <2>1. UNCHANGED <<step, frozen, cgroup, branch>>
    BY <1>1, Zenon DEF RemountTasks, AdmitTask, JoinNamespace, OpenFile, CloseFile, TaskExits, StopsNow, Fork,
         TaskStep, quiesceVars
  <2>2. \A t \in Tasks :
          /\ task[t] \in {"stop", "dead"} => task'[t] \in {"stop", "dead"}
          /\ task'[t] = "stop" => task[t] = "stop" \/ t \in frozen
          /\ ~SessionGateFree /\ (\A u \in Tasks : task[u] \notin {"out", "run"}) => task'[t] \notin {"out", "run"}
    BY <1>1, TaskMoves, Zenon
  <2>3. frozen \subseteq Tasks
    BY Zenon DEF TypesFull, RemountTypeOK
  <2> QED BY <2>1, <2>2, <2>3, Zenon DEF Stopping, SwitchUnobserved, SessionGateFree
<1>2. CASE QuiesceHolderScope
  BY <1>2, StoppingQuiesce, Zenon
<1>3. CASE StagedSwitch
  BY <1>3, SwitchFrame DEF Switching, taskVars, quiesceVars, Stopping, SwitchUnobserved
<1>4. CASE Skip \/ Switch
  <2>1. Resume /\ frozen' = {} /\ step' = "idle"
    BY <1>4, Zenon DEF Skip, Switch, BackOut
  <2> QED BY <2>1, ResumesAll, Zenon DEF Stopping, SwitchUnobserved
<1>5. CASE RemountFails
  BY <1>5, Zenon DEF RemountFails, taskVars, quiesceVars, Stopping, SwitchUnobserved
<1>6. CASE DestroyFaulty
  <2>1. step' = "gone" /\ \A t \in Tasks : task'[t] = "dead"
    BY <1>6, Zenon DEF DestroyFaulty
  <2> QED BY <2>1, Zenon DEF Stopping, SwitchUnobserved
<1> QED BY <1>1, <1>2, <1>3, <1>4, <1>5, <1>6, Zenon DEF RemountNext

-----------------------------------------------------------------------------
(* The masks. *)

\* The stages of the switch keep the masks or report that they could not.
LEMMA MaskingSwitch ==
  ASSUME TypesFull, Masking, StagedSwitch
  PROVE  Masking'
<1>0. masks \in [1 .. HiddenPaths -> Nat] /\ bare \in BOOLEAN /\ next \in Nat \ {0} /\ HiddenPaths \in Nat
  BY Numbers, Zenon DEF TypesFull, RemountTypeOK
<1>1. ASSUME NEW m \in [1 .. HiddenPaths -> Nat], Remask(m), at' = "done" PROVE Masking'
  BY <1>0, <1>1, RemaskType, Zenon DEF Masking
<1>2. CASE LiftNext
  <2>1. CASE bare'
    BY <2>1, Zenon DEF Masking
  <2>2. CASE ~bare'
    <3>1. /\ at = "lift" /\ at' = "lift" /\ next' = next + 1 /\ bare' = bare
          /\ masks' = [masks EXCEPT ![next] = IF @ = 0 THEN 0 ELSE @ - 1]
      BY <1>2, <2>2, Zenon DEF LiftNext, Runs
    <3>2. ASSUME NEW k \in 1 .. HiddenPaths, k >= next + 1 PROVE masks'[k] > 0
      <4>1. masks'[k] = masks[k] /\ k >= next
        BY <1>0, <3>1, <3>2
      <4> QED BY <2>2, <3>1, <4>1, Zenon DEF Masking
    <3> QED BY <3>1, <3>2, Zenon DEF Masking
  <2> QED BY <2>1, <2>2, Zenon
<1>3. CASE StageOverlay \/ OpenRoots
  <2>1. CASE Remask(masks) /\ at' = "done"
    BY <1>0, <1>1, <2>1, Zenon
  <2>2. CASE at' \in {"open", "restore"}
    BY <2>2, Zenon DEF Masking
  <2> QED BY <1>3, <2>1, <2>2, Zenon DEF StageOverlay, OpenRoots, GoTo, EndWith
<1>4. CASE RestoreMasks
  <2>1. CASE masks' = Masked(masks, DOMAIN masks)
    <3>1. \A k \in 1 .. HiddenPaths : masks'[k] = masks[k] + 1
      BY <1>0, <2>1, MaskedType, Zenon
    <3>2. \A k \in 1 .. HiddenPaths : masks'[k] > 0
      BY <1>0, <3>1
    <3>3. at' # "lift"
      BY <1>4, Zenon DEF RestoreMasks, GoTo, EndWith
    <3> QED BY <3>2, <3>3, Zenon DEF Masking
  <2>2. ASSUME NEW k \in 0 .. (HiddenPaths - 1), Remask(Masked(masks, 1 .. k)), at' = "done" PROVE Masking'
    BY <1>0, <1>1, <2>2, MaskedType, Zenon
  <2> QED BY <1>4, <2>1, <2>2, Zenon DEF RestoreMasks, EndWith
<1>5. CASE ProbeStaging \/ MoveOldAway \/ MoveNewIn \/ ProbeVisible \/ UnmountRollback
  <2>1. at \notin {"lift", "open", "restore"} /\ at' # "lift" /\ UNCHANGED <<masks, bare>>
    BY <1>5, Zenon DEF ProbeStaging, MoveOldAway, MoveNewIn, ProbeVisible, UnmountRollback, Runs, GoTo, EndWith
  <2> QED BY <2>1, Zenon DEF Masking
<1>6. CASE RunnerDies
  <2>1. UNCHANGED masks /\ at' = "lost" /\ (~bare' => ~\E k \in DOMAIN masks : masks[k] = 0)
    BY <1>6, Zenon DEF RunnerDies
  <2>2. ~bare' => \A k \in 1 .. HiddenPaths : masks'[k] > 0
    BY <1>0, <2>1
  <2> QED BY <2>1, <2>2, Zenon DEF Masking
<1> QED BY <1>2, <1>3, <1>4, <1>5, <1>6, Zenon DEF StagedSwitch

\* So does every step.
LEMMA MaskingStep ==
  ASSUME TypesFull, Masking, RemountNext
  PROVE  Masking'
<1> USE DEF quiesceVars, runnerVars, handleVars, taskVars
<1>1. CASE StagedSwitch
  BY <1>1, MaskingSwitch, Zenon
<1>2. CASE UNCHANGED <<masks, bare, at, next>>
  BY <1>2, Zenon DEF Masking
<1>3. CASE RemountTasks
  BY <1>2, <1>3, Zenon DEF RemountTasks, AdmitTask, JoinNamespace, OpenFile, CloseFile, TaskExits, StopsNow, Fork, TaskStep
<1>4. ASSUME NEW how, LaunchRunner(how), step # "switch" PROVE Masking'
  <2>1. at = "none" /\ at' = "lift" /\ UNCHANGED <<masks, bare>>
    BY <1>4, Zenon DEF LaunchRunner, TypesFull
  <2> QED BY <2>1, Zenon DEF Masking
<1>5. CASE QuiesceHolderScope
  BY <1>2, <1>4, <1>5, Zenon DEF QuiesceHolderScope, Rewrite, CheckHolderMounts, Discover, Signalled, PollAllStopped, Recheck,
     InspectFrozen, Visit, Signal, Blocked, Quiescing
<1>6. CASE Skip \/ Switch \/ RemountFails
  <2>1. at \in {"done", "lost"} /\ at' = "none" /\ UNCHANGED <<masks, bare>>
    BY <1>6, Zenon DEF Skip, Switch, RemountFails, Ended, RunnerGone
  <2> QED BY <2>1, Zenon DEF Masking
<1>7. CASE DestroyFaulty
  BY <1>2, <1>7, Zenon DEF DestroyFaulty
<1> QED BY <1>1, <1>3, <1>5, <1>6, <1>7, Zenon DEF RemountNext

-----------------------------------------------------------------------------
(* The mounts, the leases and the handle. *)

\* What is mounted, what is leased and what the handle records.
Mounting == RootAt /\ Leasing

\* The fields of a report.
LEMMA ReportParts ==
  /\ Missing.verified = FALSE /\ Missing.detail = "missing"
  /\ \A f, v \in BOOLEAN, d \in Details :
       /\ Report(f, v, d).first = f /\ Report(f, v, d).verified = v /\ Report(f, v, d).detail = d
       /\ d # "missing" => Report(f, v, d) # Missing
BY Zenon DEF Report, Missing

\* The tasks touch none of it.
LEMMA MountingKept ==
  ASSUME Mounting, UNCHANGED <<step, runnerVars, handleVars>>
  PROVE  Mounting'
BY Zenon DEF Mounting, RootAt, Leasing, ReportTrue, runnerVars, handleVars, Nothing

\* Neither does the freeze, but for the replacement it leases.
LEMMA MountingQuiesce ==
  ASSUME TypesFull, Mounting, QuiesceHolderScope
  PROVE  Mounting'
<1> USE DEF quiesceVars, runnerVars, handleVars, taskVars
<1>0. /\ record \in Nat /\ MaxChain \in Nat /\ HandleTypes /\ (step = "switch" <=> at # "none")
      /\ rollback \subseteq 0 .. record
  BY Numbers, TypeParts DEF TypesFull, Mounting, Leasing
<1>1. CASE Blocked /\ step \in Quiescent
  <2>1. /\ step' = "idle" /\ leased' = leased \ {record + 1} /\ at = "none"
        /\ UNCHANGED <<record, parkedLease, at, root, staging, rollback, report>>
    BY <1>0, <1>1, Zenon DEF Blocked, BackOut, Quiescent
  <2>2. RootAt'
    BY <1>1, <2>1, Zenon DEF Mounting, RootAt, ReportTrue, Quiescent, Nothing
  <2>3. rollback \subseteq leased' /\ record \in leased'
    <3>1. record + 1 \notin 0 .. record /\ record # record + 1
      BY <1>0
    <3> QED BY <1>0, <1>1, <2>1, <3>1, Zenon DEF Mounting, Leasing, Quiescent
  <2>4. Leasing'
    BY <1>1, <2>1, <2>3, Zenon DEF Mounting, Leasing, Quiescent, Nothing
  <2> QED BY <2>2, <2>4, Zenon DEF Mounting
<1>2. ASSUME NEW how, LaunchRunner(how), step \in Quiescent PROVE Mounting'
  <2>1. /\ step' = "switch" /\ at = "none" /\ at' = "lift" /\ report' = Missing
        /\ UNCHANGED <<record, parkedLease, leased, root, staging, rollback>>
    BY <1>0, <1>2, Zenon DEF LaunchRunner, Quiescent
  <2> QED BY <1>2, <2>1, Zenon DEF Mounting, RootAt, Leasing, ReportTrue, Quiescent, Nothing
<1>3. CASE Rewrite
  <2>1. /\ step = "idle" /\ step' = "check" /\ leased' = leased \cup {record + 1} /\ record < MaxChain
        /\ UNCHANGED <<record, parkedLease, at, root, staging, rollback, report>>
    BY <1>3, Zenon DEF Rewrite, Quiescing
  <2> QED BY <2>1, Zenon DEF Mounting, RootAt, Leasing, ReportTrue, Quiescent, Nothing
<1>4. ASSUME step \in Quiescent, step' \in Quiescent, UNCHANGED <<runnerVars, handleVars>>
      PROVE  Mounting'
  BY <1>4 DEF Mounting, RootAt, Leasing, ReportTrue, Quiescent, Nothing
<1> HIDE DEF runnerVars, handleVars
<1> USE DEF Quiescent
<1>6. CASE CheckHolderMounts
  BY <1>1, <1>4, <1>6, Zenon DEF CheckHolderMounts, Quiescing
<1>7. CASE Discover
  BY <1>1, <1>2, <1>4, <1>7, Zenon DEF Discover, Quiescing
<1>8. CASE Signalled
  BY <1>2, <1>4, <1>8, Zenon DEF Signalled, Quiescing
<1>9. CASE PollAllStopped
  BY <1>1, <1>4, <1>9, Zenon DEF PollAllStopped, Quiescing
<1>10. CASE Recheck
  BY <1>1, <1>4, <1>10, Zenon DEF Recheck, Quiescing
<1>11. CASE InspectFrozen
  BY <1>1, <1>2, <1>11, Zenon DEF InspectFrozen
<1>12. ASSUME NEW t \in Tasks, Visit(t) PROVE Mounting'
  BY <1>4, <1>12, Zenon DEF Visit, Quiescing
<1>13. ASSUME NEW t \in Tasks, Signal(t) PROVE Mounting'
  BY <1>1, <1>4, <1>13, Zenon DEF Signal, Quiescing
<1> QED BY <1>3, <1>6, <1>7, <1>8, <1>9, <1>10, <1>11, <1>12, <1>13, Zenon DEF QuiesceHolderScope

\* Each stage of the switch leaves the root where the next one expects it.
LEMMA MountingSwitch ==
  ASSUME TypesFull, Mounting, StagedSwitch
  PROVE  Mounting'
<1>0. /\ record \in Nat /\ record # Nothing /\ record + 1 # Nothing /\ record < MaxChain /\ record + 1 \in leased
      /\ record \in leased /\ rollback \subseteq leased /\ rollback \subseteq 0 .. record
      /\ step = "switch" /\ step' = "switch" /\ UNCHANGED <<record, leased, parkedLease>>
  BY SwitchFrame, TypeParts, Chains, Zenon DEF Mounting, Leasing, Switching, handleVars
<1>1. Nothing' = Nothing
  BY Zenon DEF Nothing
<1>2. RootAt /\ Leasing
  BY Zenon DEF Mounting
<1>3. ASSUME rollback' \subseteq rollback \cup {record} PROVE Leasing'
  <2>1. record \in 0 .. record
    BY <1>0
  <2> QED BY <1>0, <1>2, <1>3, <2>1, Zenon DEF Leasing, Quiescent
<1>4. rollback' \subseteq rollback \cup {record}
  BY <1>2, Zenon DEF RootAt, StagedSwitch, LiftNext, StageOverlay, OpenRoots, RestoreMasks, ProbeStaging, MoveOldAway,
     MoveNewIn, ProbeVisible, UnmountRollback, RunnerDies, Runs
<1> SUFFICES RootAt'
  BY <1>3, <1>4, Zenon DEF Mounting
<1>5. ASSUME at \in {"lift", "open", "restore", "probe", "move"}, at' = "done", UNCHANGED root,
             report' = Report(FALSE, FALSE, "failed"), staging' \in {staging, Nothing}
      PROVE  RootAt'
  <2>1. /\ report'.first = FALSE /\ report'.verified = FALSE /\ report'.detail = "failed"
    BY <1>5, ReportParts, Zenon DEF Details
  <2> QED BY <1>0, <1>1, <1>2, <1>5, <2>1, Zenon DEF RootAt, ReportTrue, Quiescent
<1>6. CASE LiftNext \/ StageOverlay \/ OpenRoots \/ RestoreMasks \/ ProbeStaging
  <2>1. UNCHANGED root /\ at \in {"lift", "open", "restore", "probe"}
    BY <1>6, Zenon DEF LiftNext, StageOverlay, OpenRoots, RestoreMasks, ProbeStaging, Runs
  <2>2. CASE at' = "done"
    <3>1. report' = Report(FALSE, FALSE, "failed") /\ staging' \in {staging, Nothing}
      BY <1>6, <2>2, Zenon DEF LiftNext, StageOverlay, OpenRoots, RestoreMasks, ProbeStaging, EndWith, GoTo, StrictUnmount, Runs
    <3> QED BY <1>5, <2>1, <2>2, <3>1, Zenon
  <2>3. CASE at' # "done"
    <3>1. /\ report' = report /\ at' \in {"lift", "open", "restore", "probe", "move"}
          /\ at' # "lift" => staging' = record + 1
          /\ at' = "lift" => staging' = staging
      BY <1>2, <1>6, <2>3, Zenon DEF RootAt, LiftNext, StageOverlay, OpenRoots, RestoreMasks, ProbeStaging, EndWith, GoTo, Runs
    <3> QED BY <1>0, <1>1, <1>2, <2>1, <3>1, Zenon DEF RootAt, ReportTrue, Quiescent
  <2> QED BY <2>2, <2>3, Zenon
<1>7. CASE MoveOldAway
  <2>1. CASE at' = "done"
    BY <1>5, <1>7, <2>1, Zenon DEF MoveOldAway, Runs, GoTo, EndWith, StrictUnmount
  <2>2. CASE at' # "done"
    <3>1. at = "move" /\ at' = "second" /\ root' = Nothing /\ UNCHANGED <<staging, report>>
      BY <1>7, <2>2, Zenon DEF MoveOldAway, Runs, GoTo, EndWith
    <3> QED BY <1>0, <1>1, <1>2, <3>1, Zenon DEF RootAt, ReportTrue, Quiescent
  <2> QED BY <2>1, <2>2, Zenon
<1>8. CASE MoveNewIn
  <2>1. CASE at' = "done"
    <3>1. at = "second" /\ report' = Report(TRUE, FALSE, "failed") /\ UNCHANGED <<root, staging>>
      BY <1>8, <2>1, Zenon DEF MoveNewIn, Runs, GoTo, EndWith
    <3>2. report'.first = TRUE /\ report'.verified = FALSE /\ report'.detail = "failed"
      BY <3>1, ReportParts, Zenon DEF Details
    <3> QED BY <1>0, <1>1, <1>2, <2>1, <3>1, <3>2, Zenon DEF RootAt, ReportTrue, Quiescent
  <2>2. CASE at' # "done"
    <3>1. at = "second" /\ at' = "visible" /\ root' = staging /\ staging' = Nothing /\ UNCHANGED report
      BY <1>8, <2>2, Zenon DEF MoveNewIn, Runs, GoTo, EndWith
    <3> QED BY <1>0, <1>1, <1>2, <3>1, Zenon DEF RootAt, ReportTrue, Quiescent
  <2> QED BY <2>1, <2>2, Zenon
<1>9. CASE ProbeVisible
  <2>1. CASE at' = "done"
    <3>1. at = "visible" /\ report' = Report(TRUE, FALSE, "failed") /\ UNCHANGED <<root, staging>>
      BY <1>9, <2>1, Zenon DEF ProbeVisible, Runs, GoTo, EndWith
    <3>2. report'.first = TRUE /\ report'.verified = FALSE /\ report'.detail = "failed"
      BY <3>1, ReportParts, Zenon DEF Details
    <3> QED BY <1>0, <1>1, <1>2, <2>1, <3>1, <3>2, Zenon DEF RootAt, ReportTrue, Quiescent
  <2>2. CASE at' # "done"
    <3>1. at = "visible" /\ at' = "unmount" /\ UNCHANGED <<root, staging, report>>
      BY <1>9, <2>2, Zenon DEF ProbeVisible, Runs, GoTo, EndWith
    <3> QED BY <1>0, <1>1, <1>2, <3>1, Zenon DEF RootAt, ReportTrue, Quiescent
  <2> QED BY <2>1, <2>2, Zenon
<1>10. CASE UnmountRollback
  <2>1. /\ at = "unmount" /\ at' = "done" /\ UNCHANGED <<root, staging>>
        /\ \/ report' = Report(TRUE, TRUE, "switched") /\ rollback' = rollback \ {record}
           \/ report' = Report(TRUE, TRUE, "busy") \/ report' = Report(TRUE, TRUE, "failed")
    BY <1>10, Zenon DEF UnmountRollback, Runs, EndWith
  <2>2. /\ report'.first = TRUE /\ report'.verified = TRUE
        /\ report'.detail \in {"switched", "busy", "failed"}
        /\ report'.detail = "switched" => record \notin rollback'
    BY <2>1, ReportParts, Zenon DEF Details
  <2> QED BY <1>0, <1>1, <1>2, <2>1, <2>2, Zenon DEF RootAt, ReportTrue, Quiescent
<1>11. CASE RunnerDies
  <2>1. at' = "lost" /\ report' = Missing /\ UNCHANGED <<root, staging, rollback>>
    BY <1>11, Zenon DEF RunnerDies
  <2> QED BY <1>0, <1>1, <1>2, <2>1, Zenon DEF RootAt, ReportTrue, Quiescent
<1> QED BY <1>6, <1>7, <1>8, <1>9, <1>10, <1>11, Zenon DEF StagedSwitch

\* The ends of a remount record what is mounted, and release what is not.
LEMMA MountingEnds ==
  ASSUME TypesFull, Mounting, Skip \/ Switch \/ RemountFails \/ DestroyFaulty
  PROVE  Mounting'
<1> USE DEF quiesceVars, runnerVars, handleVars, taskVars
<1>0. /\ record \in Nat /\ record # Nothing /\ Nothing' = Nothing /\ RootAt /\ Leasing
      /\ rollback \subseteq leased /\ rollback \subseteq 0 .. record
      /\ step \in {"switch", "faulty"} => record < MaxChain /\ record + 1 \in leased /\ record \in leased
      /\ record + 1 \notin 0 .. record /\ record # record + 1
  BY TypeParts, Chains DEF Mounting, Leasing, Nothing
<1>1. report.first \in BOOLEAN /\ report.verified \in BOOLEAN
  BY Zenon DEF TypesFull
<1>2. CASE DestroyFaulty
  <2>1. /\ step = "faulty" /\ step' = "gone" /\ root' = Nothing /\ rollback' = {} /\ leased' \subseteq leased
        /\ UNCHANGED <<at, staging, report, record>>
    BY <1>2, Zenon DEF DestroyFaulty
  <2>2. at = "none"
    BY <2>1, Zenon DEF TypesFull
  <2> QED BY <1>0, <2>1, <2>2, Zenon DEF Mounting, RootAt, Leasing, ReportTrue, Quiescent
<1>3. CASE Skip
  <2>1. /\ step = "switch" /\ step' = "idle" /\ at' = "none" /\ staging' = Nothing /\ report' = Missing
        /\ leased' = leased \ {record + 1} /\ CleanSkip /\ UNCHANGED <<record, root, rollback>>
    BY <1>3, Zenon DEF Skip, BackOut, RunnerGone, Ended
  <2>2. root = record
    BY <1>0, <2>1, Zenon DEF CleanSkip, RootAt, ReportTrue
  <2>3. rollback \subseteq leased' /\ record \in leased'
    BY <1>0, <2>1, Zenon
  <2> QED BY <1>0, <2>1, <2>2, <2>3, Zenon DEF Mounting, RootAt, Leasing, ReportTrue, Quiescent
<1>4. CASE Switch
  <2>1. /\ step = "switch" /\ step' = "idle" /\ at' = "none" /\ staging' = Nothing /\ report' = Missing
        /\ Verified /\ record' = record + 1 /\ UNCHANGED <<root, rollback>>
        /\ leased' = IF report.detail = "busy" THEN leased ELSE leased \ {record}
    BY <1>4, Zenon DEF Switch, RunnerGone, Ended
  <2>2. report # Missing
    BY <2>1, ReportParts, Zenon DEF Verified
  <2>3. root = record + 1 /\ (report.detail # "busy" => record \notin rollback)
    BY <1>0, <2>1, <2>2, Zenon DEF RootAt, ReportTrue, Verified
  <2>4. rollback \subseteq leased' /\ record + 1 \in leased'
    BY <1>0, <2>1, <2>3, Zenon
  <2>5. rollback \subseteq 0 .. record'
    BY <1>0, <2>1
  <2> QED BY <1>0, <2>1, <2>3, <2>4, <2>5, Zenon DEF Mounting, RootAt, Leasing, ReportTrue, Quiescent
<1>5. CASE RemountFails
  <2>1. /\ step = "switch" /\ step' = "faulty" /\ at' = "none" /\ staging' = Nothing /\ report' = Missing
        /\ UNCHANGED <<leased, record, root, rollback>>
    BY <1>5, Zenon DEF RemountFails, RunnerGone, Ended
  <2> QED BY <1>0, <2>1, Zenon DEF Mounting, RootAt, Leasing, ReportTrue, Quiescent
<1> QED BY <1>2, <1>3, <1>4, <1>5, Zenon

\* Every step keeps mounts, leases and handle in agreement.
LEMMA MountingStep ==
  ASSUME TypesFull, Mounting, RemountNext
  PROVE  Mounting'
<1>1. CASE RemountTasks
  <2>1. UNCHANGED <<step, runnerVars, handleVars>>
    BY <1>1, Zenon DEF RemountTasks, AdmitTask, JoinNamespace, OpenFile, CloseFile, TaskExits, StopsNow, Fork, TaskStep
  <2> QED BY <2>1, MountingKept, Zenon
<1> QED BY <1>1, MountingQuiesce, MountingSwitch, MountingEnds, Zenon DEF RemountNext

-----------------------------------------------------------------------------
(* The staged overlays. *)

\* No action but the ends of a remount leaves a staged overlay behind.
LEMMA LitteringStep ==
  ASSUME TypesFull, Mounting, Littering, RemountNext
  PROVE  Littering'
<1> USE DEF quiesceVars, runnerVars, handleVars, taskVars
<1>0. /\ (step = "switch" <=> at # "none") /\ (step # "switch" => staging = Nothing) /\ Nothing' = Nothing
      /\ at # "done" => report = Missing
  BY Zenon DEF TypesFull, Mounting, RootAt, Leasing, Nothing
<1>1. CASE RemountTasks
  <2>1. UNCHANGED <<step, runnerVars>>
    BY <1>1, Zenon DEF RemountTasks, AdmitTask, JoinNamespace, OpenFile, CloseFile, TaskExits, StopsNow, Fork, TaskStep
  <2> QED BY <1>0, <2>1, Zenon DEF Littering
<1>2. CASE QuiesceHolderScope
  <2>1. /\ UNCHANGED <<staging, strays, littered>> /\ step \in {"idle"} \cup Quiescent
    BY <1>2, Zenon DEF QuiesceHolderScope, Rewrite, CheckHolderMounts, Discover, Signalled, PollAllStopped, Recheck,
       InspectFrozen, Visit, Signal, Blocked, Quiescing, LaunchRunner, Quiescent
  <2>2. staging = Nothing
    BY <1>0, <2>1, Zenon DEF Quiescent
  <2> QED BY <1>0, <2>1, <2>2, Zenon DEF Littering, Quiescent
<1>3. CASE StagedSwitch
  <2>1. step = "switch" /\ step' = "switch" /\ strays' = strays
    BY <1>3, SwitchFrame, Zenon DEF Switching
  <2>2. CASE StrictUnmount /\ at' = "done"
    BY <1>0, <2>1, <2>2, Zenon DEF Littering, StrictUnmount
  <2>3. CASE LiftNext \/ StageOverlay
    <3>1. UNCHANGED littered /\ at = "lift" /\ (at' \in {"lift", "done"} => staging' = staging)
          /\ at' \in {"lift", "done", "open"}
      BY <2>3, Zenon DEF LiftNext, StageOverlay, Runs, GoTo, EndWith
    <3> QED BY <1>0, <2>1, <3>1, Zenon DEF Littering
  <2>4. CASE OpenRoots \/ RestoreMasks \/ ProbeStaging \/ MoveOldAway
    <3>1. \/ StrictUnmount /\ at' = "done"
          \/ UNCHANGED <<staging, littered>> /\ at' \in {"restore", "probe", "move", "second"}
      BY <2>4, Zenon DEF OpenRoots, RestoreMasks, ProbeStaging, MoveOldAway, GoTo, EndWith
    <3> QED BY <1>0, <2>1, <2>2, <3>1, Zenon DEF Littering
  <2>5. CASE MoveNewIn
    <3>1. /\ UNCHANGED littered
          /\ \/ staging' = Nothing
             \/ at' = "done" /\ report' = Report(TRUE, FALSE, "failed")
      BY <2>5, Zenon DEF MoveNewIn, GoTo, EndWith
    <3>2. Report(TRUE, FALSE, "failed").first = TRUE /\ Report(TRUE, FALSE, "failed").verified = FALSE
      BY ReportParts, Zenon DEF Details
    <3> QED BY <1>0, <2>1, <3>1, <3>2, Zenon DEF Littering
  <2>6. CASE ProbeVisible \/ UnmountRollback
    <3>1. UNCHANGED <<staging, littered>> /\ at \in {"visible", "unmount"}
      BY <2>6, Zenon DEF ProbeVisible, UnmountRollback, Runs
    <3> QED BY <1>0, <2>1, <3>1, Zenon DEF Littering
  <2>7. CASE RunnerDies
    BY <1>0, <2>1, <2>7, Zenon DEF Littering, RunnerDies
  <2> QED BY <1>3, <2>3, <2>4, <2>5, <2>6, <2>7, Zenon DEF StagedSwitch
<1>4. CASE Skip \/ Switch
  <2>1. /\ step = "switch" /\ at \in {"done", "lost"} /\ (CleanSkip \/ Verified)
        /\ at' = "none" /\ staging' = Nothing /\ UNCHANGED littered /\ strays' = strays \cup ({staging} \ {Nothing})
    BY <1>4, Zenon DEF Skip, Switch, RunnerGone, Ended
  <2>2. staging # Nothing => littered
    <3>1. Missing.first = FALSE
      BY Zenon DEF Missing
    <3> QED BY <1>0, <2>1, <3>1, ReportParts, Zenon DEF Littering, CleanSkip, Verified
  <2>3. strays' # {} => strays # {} \/ staging # Nothing
    BY <2>1, Zenon
  <2> QED BY <1>0, <2>1, <2>2, <2>3, Zenon DEF Littering
<1>5. CASE RemountFails \/ DestroyFaulty
  <2>1. step' \in {"faulty", "gone"} /\ staging' = Nothing
    BY <1>0, <1>5, Zenon DEF RemountFails, DestroyFaulty, RunnerGone
  <2> QED BY <1>0, <2>1, Zenon DEF Littering
<1> QED BY <1>1, <1>2, <1>3, <1>4, <1>5, Zenon DEF RemountNext

-----------------------------------------------------------------------------
(* The theorems *)

\* The invariant holds at first.
LEMMA RemountInitial == RemountInit => IInv
<1> SUFFICES ASSUME RemountInit PROVE IInv
  BY Zenon
<1> USE DEF RemountInit
<1>1. MaxChain \in Nat /\ HiddenPaths \in Nat /\ 0 \in 0 .. MaxChain /\ Nothing \in 0 .. Nothing /\ 0 \in 0 .. Nothing
      /\ 0 # Nothing
  BY Numbers DEF Nothing
<1>2. TaskTypes /\ QuiesceTypes /\ HandleTypes /\ StepTypes
  BY <1>1, Numbers, Zenon DEF TaskTypes, QuiesceTypes, HandleTypes, StepTypes
<1>3. RunnerTypes
  <2>1. masks \in [1 .. HiddenPaths -> Nat] /\ next \in Nat \ {0}
    OBVIOUS
  <2>2. root \in 0 .. Nothing /\ staging \in 0 .. Nothing /\ rollback \subseteq 0 .. MaxChain
        /\ strays \subseteq 0 .. MaxChain
    BY <1>1, Zenon
  <2> QED BY <2>1, <2>2, MissingType, Zenon DEF RunnerTypes
<1>4. TypesFull
  BY <1>2, <1>3, TypeParts, Zenon
<1>5. Stopping
  BY Zenon DEF Stopping, SwitchUnobserved
<1>6. Masking
  BY DEF Masking
<1>7. RootAt
  BY Zenon DEF RootAt, ReportTrue
<1>8. Leasing
  BY Zenon DEF Leasing, Quiescent
<1>9. Littering
  BY Zenon DEF Littering
<1> QED BY <1>4, <1>5, <1>6, <1>7, <1>8, <1>9, Zenon DEF IInv

\* Every step keeps it.
LEMMA RemountSteps == IInv /\ [RemountNext]_liveVars => IInv'
<1> SUFFICES ASSUME IInv, [RemountNext]_liveVars PROVE IInv'
  BY Zenon
<1>1. CASE RemountNext
  <2>1. Mounting'
    BY <1>1, MountingStep, Zenon DEF IInv, Mounting
  <2>2. Littering'
    BY <1>1, LitteringStep, Zenon DEF IInv, Mounting
  <2> QED BY <1>1, <2>1, <2>2, TypesStep, StoppingStep, MaskingStep, Zenon DEF IInv, Mounting
<1>2. CASE UNCHANGED liveVars
  <2> USE <1>2 DEF liveVars, IInv
  <2>1. TypesFull'
    BY DEF TypesFull, RemountTypeOK, Nothing
  <2>2. Stopping' /\ Masking'
    BY Zenon DEF Stopping, Masking, SwitchUnobserved
  <2>3. RootAt' /\ Leasing' /\ Littering'
    BY Zenon DEF RootAt, Leasing, Littering, ReportTrue, Nothing
  <2> QED BY <2>1, <2>2, <2>3, Zenon
<1> QED BY <1>1, <1>2, Zenon

\* It implies the safety of a remount.
LEMMA RemountSafeHere == IInv => RemountSafe
<1> SUFFICES ASSUME IInv PROVE RemountSafe
  BY Zenon
<1> USE DEF IInv
<1>1. RemountTypeOK /\ SwitchUnobserved /\ ReportTrue
  BY Zenon DEF TypesFull, Stopping, RootAt
<1>2. ResumedUnlessFaulty
  BY Zenon DEF Stopping, ResumedUnlessFaulty
<1>3. MasksBack
  <2>1. DOMAIN masks = 1 .. HiddenPaths /\ (step # "switch" => at = "none")
    BY Zenon DEF TypesFull, RemountTypeOK
  <2> QED BY <2>1, Zenon DEF Masking, MasksBack
<1>4. RecordTrue
  BY Zenon DEF RootAt, RecordTrue
<1>5. MountsLeased
  <2>1. step = "switch" => staging \in leased \cup {Nothing}
    BY Zenon DEF RootAt, Leasing
  <2>2. CASE step \in {"switch", "faulty"} \cup Quiescent
    BY <2>1, <2>2, Zenon DEF RootAt, Leasing, MountsLeased
  <2>3. CASE step \in {"idle", "gone"}
    BY <2>1, <2>3, Zenon DEF RootAt, Leasing, MountsLeased
  <2> QED BY <2>2, <2>3, Zenon DEF TypesFull, RemountTypeOK, Quiescent
<1>6. StagingGone
  BY Zenon DEF Littering, StagingGone
<1> QED BY <1>1, <1>2, <1>3, <1>4, <1>5, <1>6, Zenon DEF RemountSafe, TasksUndisturbed, MountsAccounted

\* The inductive invariant holds throughout.
THEOREM RemountInvariant == RemountSpec => []IInv
BY RemountInitial, RemountSteps, PTL DEF RemountSpec

\* A live remount is safe, for any number of tasks, layers and hidden paths,
\* and wherever it fails: with a cgroup no task runs while the root is
\* switched, none is left stopped by a transaction that ends, every overlay
\* the session can reach has its lease, no overlay stays staged but one that
\* could not be unmounted, and between transactions the handle
\* names the one that is mounted (execute_remount, staged_switch,
\* quiesce_holder_scope).
THEOREM RemountIsSafe == RemountSpec => []RemountSafe
BY RemountInvariant, RemountSafeHere, PTL
==============================================================================
