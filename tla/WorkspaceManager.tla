-------------------------- MODULE WorkspaceManager --------------------------
(***************************************************************************)
(* The owner of the daemon's raw workspaces (workspace/src/lifecycle and   *)
(* workspace/src/session): creation, live remount, teardown, the record of *)
(* the handles on disk (manager.json) and what a restart makes of it.      *)
(*                                                                         *)
(* Creation and teardown run under the manager's state lock, so at most    *)
(* one of them is under way (job); the daemon may die between any two of   *)
(* its steps.  The middle of a remount runs without the lock.  Workspace   *)
(* ids are allocated once, so an id stands for one handle generation.      *)
(***************************************************************************)
EXTENDS Naturals, Sequences, FiniteSets

CONSTANTS
  Ws, NoWs,      \* workspace ids; none of them
  Isolated,      \* those with an isolated network
  PoolSize,      \* addresses of the bridge's pool
  Ring,          \* capacity of completed_teardowns (128 in the code)
  MaxLease,      \* leases taken in a behaviour
  MaxRemounts,   \* remounts of one workspace
  MaxFaults,     \* failures of the machine
  MaxCrashes,
  ReapFaults,    \* whether the cleanup at boot may fail
  LeakyRelease   \* whether a remount's release may fail before the lease is gone

ASSUME ManagerAssumption ==
  /\ IsFiniteSet(Ws) /\ NoWs \notin Ws /\ Isolated \subseteq Ws
  /\ {PoolSize, Ring, MaxLease, MaxRemounts, MaxFaults, MaxCrashes} \subseteq Nat
  /\ Ring > 0
  /\ {ReapFaults, LeakyRelease} \subseteq BOOLEAN

VARIABLES
  up, svc,             \* the daemon runs; its workspace service is open, closing or done
  job,                 \* the creation or teardown that holds the state lock
  handles, teardowns,  \* the two maps: open handles, retained teardown transactions
  done, freed,         \* per transaction: completed steps, leases it has released
  completed,           \* the ring of completed teardowns
  lease, parked,       \* per handle: its lease and its second one, 0 for none
  pid, fds, ip,        \* per handle: holder pid known, fds open, address (0: no veth)
  pool,                \* addresses handed out
  rem, remounts,       \* the remount under way on each workspace; how many there were
  dirty,               \* remounts applied since the handles were last persisted
  progress,            \* how far each workspace is, as its caller sees it
  leases, nextLease,   \* the lease registry of the layer stack
  holder, mount,       \* per workspace: holder process alive, leases the mount reads through
  scratch,             \* per workspace: run directory exists
  recorded,            \* manager.json
  faults, crashes

memory == <<handles, teardowns, done, freed, completed, lease, parked, pid, fds, ip, pool>>
remountVars == <<rem, remounts, dirty>>
leaseVars == <<leases, nextLease>>
machine == <<holder, mount, scratch>>
budget == <<faults, crashes>>
rawVars == <<up, svc, job, memory, remountVars, progress, leaseVars, machine, recorded, budget>>

Order == <<"Holder", "Commands", "NamespaceFds", "Network", "Mounts", "Scratch", "Leases", "LeaseAccounting", "Persistence">>
Steps == {Order[i] : i \in 1 .. 9}
Stages == {"dirs", "holder", "fds", "veth", "mount", "net", "publish"}

NoJob == [kind |-> "idle", w |-> NoWs, at |-> 0, stage |-> "none", failed |-> {}, why |-> "none", queue |-> {}]
NoRemount == [stage |-> "none", repl |-> 0, effect |-> "none"]
NoRecord == [kept |-> FALSE, lease |-> 0, parked |-> 0]

RawInit ==
  /\ up = TRUE /\ svc = "open" /\ job = NoJob
  /\ handles = {} /\ teardowns = {} /\ completed = <<>>
  /\ done = [w \in Ws |-> {}] /\ freed = [w \in Ws |-> {}]
  /\ lease = [w \in Ws |-> 0] /\ parked = [w \in Ws |-> 0]
  /\ pid = [w \in Ws |-> FALSE] /\ fds = [w \in Ws |-> FALSE] /\ ip = [w \in Ws |-> 0]
  /\ pool = {}
  /\ rem = [w \in Ws |-> NoRemount] /\ remounts = [w \in Ws |-> 0] /\ dirty = FALSE
  /\ progress = [w \in Ws |-> "new"]
  /\ leases = {} /\ nextLease = 1
  /\ holder = [w \in Ws |-> FALSE] /\ mount = [w \in Ws |-> {}] /\ scratch = [w \in Ws |-> FALSE]
  /\ recorded = [w \in Ws |-> NoRecord]
  /\ faults = 0 /\ crashes = 0

-----------------------------------------------------------------------------
(* The lock, failures and manager.json *)

Free == up /\ job.kind = "idle"
Fault == faults < MaxFaults /\ faults' = faults + 1 /\ UNCHANGED crashes
NoFault == UNCHANGED budget

Kept(H, T) == H \cup {w \in T : "Persistence" \notin done[w]}
Records(H, T) ==
  [w \in Ws |-> IF w \in Kept(H, T)
                THEN [kept |-> TRUE, lease |-> lease[w], parked |-> parked[w]] ELSE NoRecord]

(* The file is replaced by a rename, so it is the old or the new one; an   *)
(* error may come before the rename or, from the directory's fsync, after. *)
PersistOk(new) == recorded' = new /\ NoFault
PersistErr(new) == recorded' \in {recorded, new} /\ Fault

(* The lease leaves the registry before the storage is collected: an error *)
(* may come before or after.                                               *)
Released(l) == leases' = leases \ {l} /\ NoFault
ReleaseErr(l) == leases' \in {leases, leases \ {l}} /\ Fault

-----------------------------------------------------------------------------
(* Teardown.  A pass runs the steps that are not completed, in order; a    *)
(* failed step does not stop the pass, but the steps that need it fail.    *)

Pass(w, why, queue) == [NoJob EXCEPT !.kind = "teardown", !.w = w, !.at = 1, !.why = why, !.queue = queue]

Queue(Q, why) == IF Q = {} THEN NoJob ELSE [NoJob EXCEPT !.kind = "queue", !.why = why, !.queue = Q]

At(step) ==
  /\ up /\ job.kind = "teardown" /\ job.at <= 9 /\ Order[job.at] = step
  /\ step \notin done[job.w]

Advance(ok) ==
  /\ job' = [job EXCEPT !.at = @ + 1, !.failed = IF ok THEN @ ELSE @ \cup {Order[job.at]}]
  /\ done' = IF ok THEN [done EXCEPT ![job.w] = @ \cup {Order[job.at]}] ELSE done

outside == <<up, svc, handles, teardowns, completed, lease, parked, pid, remountVars, progress, nextLease>>

StepSkip ==
  /\ up /\ job.kind = "teardown" /\ job.at <= 9 /\ Order[job.at] \in done[job.w]
  /\ job' = [job EXCEPT !.at = @ + 1]
  /\ UNCHANGED <<outside, done, freed, fds, ip, pool, leases, machine, recorded, budget>>

StepHolder ==
  LET w == job.w IN
  /\ At("Holder")
  /\ \/ /\ holder' = IF pid[w] THEN [holder EXCEPT ![w] = FALSE] ELSE holder
        /\ Advance(TRUE) /\ NoFault
     \/ pid[w] /\ holder' \in {holder, [holder EXCEPT ![w] = FALSE]} /\ Advance(FALSE) /\ Fault
  /\ UNCHANGED <<outside, freed, fds, ip, pool, leases, mount, scratch, recorded>>

StepCommands ==
  /\ At("Commands") /\ Advance(TRUE) /\ NoFault
  /\ UNCHANGED <<outside, freed, fds, ip, pool, leases, machine, recorded>>

StepNamespaceFds ==
  /\ At("NamespaceFds")
  /\ fds' = [fds EXCEPT ![job.w] = FALSE]
  /\ \/ Advance(TRUE) /\ NoFault
     \/ fds[job.w] /\ Advance(FALSE) /\ Fault
  /\ UNCHANGED <<outside, freed, ip, pool, leases, machine, recorded>>

StepNetwork ==
  LET w == job.w IN
  /\ At("Network")
  /\ \/ ip' = [ip EXCEPT ![w] = 0] /\ pool' = pool \ {ip[w]} /\ Advance(TRUE) /\ NoFault
     \/ ip[w] # 0 /\ UNCHANGED <<ip, pool>> /\ Advance(FALSE) /\ Fault
  /\ UNCHANGED <<outside, freed, fds, leases, machine, recorded>>

StepMounts ==
  /\ At("Mounts")
  /\ Advance("Holder" \in done[job.w] /\ ~fds[job.w]) /\ NoFault
  /\ UNCHANGED <<outside, freed, fds, ip, pool, leases, machine, recorded>>

MountsReleased(w) == "Mounts" \in done[w]

StepScratch ==
  LET w == job.w IN
  /\ At("Scratch")
  /\ IF MountsReleased(w)
     THEN \/ scratch' = [scratch EXCEPT ![w] = FALSE] /\ Advance(TRUE) /\ NoFault
          \/ scratch[w] /\ UNCHANGED scratch /\ Advance(FALSE) /\ Fault
     ELSE UNCHANGED scratch /\ Advance(FALSE) /\ NoFault
  /\ UNCHANGED <<outside, freed, fds, ip, pool, leases, holder, mount, recorded>>

ScratchReleased_Assumed(w) == "Commands" \in done[w]
ScratchReleased(w) == "Scratch" \in done[w]

Unfreed(w) == {l \in {"main"} \cup (IF parked[w] # 0 THEN {"parked"} ELSE {}) : l \notin freed[w]}
LeaseOf(w, l) == IF l = "main" THEN lease[w] ELSE parked[w]

StepLeases ==
  LET w == job.w IN
  /\ At("Leases")
  /\ IF ScratchReleased(w)
     THEN \/ /\ leases' = leases \ {LeaseOf(w, l) : l \in Unfreed(w)}
             /\ freed' = [freed EXCEPT ![w] = @ \cup Unfreed(w)]
             /\ Advance(TRUE) /\ NoFault
          \/ \E bad \in Unfreed(w) :
               /\ \E gone \in {{}, {LeaseOf(w, bad)}} :
                    leases' = leases \ ({LeaseOf(w, l) : l \in Unfreed(w) \ {bad}} \cup gone)
               /\ freed' = [freed EXCEPT ![w] = @ \cup (Unfreed(w) \ {bad})]
               /\ Advance(FALSE) /\ Fault
     ELSE UNCHANGED <<leases, freed>> /\ Advance(FALSE) /\ NoFault
  /\ UNCHANGED <<outside, fds, ip, pool, machine, recorded>>

StepLeaseAccounting ==
  /\ At("LeaseAccounting")
  /\ \/ Advance(Unfreed(job.w) = {}) /\ NoFault
     \/ Unfreed(job.w) = {} /\ Advance(FALSE) /\ Fault
  /\ UNCHANGED <<outside, freed, fds, ip, pool, leases, machine, recorded>>

(* The transaction is in neither map while it runs, so persisting drops it.*)
StepPersistence ==
  /\ At("Persistence")
  /\ IF job.failed = {}
     THEN \/ PersistOk(Records(handles, teardowns)) /\ Advance(TRUE)
          \/ PersistErr(Records(handles, teardowns)) /\ Advance(FALSE)
     ELSE UNCHANGED recorded /\ Advance(FALSE) /\ NoFault
  /\ UNCHANGED <<outside, freed, fds, ip, pool, leases, machine>>

-----------------------------------------------------------------------------
(* The end of a pass: a failed transaction is retained under its id and in *)
(* the record on disk, a completed one is remembered in the ring.          *)

(* VecDeque::retain; a workspace is in the ring at most once.              *)
Without(s, w) ==
  LET hole == CHOOSE i \in 1 .. Len(s) : s[i] = w
  IN IF \E i \in 1 .. Len(s) : s[i] = w
     THEN [i \in 1 .. Len(s) - 1 |-> IF i < hole THEN s[i] ELSE s[i + 1]] ELSE s

Remember(w) ==
  LET rest == Without(completed, w)
  IN Append(IF Len(rest) = Ring THEN Tail(rest) ELSE rest, w)

Retain_PublishedOnly(w) ==
  /\ teardowns' = IF job.why = "rollback" THEN teardowns ELSE teardowns \cup {w}
  /\ UNCHANGED <<completed, recorded, budget>>
Retain(w) ==
  /\ teardowns' = teardowns \cup {w}
  /\ UNCHANGED completed
  /\ \/ PersistOk(Records(handles, teardowns \cup {w}))
     \/ PersistErr(Records(handles, teardowns \cup {w}))

Record(w) ==
  /\ completed' = Remember(w)
  /\ UNCHANGED <<teardowns, recorded, budget>>

Told_Always(w, ok) ==
  CASE job.why = "destroy"  -> [progress EXCEPT ![w] = "closed"]
    [] job.why = "rollback" -> [progress EXCEPT ![w] = "failed"]
    [] OTHER                -> progress
Told(w, ok) ==
  CASE job.why = "destroy"  -> [progress EXCEPT ![w] = IF ok THEN "closed" ELSE @]
    [] job.why = "rollback" -> [progress EXCEPT ![w] = "failed"]
    [] OTHER                -> progress

Converged == handles = {} /\ teardowns' = {}

(* The namespace runtime is shut down last; its supervisor kills what is   *)
(* still registered.                                                       *)
Stop == svc' = "done" /\ holder' = [w \in Ws |-> FALSE]

TeardownEnds ==
  LET w == job.w
      ok == job.failed = {} IN
  /\ up /\ job.kind = "teardown" /\ job.at = 10
  /\ IF ok THEN Record(w) ELSE Retain(w)
  /\ progress' = Told(w, ok)
  /\ job' = Queue(job.queue, job.why)
  /\ IF job.why = "shutdown" /\ job.queue = {} /\ Converged THEN Stop ELSE UNCHANGED <<svc, holder>>
  /\ UNCHANGED <<up, handles, done, freed, lease, parked, pid, fds, ip, pool, remountVars, leaseVars, mount, scratch>>

(* close, of the next workspace a call has to tear down: it takes the      *)
(* retained transaction, or makes one of the handle.                       *)
Close ==
  /\ up /\ job.kind = "queue"
  /\ \E w \in job.queue :
       /\ job' = Pass(w, job.why, job.queue \ {w})
       /\ handles' = handles \ {w}
       /\ teardowns' = teardowns \ {w}
  /\ UNCHANGED <<up, svc, done, freed, completed, lease, parked, pid, fds, ip, pool,
                 remountVars, progress, leaseVars, machine, recorded, budget>>

-----------------------------------------------------------------------------
(* Creation.  The call retries the retained teardowns before it takes the  *)
(* lock; a failure at any stage rolls the workspace back in a teardown of  *)
(* its own.                                                                *)

Busy == {w \in Ws : progress[w] = "starting" \/ rem[w] # NoRemount}

Create(w) ==
  /\ Free /\ svc = "open" /\ progress[w] = "new" /\ nextLease <= MaxLease
  /\ progress' = [progress EXCEPT ![w] = "starting"]
  /\ job' = Queue(teardowns, "reconcile")
  /\ UNCHANGED <<up, svc, memory, remountVars, leaseVars, machine, recorded, budget>>

Setup(w, stage) == [NoJob EXCEPT !.kind = "setup", !.w = w, !.stage = stage]
Rollback(w) == Pass(w, "rollback", {})

OpenRaw(w) ==
  /\ Free /\ progress[w] = "starting" /\ nextLease <= MaxLease
  /\ \/ /\ leases' = leases \cup {nextLease} /\ nextLease' = nextLease + 1
        /\ lease' = [lease EXCEPT ![w] = nextLease]
        /\ job' = Setup(w, "dirs")
        /\ UNCHANGED progress /\ NoFault
     \/ /\ progress' = [progress EXCEPT ![w] = "failed"]
        /\ UNCHANGED <<leaseVars, lease, job>> /\ Fault
  /\ UNCHANGED <<up, svc, handles, teardowns, done, freed, completed, parked, pid, fds, ip, pool,
                 remountVars, machine, recorded>>

In(stage) == up /\ job.kind = "setup" /\ job.stage = stage
Goes(stage) == job' = Setup(job.w, stage) /\ NoFault
Fails == job' = Rollback(job.w) /\ Fault
setupFrame == <<up, svc, teardowns, done, freed, completed, lease, parked, remountVars, leaseVars>>

SetupDirs ==
  LET made == [scratch EXCEPT ![job.w] = TRUE] IN
  /\ In("dirs")
  /\ \/ scratch' = made /\ Goes("holder")
     \/ scratch' \in {scratch, made} /\ Fails
  /\ UNCHANGED <<setupFrame, handles, pid, fds, ip, pool, progress, holder, mount, recorded>>

(* A holder that came up too late is terminated on the spot; when that     *)
(* fails as well the handle does not know of it, only the supervisor does. *)
SetupHolder ==
  LET w == job.w IN
  /\ In("holder")
  /\ \/ /\ holder' = [holder EXCEPT ![w] = TRUE]
        /\ pid' = [pid EXCEPT ![w] = TRUE]
        /\ fds' = [fds EXCEPT ![w] = TRUE]
        /\ Goes("fds")
     \/ holder' \in {holder, [holder EXCEPT ![w] = TRUE]} /\ UNCHANGED <<pid, fds>> /\ Fails
  /\ UNCHANGED <<setupFrame, handles, ip, pool, progress, mount, scratch, recorded>>

SetupFds ==
  /\ In("fds")
  /\ \/ Goes(IF job.w \in Isolated THEN "veth" ELSE "mount")
     \/ Fails
  /\ UNCHANGED <<setupFrame, handles, pid, fds, ip, pool, progress, machine, recorded>>

Lowest(S) == {a \in S : \A b \in S : a <= b}

Spare == (1 .. PoolSize) \ pool

SetupVeth ==
  /\ In("veth")
  /\ \/ /\ \E a \in Lowest(Spare) : ip' = [ip EXCEPT ![job.w] = a] /\ pool' = pool \cup {a}
        /\ Goes("mount")
     \/ Spare = {} /\ UNCHANGED <<ip, pool, budget>> /\ job' = Rollback(job.w)
     \/ UNCHANGED <<ip, pool>> /\ Fails
  /\ UNCHANGED <<setupFrame, handles, pid, fds, progress, machine, recorded>>

SetupMount ==
  LET mounted == [mount EXCEPT ![job.w] = {lease[job.w]}] IN
  /\ In("mount")
  /\ \/ mount' = mounted /\ Goes(IF job.w \in Isolated THEN "net" ELSE "publish")
     \/ mount' \in {mount, mounted} /\ Fails
  /\ UNCHANGED <<setupFrame, handles, pid, fds, ip, pool, progress, holder, scratch, recorded>>

SetupNet ==
  /\ In("net")
  /\ Goes("publish") \/ Fails
  /\ UNCHANGED <<setupFrame, handles, pid, fds, ip, pool, progress, machine, recorded>>

SetupPublish ==
  LET w == job.w
      new == Records(handles \cup {w}, teardowns) IN
  /\ In("publish")
  /\ \/ /\ PersistOk(new)
        /\ handles' = handles \cup {w}
        /\ progress' = [progress EXCEPT ![w] = "open"]
        /\ job' = NoJob
     \/ /\ PersistErr(new)
        /\ job' = Rollback(w)
        /\ UNCHANGED <<handles, progress>>
  /\ UNCHANGED <<setupFrame, pid, fds, ip, pool, machine>>

-----------------------------------------------------------------------------
(* The other calls *)

(* A repeated destroy of a workspace that some other call has torn down    *)
(* finds its outcome in the ring.                                          *)
DestroyRaw(w) ==
  /\ Free /\ progress[w] = "open" /\ rem[w] = NoRemount
  /\ IF w \in handles \cup teardowns
     THEN job' = Queue({w}, "destroy") /\ UNCHANGED progress
     ELSE /\ progress' = [progress EXCEPT ![w] = IF \E i \in 1 .. Len(completed) : completed[i] = w
                                               THEN "closed" ELSE "lost"]
          /\ UNCHANGED job
  /\ UNCHANGED <<up, svc, memory, remountVars, leaseVars, machine, recorded, budget>>

(* The session service has committed the destroy.                          *)
Forget(w) ==
  /\ Free /\ progress[w] = "closed"
  /\ progress' = [progress EXCEPT ![w] = "gone"]
  /\ completed' = Without(completed, w)
  /\ UNCHANGED <<up, svc, job, handles, teardowns, done, freed, lease, parked, pid, fds, ip, pool,
                 remountVars, leaseVars, machine, recorded, budget>>

ReconcileRaw ==
  /\ Free /\ teardowns # {}
  /\ job' = Queue(teardowns, "reconcile")
  /\ UNCHANGED <<up, svc, memory, remountVars, progress, leaseVars, machine, recorded, budget>>

(* Waits for the calls that are admitted, then tears everything down.      *)
ShutdownRaw ==
  /\ Free /\ svc # "done" /\ Busy = {}
  /\ job' = Queue(handles \cup teardowns, "shutdown")
  /\ IF handles \cup teardowns = {} THEN Stop ELSE svc' = "closing" /\ UNCHANGED holder
  /\ UNCHANGED <<up, memory, remountVars, progress, leaseVars, mount, scratch, recorded, budget>>

-----------------------------------------------------------------------------
(* Live remount.  The session's gate keeps a destroy of the same workspace *)
(* away.  The replacement lease is taken first; where nothing has to be    *)
(* replaced, or the rewrite fails, nothing happens.                        *)

remountFrame == <<up, svc, job, handles, teardowns, done, freed, completed, pid, fds, ip, pool, progress, holder, scratch, recorded>>

RemountLease(w) ==
  /\ Free /\ svc = "open" /\ progress[w] = "open" /\ w \in handles /\ rem[w] = NoRemount
  /\ remounts[w] < MaxRemounts /\ nextLease <= MaxLease
  /\ remounts' = [remounts EXCEPT ![w] = @ + 1]
  /\ leases' = leases \cup {nextLease} /\ nextLease' = nextLease + 1
  /\ rem' = [rem EXCEPT ![w] = [stage |-> "switch", repl |-> nextLease, effect |-> "none"]]
  /\ UNCHANGED <<remountFrame, lease, parked, dirty, mount, budget>>

RemountRelease(l) == Released(l) \/ (LeakyRelease /\ ReleaseErr(l))

(* The gate is not proven, the tasks cannot be frozen, or the runner       *)
(* reports or is seen not to have moved the mount.                         *)
RemountSkip(w) ==
  /\ up /\ rem[w].stage = "switch"
  /\ RemountRelease(rem[w].repl)
  /\ rem' = [rem EXCEPT ![w] = NoRemount]
  /\ UNCHANGED <<remountFrame, remounts, lease, parked, dirty, mount, nextLease>>

(* The switch is verified and the old mount unmounted, or busy; or the     *)
(* state of the mount is not known.                                        *)
RemountSwitch(w) ==
  LET to(effect) == [rem EXCEPT ![w].stage = IF effect = "switched" THEN "release" ELSE "apply",
                                ![w].effect = effect] IN
  /\ up /\ rem[w].stage = "switch"
  /\ \/ mount' = [mount EXCEPT ![w] = (@ \ {lease[w]}) \cup {rem[w].repl}] /\ rem' = to("switched")
     \/ mount' = [mount EXCEPT ![w] = @ \cup {rem[w].repl}] /\ rem' \in {to("pinned"), to("faulty")}
     \/ rem' = to("faulty") /\ UNCHANGED mount
  /\ UNCHANGED <<remountFrame, remounts, lease, parked, dirty, leaseVars, budget>>

RemountReleaseOld(w) ==
  /\ up /\ rem[w].stage = "release"
  /\ RemountRelease(lease[w])
  /\ rem' = [rem EXCEPT ![w].stage = "apply"]
  /\ UNCHANGED <<remountFrame, remounts, lease, parked, dirty, mount, nextLease>>

Parks(w) ==
  CASE rem[w].effect = "pinned" -> lease[w]
    [] rem[w].effect = "faulty" -> rem[w].repl
    [] OTHER -> 0

RemountApply(w) ==
  /\ Free /\ rem[w].stage = "apply"
  /\ lease' = IF rem[w].effect = "faulty" THEN lease ELSE [lease EXCEPT ![w] = rem[w].repl]
  /\ parked' = [parked EXCEPT ![w] = Parks(w)]
  /\ rem' = [rem EXCEPT ![w] = NoRemount]
  /\ dirty' = TRUE
  /\ UNCHANGED <<remountFrame, remounts, mount, leaseVars, budget>>

(* Once per sweep, after the last remount.                                 *)
PersistSweep ==
  /\ Free /\ dirty /\ \A w \in Ws : rem[w] = NoRemount
  /\ dirty' = FALSE
  /\ \/ PersistOk(Records(handles, teardowns))
     \/ PersistErr(Records(handles, teardowns))
  /\ UNCHANGED <<up, svc, job, memory, rem, remounts, progress, leaseVars, machine>>

-----------------------------------------------------------------------------
(* The environment, and the daemon's restart *)

HolderDies(w) ==
  /\ up /\ holder[w] /\ progress[w] = "open"
  /\ holder' = [holder EXCEPT ![w] = FALSE] /\ Fault
  /\ UNCHANGED <<up, svc, job, memory, remountVars, progress, leaseVars, mount, scratch, recorded>>

(* The holders die with the daemon (PDEATHSIG), and their namespaces and   *)
(* the lease registry go.                                                  *)
Crash ==
  /\ up /\ svc # "done" /\ crashes < MaxCrashes
  /\ crashes' = crashes + 1 /\ UNCHANGED faults
  /\ up' = FALSE /\ svc' = "open" /\ job' = NoJob
  /\ handles' = {} /\ teardowns' = {} /\ completed' = <<>> /\ pool' = {}
  /\ done' = [w \in Ws |-> {}] /\ freed' = [w \in Ws |-> {}]
  /\ lease' = [w \in Ws |-> 0] /\ parked' = [w \in Ws |-> 0] /\ ip' = [w \in Ws |-> 0]
  /\ pid' = [w \in Ws |-> FALSE] /\ fds' = [w \in Ws |-> FALSE]
  /\ rem' = [w \in Ws |-> NoRemount] /\ dirty' = FALSE
  /\ progress' = [w \in Ws |-> CASE progress[w] = "new" -> "new"
                                [] progress[w] \in {"open", "closed", "gone", "dead"} -> "dead"
                                [] OTHER -> "failed"]
  /\ holder' = [w \in Ws |-> FALSE] /\ mount' = [w \in Ws |-> {}] /\ leases' = {}
  /\ UNCHANGED <<remounts, nextLease, scratch, recorded>>

(* Every recorded workspace is dead: its run directory and leases go.  The *)
(* file is reset if that worked for all of them; the daemon serves either  *)
(* way.                                                                    *)
Boot ==
  LET old == {w \in Ws : recorded[w].kept} IN
  /\ ~up /\ up' = TRUE
  /\ \E bad \in (IF ReapFaults THEN SUBSET old ELSE {{}}) :
       /\ scratch' = [w \in Ws |-> scratch[w] /\ w \notin old \ bad]
       /\ IF bad = {} THEN PersistOk(Records({}, {})) \/ PersistErr(Records({}, {}))
                     ELSE UNCHANGED recorded /\ Fault
  /\ UNCHANGED <<svc, job, memory, remountVars, progress, leaseVars, holder, mount>>

RawNext ==
  \/ StepSkip \/ StepHolder \/ StepCommands \/ StepNamespaceFds \/ StepNetwork \/ StepMounts
  \/ StepScratch \/ StepLeases \/ StepLeaseAccounting \/ StepPersistence \/ TeardownEnds \/ Close
  \/ SetupDirs \/ SetupHolder \/ SetupFds \/ SetupVeth \/ SetupMount \/ SetupNet \/ SetupPublish
  \/ ReconcileRaw \/ ShutdownRaw \/ PersistSweep \/ Crash \/ Boot
  \/ \E w \in Ws :
       \/ Create(w) \/ OpenRaw(w) \/ DestroyRaw(w) \/ Forget(w) \/ HolderDies(w)
       \/ RemountLease(w) \/ RemountSkip(w) \/ RemountSwitch(w) \/ RemountReleaseOld(w) \/ RemountApply(w)

RawSpec == RawInit /\ [][RawNext]_rawVars

-----------------------------------------------------------------------------
(* Correctness *)

Leases == 1 .. MaxLease
PerWs(S) == [Ws -> S]

(* The variables keep their types.                                         *)
RawTypeOK ==
  /\ up \in BOOLEAN /\ svc \in {"open", "closing", "done"} /\ dirty \in BOOLEAN
  /\ job \in [kind : {"idle", "queue", "setup", "teardown"}, w : Ws \cup {NoWs}, at : 0 .. 10,
              stage : Stages \cup {"none"}, failed : SUBSET Steps,
              why : {"none", "destroy", "rollback", "reconcile", "shutdown"}, queue : SUBSET Ws]
  /\ handles \subseteq Ws /\ teardowns \subseteq Ws /\ completed \in Seq(Ws) /\ Len(completed) <= Ring
  /\ done \in PerWs(SUBSET Steps) /\ freed \in PerWs(SUBSET {"main", "parked"})
  /\ lease \in PerWs(0 .. MaxLease) /\ parked \in PerWs(0 .. MaxLease)
  /\ pid \in PerWs(BOOLEAN) /\ fds \in PerWs(BOOLEAN) /\ ip \in PerWs(0 .. PoolSize) /\ pool \subseteq 1 .. PoolSize
  /\ rem \in PerWs([stage : {"none", "switch", "release", "apply"}, repl : 0 .. MaxLease,
                    effect : {"none", "switched", "pinned", "faulty"}])
  /\ remounts \in PerWs(0 .. MaxRemounts)
  /\ progress \in PerWs({"new", "starting", "open", "closed", "gone", "failed", "lost", "dead"})
  /\ leases \subseteq Leases /\ nextLease \in 1 .. MaxLease + 1
  /\ holder \in PerWs(BOOLEAN) /\ mount \in PerWs(SUBSET Leases) /\ scratch \in PerWs(BOOLEAN)
  /\ recorded \in PerWs([kept : BOOLEAN, lease : 0 .. MaxLease, parked : 0 .. MaxLease])
  /\ faults \in 0 .. MaxFaults /\ crashes \in 0 .. MaxCrashes

(* The mount namespace lives as long as its holder or an open fd of it.    *)
Mounted(w) == (holder[w] \/ fds[w]) /\ mount[w] # {}

(* As long as an overlay is mounted, every lease whose layers it reads     *)
(* through is held, whatever a remount or a teardown does and wherever it  *)
(* fails: the old lease goes only after the switch, and all of them only   *)
(* after the holder and the fds (remount.rs, release_leases).              *)
MountPinned == \A w \in Ws : Mounted(w) => mount[w] \subseteq leases

(* The run directory, which holds the overlay's upper directory, is never  *)
(* removed under a mounted overlay (release_mounts, remove_scratch).       *)
ScratchUnderMount == \A w \in Ws : Mounted(w) => scratch[w]

(* A mounted overlay keeps the layers it reads and the directory it writes *)
(* (TeardownLedger, execute_remount).                                      *)
MountSafe == MountPinned /\ ScratchUnderMount

Tracked(w) == w \in handles \cup teardowns \/ (job.kind \in {"setup", "teardown"} /\ job.w = w)

(* Holder, fds, address and leases of a workspace always have an owner     *)
(* that will release them: an open handle, a retained teardown or the call *)
(* under way, also after a creation that failed and a rollback that failed *)
(* (fail_after_partial_create, run_teardown_transaction).                  *)
ResourcesTracked ==
  \A w \in Ws : (holder[w] /\ pid[w]) \/ fds[w] \/ ip[w] # 0 \/ lease[w] \in leases \/ parked[w] \in leases => Tracked(w)

(* A run directory is removed in the end: its workspace is owned, or       *)
(* recorded in manager.json for the next boot to reap.  Only a creation    *)
(* that a crash cut off leaves a directory behind (persist_handles,        *)
(* reap_persisted_handles).                                                *)
ScratchTracked ==
  \A w \in Ws : scratch[w] => Tracked(w) \/ recorded[w].kept \/ (progress[w] = "failed" /\ crashes > 0)

(* Every lease of the registry is some handle's lease or parked lease, or  *)
(* belongs to a remount under way: leases do not leak (apply_switch).      *)
LeasesOwned ==
  leases \subseteq {lease[w] : w \in Ws} \cup {parked[w] : w \in Ws} \cup {rem[w].repl : w \in Ws}

(* A destroy that reported success has released everything the workspace   *)
(* had, its record included, also when the success took several passes and *)
(* other calls made them (destroy_workspace, completed_teardown_outcome).  *)
ClosedMeansGone ==
  \A w \in Ws : progress[w] \in {"closed", "gone"} =>
    /\ ~holder[w] /\ ~fds[w] /\ ip[w] = 0 /\ ~scratch[w] /\ ~recorded[w].kept
    /\ {lease[w], parked[w]} \cap leases = {}

(* A completed shutdown leaves no holder, address or lease behind, no      *)
(* record but one the boot could not rewrite, and no run directory but     *)
(* that of a creation a crash cut off (shutdown_all, perform_shutdown).    *)
ShutdownLeavesNothing ==
  svc = "done" =>
    /\ leases = {} /\ pool = {}
    /\ \A w \in Ws : ~holder[w] /\ ~fds[w]
    /\ \A w \in Ws : recorded[w].kept => progress[w] \in {"dead", "failed"} /\ crashes > 0
    /\ \A w \in Ws : scratch[w] => progress[w] = "failed" /\ crashes > 0

(* Two workspaces never have the same address, and an address in use is    *)
(* not in the pool's free part (install_veth, teardown_veth).              *)
DistinctAddresses ==
  \A w \in Ws : ip[w] # 0 => ip[w] \in pool /\ \A v \in Ws \ {w} : ip[v] # ip[w]

(* Everything a workspace holds has exactly one owner, who will release it *)
(* (run_teardown_transaction, persist_handles, BridgeAddressPool).         *)
Owned == RawTypeOK /\ ResourcesTracked /\ ScratchTracked /\ LeasesOwned /\ DistinctAddresses

(* What is reported gone is gone (destroy_workspace, shutdown_all).        *)
ReportedGone == ClosedMeansGone /\ ShutdownLeavesNothing

(* A destroy that follows a teardown made by another call is told its      *)
(* outcome, not that the workspace was never open (destroy_workspace), as  *)
(* long as the ring has room.                                              *)
NoLostOutcome == \A w \in Ws : progress[w] # "lost"

(* Every caller of a teardown hears its outcome, and the outcome is true.  *)
OutcomesTrue == ReportedGone /\ NoLostOutcome

=============================================================================
