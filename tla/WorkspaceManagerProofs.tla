----------------------- MODULE WorkspaceManagerProofs -----------------------
(***************************************************************************)
(* A mounted overlay keeps the layers it reads and the directory it        *)
(* writes, for any number of workspaces, addresses, leases, remounts,      *)
(* faults and restarts.                                                    *)
(*                                                                         *)
(* MountSafe is not inductive. A teardown removes the directory and        *)
(* releases the leases because its ledger says that the holder and the fds *)
(* are gone; so the ledger has to be true (Ledger), and to stay true while *)
(* other calls run, which needs to know who holds the state lock (Control) *)
(* and what a workspace owns before it is open (Starts). A remount         *)
(* releases the lease it has replaced because nobody else reads through    *)
(* it; so leases are fresh and not shared (Mounts).                        *)
(***************************************************************************)
EXTENDS WorkspaceManager, TLAPS

\* The call that holds the state lock is about w.
InJob(w) == job.kind \in {"setup", "teardown"} /\ job.w = w

\* Who holds the lock, and what the state of a workspace is while somebody
\* does.
Control ==
  /\ job.kind = "idle" => job = NoJob
  /\ job.kind \in {"setup", "teardown"} => job.w \in Ws \ (handles \cup teardowns)
  /\ job.kind = "setup" => job.stage # "none" /\ progress[job.w] = "starting" /\ job.queue = {}
  /\ job.kind = "teardown" =>
       /\ job.at \in 1 .. 10 /\ job.why # "none"
       /\ job.why = "rollback" => progress[job.w] = "starting" /\ job.queue = {}
       /\ job.why = "destroy" => progress[job.w] = "open"
       /\ job.why \notin {"rollback", "destroy"} => progress[job.w] \in {"open", "failed"}
  /\ job.kind = "queue" => job.why \notin {"none", "rollback"}
  /\ job.queue \subseteq handles \cup teardowns
  /\ job.why = "destroy" => \A w \in job.queue : progress[w] = "open"
  /\ job.why = "shutdown" => svc = "closing"
  /\ svc # "open" => Busy = {}
  /\ ~up => svc = "open"
  /\ ~up \/ svc = "done" => job = NoJob /\ handles = {} /\ teardowns = {}
  /\ handles \cap teardowns = {}
  /\ \A w \in handles : progress[w] = "open"
  /\ \A w \in teardowns : progress[w] \in {"open", "failed"}
  /\ \A w \in Ws : rem[w] # NoRemount => w \in handles \ job.queue /\ rem[w].stage # "none"

\* w owns nothing.
Clean(w) ==
  /\ lease[w] = 0 /\ parked[w] = 0 /\ ip[w] = 0 /\ ~pid[w] /\ ~fds[w] /\ ~holder[w]
  /\ mount[w] = {} /\ done[w] = {} /\ freed[w] = {}

\* What a workspace owns before it is open: nothing, or what the stages of
\* its creation have made.
Starts ==
  /\ \A w \in Ws : progress[w] \in {"new", "starting"} /\ ~InJob(w) =>
       Clean(w) /\ ~scratch[w] /\ ~recorded[w].kept
  /\ ~up => \A w \in Ws : Clean(w)
  /\ job.kind = "setup" =>
       LET w == job.w IN
       /\ done[w] = {} /\ freed[w] = {} /\ parked[w] = 0 /\ lease[w] \in leases
       /\ job.stage # "dirs" => scratch[w]
       /\ IF job.stage \in {"dirs", "holder"} THEN ~pid[w] /\ ~fds[w] /\ ~holder[w] ELSE pid[w]
       /\ job.stage \in {"dirs", "holder", "fds", "veth"} => ip[w] = 0
       /\ job.stage \in {"dirs", "holder", "fds", "veth", "mount"} => mount[w] = {}
  /\ \A w \in handles : done[w] = {} /\ freed[w] = {} /\ scratch[w]
  /\ \A w \in Ws : progress[w] = "open" => pid[w]

\* A step that the ledger of w counts as completed has released what it
\* stands for.
Entry(w) ==
  /\ "Holder" \in done[w] => ~(holder[w] /\ pid[w])
  /\ "NamespaceFds" \in done[w] => ~fds[w]
  /\ "Network" \in done[w] => ip[w] = 0
  /\ "Mounts" \in done[w] => "Holder" \in done[w] /\ ~fds[w]
  /\ "Scratch" \in done[w] => "Mounts" \in done[w] /\ ~scratch[w]
  /\ freed[w] # {} => "Scratch" \in done[w]
  /\ "main" \in freed[w] \/ "Leases" \in done[w] => lease[w] \notin leases
  /\ "parked" \in freed[w] \/ "Leases" \in done[w] => parked[w] \notin leases

\* The ledgers are true, and a pass has completed or failed every step before
\* the next.
Ledger ==
  /\ \A w \in Ws : Entry(w)
  /\ \A w \in Ws : "Persistence" \in done[w] =>
       w \notin teardowns /\ (InJob(w) => job.at = 10 /\ job.failed = {})
  /\ job.kind = "teardown" =>
       \A i \in 1 .. job.at - 1 : Order[i] \in done[job.w] \cup job.failed

\* The leases that w reads through, holds or is about to read through.
Held(w) == (mount[w] \cup {lease[w], parked[w], rem[w].repl}) \ {0}

\* A mounted overlay has its leases and its directory, and a holder with a
\* mount is known to the handle.
SafeMount(w) ==
  /\ Mounted(w) => mount[w] \subseteq leases /\ scratch[w]
  /\ holder[w] /\ mount[w] # {} => pid[w]

\* A lease is below the next number, and no two workspaces share one.
Fresh ==
  /\ \A w \in Ws : \A l \in Held(w) \cup leases : l < nextLease
  /\ \A w \in Ws : \A v \in Ws \ {w} : Held(v) \cap Held(w) = {}

\* What a remount under way has: a replacement that is not yet in use, and an
\* old lease that is no longer.
Switching(w) ==
  /\ rem[w].stage = "switch" => rem[w].repl \in leases \ (mount[w] \cup {lease[w], parked[w]})
  /\ rem[w].stage = "release" =>
       lease[w] \notin mount[w] /\ lease[w] # rem[w].repl /\ rem[w].effect = "switched"
  /\ rem[w].stage = "apply" => rem[w].effect # "none"

\* The part of the invariant about mounts and leases.
Mounts == Fresh /\ \A w \in Ws : SafeMount(w) /\ Switching(w)

\* Removing a workspace from the ring leaves a ring that is no longer.
LEMMA WithoutSeq ==
  ASSUME NEW s \in Seq(Ws), NEW w
  PROVE  /\ Without(s, w) \in Seq(Ws)
         /\ Len(Without(s, w)) <= Len(s)
<1>1. CASE \E i \in 1 .. Len(s) : s[i] = w
  <2> DEFINE hole == CHOOSE i \in 1 .. Len(s) : s[i] = w
             t == [i \in 1 .. Len(s) - 1 |-> IF i < hole THEN s[i] ELSE s[i + 1]]
  <2>1. Without(s, w) = t
    BY <1>1, Zenon DEF Without
  <2>2. Len(s) - 1 \in Nat /\ t \in [1 .. Len(s) - 1 -> Ws]
    <3>1. Len(s) \in Nat /\ \A i \in 1 .. Len(s) : s[i] \in Ws
      OBVIOUS
    <3>2. hole \in 1 .. Len(s)
      BY <1>1, Zenon
    <3>3. Len(s) - 1 \in Nat
      BY <3>1, <3>2
    <3>4. \A i \in 1 .. Len(s) - 1 : t[i] \in Ws
      BY <3>1, <3>2, <3>3
    <3> HIDE DEF hole
    <3> QED BY <3>3, <3>4, Zenon
  <2> HIDE DEF t
  <2>3. t \in Seq(Ws) /\ Len(t) = Len(s) - 1
    BY <2>2
  <2> QED BY <2>1, <2>3
<1>2. CASE ~\E i \in 1 .. Len(s) : s[i] = w
  <2>1. Without(s, w) = s
    BY <1>2, Zenon DEF Without
  <2> QED BY <2>1
<1> QED BY <1>1, <1>2, Zenon

\* The nine steps of a pass.
LEMMA OrderSteps ==
  /\ Order \in [1 .. 9 -> Steps]
  /\ Order[1] = "Holder" /\ Order[2] = "Commands" /\ Order[3] = "NamespaceFds"
  /\ Order[4] = "Network" /\ Order[5] = "Mounts" /\ Order[6] = "Scratch"
  /\ Order[7] = "Leases" /\ Order[8] = "LeaseAccounting" /\ Order[9] = "Persistence"
BY DEF Order, Steps

\* What may hold the state lock.
Jobs == [kind : {"idle", "queue", "setup", "teardown"}, w : Ws \cup {NoWs}, at : 0 .. 10,
         stage : Stages \cup {"none"}, failed : SUBSET Steps,
         why : {"none", "destroy", "rollback", "reconcile", "shutdown"}, queue : SUBSET Ws]

\* The end of a step keeps the types.
LEMMA AdvanceType ==
  ASSUME RawTypeOK, Control, NEW ok \in BOOLEAN, Advance(ok), job.kind = "teardown", job.at <= 9
  PROVE  job' \in Jobs /\ done' \in PerWs(SUBSET Steps)
<1>1. job \in Jobs /\ job.at \in 1 .. 9 /\ job.w \in Ws /\ done \in [Ws -> SUBSET Steps]
  BY DEF RawTypeOK, Jobs, Control, PerWs
<1>2. Order[job.at] \in Steps
  BY <1>1, OrderSteps, Zenon
<1>3. job.at + 1 \in 0 .. 10 /\ job.failed \cup {Order[job.at]} \in SUBSET Steps
  BY <1>1, <1>2 DEF Jobs
<1>4. job' \in Jobs
  BY <1>1, <1>3, Zenon DEF Advance, Jobs
<1>5. done' \in PerWs(SUBSET Steps)
  BY <1>1, <1>2, Zenon DEF Advance, PerWs
<1> QED BY <1>4, <1>5, Zenon

\* Why a teardown runs.
Whys == {"none", "destroy", "rollback", "reconcile", "shutdown"}

\* The jobs the calls leave behind are jobs.
LEMMA JobTypes ==
  /\ NoJob \in Jobs
  /\ \A Q \in SUBSET Ws, why \in Whys :
       Queue(Q, why) \in Jobs /\ \A w \in Ws : Pass(w, why, Q) \in Jobs
  /\ \A w \in Ws, stage \in Stages : Setup(w, stage) \in Jobs
<1>1. 0 \in 0 .. 10 /\ 1 \in 0 .. 10 /\ {} \in SUBSET Steps /\ {} \in SUBSET Ws
  OBVIOUS
<1>2. NoJob \in Jobs
  BY <1>1, Zenon DEF NoJob, Jobs
<1>3. ASSUME NEW Q \in SUBSET Ws, NEW why \in Whys
      PROVE  Queue(Q, why) \in Jobs /\ \A w \in Ws : Pass(w, why, Q) \in Jobs
  <2>1. Queue(Q, why) \in Jobs
    BY <1>1, <1>2, Zenon DEF NoJob, Jobs, Queue, Whys
  <2>2. \A w \in Ws : Pass(w, why, Q) \in Jobs
    BY <1>1, <1>2, Zenon DEF NoJob, Jobs, Pass, Whys
  <2> QED BY <2>1, <2>2, Zenon
<1>4. ASSUME NEW w \in Ws, NEW stage \in Stages
      PROVE  Setup(w, stage) \in Jobs
  BY <1>1, <1>2, Zenon DEF NoJob, Jobs, Setup
<1> QED BY <1>2, <1>3, <1>4, Zenon

\* The bounds are numbers.
LEMMA Bounds ==
  /\ {PoolSize, Ring, MaxLease, MaxRemounts, MaxFaults, MaxCrashes} \subseteq Nat
  /\ Ring > 0 /\ NoWs \notin Ws
BY ManagerAssumption, Zenon

\* The budgets keep their types.
LEMMA BudgetType ==
  ASSUME RawTypeOK, Fault \/ NoFault
  PROVE  faults' \in 0 .. MaxFaults /\ crashes' \in 0 .. MaxCrashes
BY Bounds, SMTT(30) DEF RawTypeOK, Fault, NoFault, budget

\* A record of manager.json.
Recs == [kept : BOOLEAN, lease : 0 .. MaxLease, parked : 0 .. MaxLease]

\* What is persisted has its type.
LEMMA RecordsType ==
  ASSUME RawTypeOK, NEW H, NEW T
  PROVE  Records(H, T) \in PerWs(Recs)
<1>1. NoRecord \in Recs
  BY Bounds DEF NoRecord, Recs
<1>2. \A w \in Ws : [kept |-> TRUE, lease |-> lease[w], parked |-> parked[w]] \in Recs
  BY Zenon DEF RawTypeOK, PerWs, Recs
<1> QED BY <1>1, <1>2, Zenon DEF Records, PerWs

\* And so has the file after the attempt.
LEMMA PersistType ==
  ASSUME RawTypeOK, NEW H, NEW T, PersistOk(Records(H, T)) \/ PersistErr(Records(H, T))
  PROVE  /\ recorded' \in PerWs(Recs)
         /\ faults' \in 0 .. MaxFaults /\ crashes' \in 0 .. MaxCrashes
<1>1. recorded' \in PerWs(Recs)
  <2>1. Records(H, T) \in PerWs(Recs)
    BY RecordsType, Zenon
  <2>2. recorded \in PerWs(Recs)
    BY Zenon DEF RawTypeOK, Recs
  <2> QED BY <2>1, <2>2, Zenon DEF PersistOk, PersistErr
<1>2. Fault \/ NoFault
  BY Zenon DEF PersistOk, PersistErr
<1> QED BY <1>1, <1>2, BudgetType, Zenon

(* The ten steps of a pass. *)
LEMMA PassTypes ==
  ASSUME RawTypeOK, Control,
         \/ StepSkip \/ StepHolder \/ StepCommands \/ StepNamespaceFds \/ StepNetwork
         \/ StepMounts \/ StepScratch \/ StepLeases \/ StepLeaseAccounting \/ StepPersistence
  PROVE  RawTypeOK'
<1> USE DEF At
<1>0. job \in Jobs /\ (job.kind = "teardown" => job.w \in Ws) /\ done \in [Ws -> SUBSET Steps]
  BY Zenon DEF RawTypeOK, Jobs, Control, PerWs
<1>1. CASE StepSkip
  <2>1. job' \in Jobs
    BY <1>0, <1>1 DEF StepSkip, Jobs, Control
  <2> QED BY <1>1, <2>1, Zenon DEF RawTypeOK, Jobs, StepSkip, outside, machine, budget, remountVars
<1>2. CASE StepHolder
  <2>1. job' \in Jobs /\ done' \in PerWs(SUBSET Steps)
    BY <1>2, AdvanceType, Zenon DEF StepHolder
  <2>2. holder' \in PerWs(BOOLEAN)
    <3>1. holder \in [Ws -> BOOLEAN] /\ (holder' = holder \/ holder' = [holder EXCEPT ![job.w] = FALSE])
      BY <1>2, Zenon DEF RawTypeOK, StepHolder, PerWs
    <3> QED BY <3>1, Zenon DEF PerWs
  <2>3. faults' \in 0 .. MaxFaults /\ crashes' \in 0 .. MaxCrashes
    BY <1>2, BudgetType, Zenon DEF StepHolder
  <2> QED BY <1>2, <2>1, <2>2, <2>3, Zenon DEF RawTypeOK, Jobs, StepHolder, outside, remountVars
<1>3. CASE StepCommands
  <2>1. job' \in Jobs /\ done' \in PerWs(SUBSET Steps)
    BY <1>3, AdvanceType, Zenon DEF StepCommands
  <2> QED BY <1>3, <2>1, Zenon DEF RawTypeOK, Jobs, StepCommands, outside, machine, remountVars, NoFault, budget
<1>4. CASE StepNamespaceFds
  <2>1. job' \in Jobs /\ done' \in PerWs(SUBSET Steps)
    BY <1>4, AdvanceType, Zenon DEF StepNamespaceFds
  <2>2. fds' \in PerWs(BOOLEAN)
    BY <1>0, <1>4, Zenon DEF RawTypeOK, StepNamespaceFds, PerWs
  <2>3. faults' \in 0 .. MaxFaults /\ crashes' \in 0 .. MaxCrashes
    BY <1>4, BudgetType, Zenon DEF StepNamespaceFds
  <2> QED BY <1>4, <2>1, <2>2, <2>3, Zenon DEF RawTypeOK, Jobs, StepNamespaceFds, outside, machine, remountVars
<1>5. CASE StepNetwork
  <2>1. job' \in Jobs /\ done' \in PerWs(SUBSET Steps)
    BY <1>5, AdvanceType, Zenon DEF StepNetwork
  <2>2. ip' \in PerWs(0 .. PoolSize) /\ pool' \subseteq 1 .. PoolSize
    <3>1. 0 \in 0 .. PoolSize
      BY Bounds
    <3>2. ip \in [Ws -> 0 .. PoolSize] /\ pool \subseteq 1 .. PoolSize
      BY Zenon DEF RawTypeOK, PerWs
    <3> QED BY <1>0, <1>5, <3>1, <3>2, Zenon DEF StepNetwork, PerWs
  <2>3. faults' \in 0 .. MaxFaults /\ crashes' \in 0 .. MaxCrashes
    BY <1>5, BudgetType, Zenon DEF StepNetwork
  <2> QED BY <1>5, <2>1, <2>2, <2>3, Zenon DEF RawTypeOK, Jobs, StepNetwork, outside, machine, remountVars
<1>6. CASE StepMounts
  <2>1. job' \in Jobs /\ done' \in PerWs(SUBSET Steps)
    BY <1>6, AdvanceType, ("Holder" \in done[job.w] /\ ~fds[job.w]) \in BOOLEAN, Zenon DEF StepMounts
  <2> QED BY <1>6, <2>1, Zenon DEF RawTypeOK, Jobs, StepMounts, outside, machine, remountVars, NoFault, budget
<1>7. CASE StepScratch
  <2>1. job' \in Jobs /\ done' \in PerWs(SUBSET Steps)
    BY <1>7, AdvanceType, Zenon DEF StepScratch
  <2>2. scratch' \in PerWs(BOOLEAN)
    BY <1>0, <1>7, Zenon DEF RawTypeOK, StepScratch, PerWs
  <2>3. faults' \in 0 .. MaxFaults /\ crashes' \in 0 .. MaxCrashes
    BY <1>7, BudgetType, Zenon DEF StepScratch
  <2> QED BY <1>7, <2>1, <2>2, <2>3, Zenon DEF RawTypeOK, Jobs, StepScratch, outside, remountVars
<1>8. CASE StepLeases
  <2>1. job' \in Jobs /\ done' \in PerWs(SUBSET Steps)
    BY <1>8, AdvanceType, Zenon DEF StepLeases
  <2>2. leases' \subseteq Leases
    BY <1>8, Zenon DEF RawTypeOK, StepLeases
  <2>3. freed' \in PerWs(SUBSET {"main", "parked"})
    <3>1. \A w : Unfreed(w) \subseteq {"main", "parked"}
      BY Zenon DEF Unfreed
    <3>2. freed \in [Ws -> SUBSET {"main", "parked"}] /\ job.w \in Ws
      BY <1>0, <1>8, Zenon DEF RawTypeOK, PerWs, StepLeases
    <3>3. \/ freed' = freed \/ freed' = [freed EXCEPT ![job.w] = @ \cup Unfreed(job.w)]
          \/ \E bad : freed' = [freed EXCEPT ![job.w] = @ \cup (Unfreed(job.w) \ {bad})]
      BY <1>8, Zenon DEF StepLeases
    <3> QED BY <3>1, <3>2, <3>3, Zenon DEF PerWs
  <2>4. faults' \in 0 .. MaxFaults /\ crashes' \in 0 .. MaxCrashes
    BY <1>8, BudgetType, Zenon DEF StepLeases
  <2> QED BY <1>8, <2>1, <2>2, <2>3, <2>4, Zenon DEF RawTypeOK, Jobs, StepLeases, outside, machine, remountVars
<1>9. CASE StepLeaseAccounting
  <2>1. job' \in Jobs /\ done' \in PerWs(SUBSET Steps)
    BY <1>9, AdvanceType, (Unfreed(job.w) = {}) \in BOOLEAN, Zenon DEF StepLeaseAccounting
  <2>2. faults' \in 0 .. MaxFaults /\ crashes' \in 0 .. MaxCrashes
    BY <1>9, BudgetType, Zenon DEF StepLeaseAccounting
  <2> QED BY <1>9, <2>1, <2>2, Zenon DEF RawTypeOK, Jobs, StepLeaseAccounting, outside, machine, remountVars
<1>10. CASE StepPersistence
  <2>1. job' \in Jobs /\ done' \in PerWs(SUBSET Steps)
    BY <1>10, AdvanceType, Zenon DEF StepPersistence
  <2>2. recorded' \in PerWs(Recs) /\ faults' \in 0 .. MaxFaults /\ crashes' \in 0 .. MaxCrashes
    BY <1>10, PersistType, Zenon DEF StepPersistence, RawTypeOK, Recs, NoFault, budget
  <2> QED BY <1>10, <2>1, <2>2, Zenon DEF RawTypeOK, Jobs, Recs, StepPersistence, outside, machine, remountVars
<1> QED BY <1>1, <1>2, <1>3, <1>4, <1>5, <1>6, <1>7, <1>8, <1>9, <1>10, Zenon

(* What a pass ends with, and what is still to be torn down. *)
LEMMA EndTypes ==
  ASSUME RawTypeOK, Control, TeardownEnds \/ Close
  PROVE  RawTypeOK'
<1>0. job \in Jobs /\ (job.kind = "teardown" => job.w \in Ws) /\ job.queue \in SUBSET Ws /\ job.why \in Whys
  BY Zenon DEF RawTypeOK, Jobs, Control, Whys
<1>1. CASE TeardownEnds
  <2> DEFINE w == job.w
  <2>0. w \in Ws
    BY <1>0, <1>1, Zenon DEF TeardownEnds
  <2>1. job' \in Jobs
    BY <1>0, <1>1, JobTypes, Zenon DEF TeardownEnds
  <2>2. progress' \in PerWs({"new", "starting", "open", "closed", "gone", "failed", "lost", "dead"})
    BY <1>0, <1>1, Zenon DEF TeardownEnds, Told, RawTypeOK, PerWs
  <2>3. teardowns' \subseteq Ws
    BY <2>0, <1>1, Zenon DEF TeardownEnds, Record, Retain, RawTypeOK
  <2>4. completed' \in Seq(Ws) /\ Len(completed') <= Ring
    <3>1. CASE UNCHANGED completed
      BY <3>1, Zenon DEF RawTypeOK
    <3>2. CASE completed' = Remember(w)
      <4> DEFINE rest == Without(completed, w)
      <4>1. rest \in Seq(Ws) /\ Len(rest) <= Ring /\ Ring \in Nat \ {0}
        BY WithoutSeq, Bounds DEF RawTypeOK
      <4> HIDE DEF rest
      <4>2. CASE Len(rest) = Ring
        <5>1. rest # <<>>
          BY <4>1, <4>2, Zenon
        <5>2. Tail(rest) \in Seq(Ws) /\ Len(Tail(rest)) = Ring - 1
          BY <4>1, <4>2, <5>1
        <5>3. completed' = Append(Tail(rest), w)
          BY <3>2, <4>2, Zenon DEF Remember, rest
        <5> QED BY <2>0, <4>1, <5>2, <5>3
      <4>3. CASE Len(rest) # Ring
        <5>1. completed' = Append(rest, w)
          BY <3>2, <4>3, Zenon DEF Remember, rest
        <5> QED BY <2>0, <4>1, <4>3, <5>1
      <4> QED BY <4>2, <4>3, Zenon
    <3> QED BY <1>1, <3>1, <3>2, Zenon DEF TeardownEnds, Record, Retain
  <2>5. recorded' \in PerWs(Recs) /\ faults' \in 0 .. MaxFaults /\ crashes' \in 0 .. MaxCrashes
    <3>1. CASE PersistOk(Records(handles, teardowns \cup {w})) \/ PersistErr(Records(handles, teardowns \cup {w}))
      BY <3>1, PersistType, Zenon
    <3>2. CASE UNCHANGED <<recorded, budget>>
      BY <3>2, Zenon DEF RawTypeOK, budget, Recs
    <3> QED BY <1>1, <3>1, <3>2, Zenon DEF TeardownEnds, Record, Retain
  <2>6. svc' \in {"open", "closing", "done"} /\ holder' \in PerWs(BOOLEAN)
    <3>1. CASE Stop
      BY <3>1, Zenon DEF Stop, PerWs
    <3>2. CASE UNCHANGED <<svc, holder>>
      BY <3>2, Zenon DEF RawTypeOK
    <3> QED BY <1>1, <3>1, <3>2, Zenon DEF TeardownEnds
  <2> QED BY <1>1, <2>1, <2>2, <2>3, <2>4, <2>5, <2>6, Zenon DEF RawTypeOK, Jobs, Recs, TeardownEnds, remountVars, leaseVars
<1>2. CASE Close
  <2>1. job' \in Jobs
    BY <1>0, <1>2, JobTypes DEF Close
  <2>2. handles' \subseteq Ws /\ teardowns' \subseteq Ws
    BY <1>2, Zenon DEF Close, RawTypeOK
  <2> QED BY <1>2, <2>1, <2>2, Zenon DEF RawTypeOK, Jobs, Close, remountVars, leaseVars, machine, budget
<1> QED BY <1>1, <1>2, Zenon

(* The stages of a creation. *)
LEMMA SetupTypes ==
  ASSUME RawTypeOK, Control, Starts,
         \/ SetupDirs \/ SetupHolder \/ SetupFds \/ SetupVeth \/ SetupMount \/ SetupNet \/ SetupPublish
  PROVE  RawTypeOK'
<1> USE DEF In, setupFrame, remountVars, leaseVars
<1>0. /\ job.kind = "setup" => job.w \in Ws
      /\ \A w \in Ws : Rollback(w) \in Jobs
      /\ \A w \in Ws, stage \in Stages : Setup(w, stage) \in Jobs
      /\ Stages = {"dirs", "holder", "fds", "veth", "mount", "net", "publish"}
      /\ NoJob \in Jobs
  BY JobTypes, Zenon DEF Control, Rollback, Whys, Stages
<1>1. CASE SetupDirs
  <2>1. job' \in Jobs
    BY <1>0, <1>1, Zenon DEF SetupDirs, Goes, Fails
  <2>2. scratch' \in PerWs(BOOLEAN)
    BY <1>0, <1>1, Zenon DEF SetupDirs, RawTypeOK, PerWs
  <2>3. faults' \in 0 .. MaxFaults /\ crashes' \in 0 .. MaxCrashes
    BY <1>1, BudgetType, Zenon DEF SetupDirs, Goes, Fails
  <2> QED BY <1>1, <2>1, <2>2, <2>3, Zenon DEF RawTypeOK, Jobs, SetupDirs
<1>2. CASE SetupHolder
  <2>1. job' \in Jobs
    BY <1>0, <1>2, Zenon DEF SetupHolder, Goes, Fails
  <2>2. holder' \in PerWs(BOOLEAN) /\ pid' \in PerWs(BOOLEAN) /\ fds' \in PerWs(BOOLEAN)
    BY <1>0, <1>2, Zenon DEF SetupHolder, RawTypeOK, PerWs
  <2>3. faults' \in 0 .. MaxFaults /\ crashes' \in 0 .. MaxCrashes
    BY <1>2, BudgetType, Zenon DEF SetupHolder, Goes, Fails
  <2> QED BY <1>2, <2>1, <2>2, <2>3, Zenon DEF RawTypeOK, Jobs, SetupHolder
<1>3. CASE SetupFds
  <2>1. job' \in Jobs
    BY <1>0, <1>3, Zenon DEF SetupFds, Goes, Fails
  <2>3. faults' \in 0 .. MaxFaults /\ crashes' \in 0 .. MaxCrashes
    BY <1>3, BudgetType, Zenon DEF SetupFds, Goes, Fails
  <2> QED BY <1>3, <2>1, <2>3, Zenon DEF RawTypeOK, Jobs, SetupFds, machine
<1>4. CASE SetupVeth
  <2>1. job' \in Jobs
    BY <1>0, <1>4, Zenon DEF SetupVeth, Goes, Fails
  <2>2. ip' \in PerWs(0 .. PoolSize) /\ pool' \subseteq 1 .. PoolSize
    <3>1. \A a \in Lowest(Spare) : a \in 1 .. PoolSize
      BY Zenon DEF Lowest, Spare
    <3>2. ip \in [Ws -> 0 .. PoolSize] /\ pool \subseteq 1 .. PoolSize /\ PoolSize \in Nat
      BY Bounds, Zenon DEF RawTypeOK, PerWs
    <3>3. CASE UNCHANGED <<ip, pool>>
      BY <3>2, <3>3, Zenon DEF PerWs
    <3>4. ASSUME NEW a \in Lowest(Spare), ip' = [ip EXCEPT ![job.w] = a], pool' = pool \cup {a}
          PROVE  ip' \in PerWs(0 .. PoolSize) /\ pool' \subseteq 1 .. PoolSize
      <4>1. a \in 1 .. PoolSize /\ a \in 0 .. PoolSize
        BY <3>1, <3>2
      <4> QED BY <3>2, <3>4, <4>1, Zenon DEF PerWs
    <3> QED BY <1>4, <3>3, <3>4, Zenon DEF SetupVeth
  <2>3. faults' \in 0 .. MaxFaults /\ crashes' \in 0 .. MaxCrashes
    BY <1>4, BudgetType, Zenon DEF SetupVeth, Goes, Fails, NoFault
  <2> QED BY <1>4, <2>1, <2>2, <2>3, Zenon DEF RawTypeOK, Jobs, SetupVeth, machine
<1>5. CASE SetupMount
  <2>1. job' \in Jobs
    BY <1>0, <1>5, Zenon DEF SetupMount, Goes, Fails
  <2>2. mount' \in PerWs(SUBSET Leases)
    <3>1. mount \in [Ws -> SUBSET Leases] /\ lease[job.w] \in Leases
      BY <1>5, Zenon DEF SetupMount, RawTypeOK, PerWs, Starts
    <3> QED BY <1>0, <1>5, <3>1 DEF SetupMount, PerWs
  <2>3. faults' \in 0 .. MaxFaults /\ crashes' \in 0 .. MaxCrashes
    BY <1>5, BudgetType, Zenon DEF SetupMount, Goes, Fails
  <2> QED BY <1>5, <2>1, <2>2, <2>3, Zenon DEF RawTypeOK, Jobs, SetupMount
<1>6. CASE SetupNet
  <2>1. job' \in Jobs
    BY <1>0, <1>6, Zenon DEF SetupNet, Goes, Fails
  <2>3. faults' \in 0 .. MaxFaults /\ crashes' \in 0 .. MaxCrashes
    BY <1>6, BudgetType, Zenon DEF SetupNet, Goes, Fails
  <2> QED BY <1>6, <2>1, <2>3, Zenon DEF RawTypeOK, Jobs, SetupNet, machine
<1>7. CASE SetupPublish
  <2>1. job' \in Jobs
    BY <1>0, <1>7, Zenon DEF SetupPublish
  <2>2. handles' \subseteq Ws
    BY <1>0, <1>7, Zenon DEF SetupPublish, RawTypeOK
  <2>3. progress' \in PerWs({"new", "starting", "open", "closed", "gone", "failed", "lost", "dead"})
    BY <1>0, <1>7, Zenon DEF SetupPublish, RawTypeOK, PerWs
  <2>4. recorded' \in PerWs(Recs) /\ faults' \in 0 .. MaxFaults /\ crashes' \in 0 .. MaxCrashes
    BY <1>7, PersistType, Zenon DEF SetupPublish
  <2> QED BY <1>7, <2>1, <2>2, <2>3, <2>4, Zenon DEF RawTypeOK, Jobs, Recs, SetupPublish, machine
<1> QED BY <1>1, <1>2, <1>3, <1>4, <1>5, <1>6, <1>7, Zenon

(* The other calls of the service, the environment and the restart. *)
LEMMA CallTypes ==
  ASSUME RawTypeOK, Control, NEW w \in Ws,
         Create(w) \/ OpenRaw(w) \/ DestroyRaw(w) \/ Forget(w) \/ HolderDies(w)
  PROVE  RawTypeOK'
<1> USE DEF memory, remountVars, leaseVars, machine
<1>0. teardowns \in SUBSET Ws /\ {w} \in SUBSET Ws /\ "dirs" \in Stages
  BY Zenon DEF RawTypeOK, Stages
<1>1. CASE Create(w)
  <2>1. job' \in Jobs
    BY <1>0, <1>1, JobTypes, Zenon DEF Create, Whys
  <2>2. progress' \in PerWs({"new", "starting", "open", "closed", "gone", "failed", "lost", "dead"})
    BY <1>1, Zenon DEF Create, RawTypeOK, PerWs
  <2> QED BY <1>1, <2>1, <2>2, Zenon DEF RawTypeOK, Jobs, Create, budget
<1>2. CASE OpenRaw(w)
  <2>0. nextLease \in 1 .. MaxLease /\ MaxLease \in Nat
    BY <1>2, Bounds DEF OpenRaw, RawTypeOK
  <2>1. job' \in Jobs
    <3>1. Setup(w, "dirs") \in Jobs /\ job \in Jobs
      BY <1>0, JobTypes, Zenon DEF RawTypeOK, Jobs
    <3> QED BY <1>2, <3>1, Zenon DEF OpenRaw
  <2>2. progress' \in PerWs({"new", "starting", "open", "closed", "gone", "failed", "lost", "dead"})
    BY <1>2, Zenon DEF OpenRaw, RawTypeOK, PerWs
  <2>3. leases' \subseteq Leases
    <3>1. leases \subseteq Leases /\ {nextLease} \subseteq Leases
      BY <2>0, Zenon DEF RawTypeOK, Leases
    <3> QED BY <1>2, <3>1, Zenon DEF OpenRaw
  <2>4. nextLease' \in 1 .. MaxLease + 1
    BY <1>2, <2>0 DEF OpenRaw
  <2>5. lease' \in PerWs(0 .. MaxLease)
    <3>1. nextLease \in 0 .. MaxLease /\ lease \in [Ws -> 0 .. MaxLease]
      BY <2>0 DEF RawTypeOK, PerWs
    <3> QED BY <1>2, <3>1, Zenon DEF OpenRaw, PerWs
  <2>6. faults' \in 0 .. MaxFaults /\ crashes' \in 0 .. MaxCrashes
    BY <1>2, BudgetType, Zenon DEF OpenRaw
  <2> QED BY <1>2, <2>1, <2>2, <2>3, <2>4, <2>5, <2>6, Zenon DEF RawTypeOK, Jobs, OpenRaw
<1>3. CASE DestroyRaw(w)
  <2>1. job' \in Jobs
    <3>1. Queue({w}, "destroy") \in Jobs /\ job \in Jobs
      BY <1>0, JobTypes, Zenon DEF RawTypeOK, Jobs, Whys
    <3> QED BY <1>3, <3>1, Zenon DEF DestroyRaw
  <2>2. progress' \in PerWs({"new", "starting", "open", "closed", "gone", "failed", "lost", "dead"})
    BY <1>3, Zenon DEF DestroyRaw, RawTypeOK, PerWs
  <2> QED BY <1>3, <2>1, <2>2, Zenon DEF RawTypeOK, Jobs, DestroyRaw, budget
<1>4. CASE Forget(w)
  <2>1. completed' \in Seq(Ws) /\ Len(completed') <= Ring
    <3>1. Without(completed, w) \in Seq(Ws) /\ Len(Without(completed, w)) <= Len(completed)
      BY WithoutSeq, Zenon DEF RawTypeOK
    <3> QED BY <1>4, <3>1, Bounds DEF Forget, RawTypeOK
  <2>2. progress' \in PerWs({"new", "starting", "open", "closed", "gone", "failed", "lost", "dead"})
    BY <1>4, Zenon DEF Forget, RawTypeOK, PerWs
  <2> QED BY <1>4, <2>1, <2>2, SMTT(20) DEF RawTypeOK, Forget, budget
<1>5. CASE HolderDies(w)
  <2>1. holder' \in PerWs(BOOLEAN)
    BY <1>5, Zenon DEF HolderDies, RawTypeOK, PerWs
  <2>2. faults' \in 0 .. MaxFaults /\ crashes' \in 0 .. MaxCrashes
    BY <1>5, BudgetType, Zenon DEF HolderDies
  <2> QED BY <1>5, <2>1, <2>2 DEF RawTypeOK, HolderDies
<1> QED BY <1>1, <1>2, <1>3, <1>4, <1>5, Zenon

\* The sweeps, the shutdown, the crash and the boot keep the types.
LEMMA WorldTypes ==
  ASSUME RawTypeOK, Control, ReconcileRaw \/ ShutdownRaw \/ PersistSweep \/ Crash \/ Boot
  PROVE  RawTypeOK'
<1> USE DEF memory, remountVars, leaseVars, machine
<1>0. teardowns \in SUBSET Ws /\ handles \cup teardowns \in SUBSET Ws
  BY Zenon DEF RawTypeOK
<1>1. CASE ReconcileRaw
  <2>1. job' \in Jobs
    BY <1>0, <1>1, JobTypes, Zenon DEF ReconcileRaw, Whys
  <2> QED BY <1>1, <2>1, Zenon DEF RawTypeOK, Jobs, ReconcileRaw, budget
<1>2. CASE ShutdownRaw
  <2>1. job' \in Jobs
    BY <1>0, <1>2, JobTypes, Zenon DEF ShutdownRaw, Whys
  <2>2. svc' \in {"open", "closing", "done"} /\ holder' \in PerWs(BOOLEAN)
    <3>1. CASE Stop
      BY <3>1, Zenon DEF Stop, PerWs
    <3>2. CASE svc' = "closing" /\ UNCHANGED holder
      BY <3>2, Zenon DEF RawTypeOK
    <3> QED BY <1>2, <3>1, <3>2, Zenon DEF ShutdownRaw
  <2> QED BY <1>2, <2>1, <2>2, Zenon DEF RawTypeOK, Jobs, ShutdownRaw, budget
<1>3. CASE PersistSweep
  <2>1. recorded' \in PerWs(Recs) /\ faults' \in 0 .. MaxFaults /\ crashes' \in 0 .. MaxCrashes
    BY <1>3, PersistType, Zenon DEF PersistSweep
  <2> QED BY <1>3, <2>1, ZenonT(40) DEF RawTypeOK, Recs, PersistSweep
<1>4. CASE Crash
  <2>1. job' \in Jobs
    BY <1>4, JobTypes, Zenon DEF Crash
  <2>2. completed' \in Seq(Ws) /\ Len(completed') <= Ring
    BY <1>4, Bounds DEF Crash
  <2>3. /\ 0 \in 0 .. MaxLease /\ 0 \in 0 .. PoolSize
        /\ NoRemount \in [stage : {"none", "switch", "release", "apply"}, repl : 0 .. MaxLease,
                          effect : {"none", "switched", "pinned", "faulty"}]
    BY Bounds DEF NoRemount
  <2>4. /\ done' \in PerWs(SUBSET Steps) /\ freed' \in PerWs(SUBSET {"main", "parked"})
        /\ lease' \in PerWs(0 .. MaxLease) /\ parked' \in PerWs(0 .. MaxLease) /\ ip' \in PerWs(0 .. PoolSize)
        /\ pid' \in PerWs(BOOLEAN) /\ fds' \in PerWs(BOOLEAN)
        /\ holder' \in PerWs(BOOLEAN) /\ mount' \in PerWs(SUBSET Leases)
    BY <1>4, <2>3, Zenon DEF Crash, PerWs
  <2>5. rem' \in PerWs([stage : {"none", "switch", "release", "apply"}, repl : 0 .. MaxLease,
                        effect : {"none", "switched", "pinned", "faulty"}])
    BY <1>4, <2>3, Zenon DEF Crash, PerWs
  <2>6. progress' \in PerWs({"new", "starting", "open", "closed", "gone", "failed", "lost", "dead"})
    BY <1>4, Zenon DEF Crash, PerWs
  <2>7. crashes' \in 0 .. MaxCrashes /\ faults' \in 0 .. MaxFaults
    BY <1>4, Bounds, SMTT(20) DEF Crash, RawTypeOK
  <2> QED BY <1>4, <2>1, <2>2, <2>4, <2>5, <2>6, <2>7, Zenon DEF Crash, RawTypeOK, Jobs
<1>5. CASE Boot
  <2>1. scratch' \in PerWs(BOOLEAN)
    <3>1. PICK bad : scratch' = [w \in Ws |-> scratch[w] /\ w \notin {v \in Ws : recorded[v].kept} \ bad]
      BY <1>5, Zenon DEF Boot
    <3>2. \A w \in Ws : (scratch[w] /\ w \notin {v \in Ws : recorded[v].kept} \ bad) \in BOOLEAN
      BY Zenon
    <3> QED BY <3>1, <3>2, Zenon DEF PerWs
  <2>2. recorded' \in PerWs(Recs) /\ faults' \in 0 .. MaxFaults /\ crashes' \in 0 .. MaxCrashes
    <3>1. CASE PersistOk(Records({}, {})) \/ PersistErr(Records({}, {}))
      BY <3>1, PersistType, Zenon
    <3>2. CASE UNCHANGED recorded /\ Fault
      BY <3>2, BudgetType, Zenon DEF RawTypeOK, Recs
    <3> QED BY <1>5, <3>1, <3>2, Zenon DEF Boot
  <2> QED BY <1>5, <2>1, <2>2 DEF RawTypeOK, Recs, Boot
<1> QED BY <1>1, <1>2, <1>3, <1>4, <1>5, Zenon
\* A remount under way.
Rems == [stage : {"none", "switch", "release", "apply"}, repl : 0 .. MaxLease,
         effect : {"none", "switched", "pinned", "faulty"}]

\* A release takes one lease out of the registry, or none.
LEMMA ReleaseType ==
  ASSUME RawTypeOK, NEW l, RemountRelease(l)
  PROVE  /\ leases' \subseteq leases /\ leases \ {l} \subseteq leases'
         /\ faults' \in 0 .. MaxFaults /\ crashes' \in 0 .. MaxCrashes
<1>1. leases' \subseteq leases /\ leases \ {l} \subseteq leases'
  BY Zenon DEF RemountRelease, Released, ReleaseErr
<1>2. Fault \/ NoFault
  BY Zenon DEF RemountRelease, Released, ReleaseErr
<1> QED BY <1>1, <1>2, BudgetType, Zenon

(* The steps of a remount. *)
LEMMA RemountTypes ==
  ASSUME RawTypeOK, Control, Mounts, NEW w \in Ws,
         \/ RemountLease(w) \/ RemountSkip(w) \/ RemountSwitch(w)
         \/ RemountReleaseOld(w) \/ RemountApply(w)
  PROVE  RawTypeOK'
<1> USE DEF remountFrame
<1>0. NoRemount \in Rems /\ rem \in [Ws -> Rems] /\ rem[w] \in Rems
  BY Bounds, SMTT(20) DEF RawTypeOK, Rems, PerWs, NoRemount
<1>1. CASE RemountLease(w)
  <2>0. nextLease \in 1 .. MaxLease /\ MaxLease \in Nat
    BY <1>1, Bounds DEF RemountLease, RawTypeOK
  <2>1. rem' \in PerWs(Rems)
    <3>1. [stage |-> "switch", repl |-> nextLease, effect |-> "none"] \in Rems
      BY <2>0 DEF Rems
    <3> QED BY <1>0, <1>1, <3>1, Zenon DEF RemountLease, PerWs
  <2>2. leases' \subseteq Leases /\ nextLease' \in 1 .. MaxLease + 1
    <3>1. leases \subseteq Leases /\ {nextLease} \subseteq Leases
      BY <2>0, Zenon DEF RawTypeOK, Leases
    <3> QED BY <1>1, <2>0, <3>1 DEF RemountLease
  <2>3. remounts' \in PerWs(0 .. MaxRemounts)
    <3>0. remounts \in [Ws -> 0 .. MaxRemounts] /\ MaxRemounts \in Nat /\ remounts[w] < MaxRemounts
      BY <1>1, Bounds, Zenon DEF RawTypeOK, PerWs, RemountLease
    <3>1. remounts[w] + 1 \in 0 .. MaxRemounts /\ remounts \in [Ws -> 0 .. MaxRemounts]
      BY <3>0, SMTT(20)
    <3> QED BY <1>1, <3>1, Zenon DEF RemountLease, PerWs
  <2> QED BY <1>1, <2>1, <2>2, <2>3, SMTT(20) DEF RawTypeOK, Rems, RemountLease, budget
<1>2. CASE RemountSkip(w)
  <2>1. rem' \in PerWs(Rems)
    BY <1>0, <1>2, Zenon DEF RemountSkip, PerWs
  <2>2. leases' \subseteq leases /\ faults' \in 0 .. MaxFaults /\ crashes' \in 0 .. MaxCrashes
    BY <1>2, ReleaseType, Zenon DEF RemountSkip
  <2> QED BY <1>2, <2>1, <2>2 DEF RawTypeOK, Rems, RemountSkip
<1>3. CASE RemountSwitch(w)
  <2>1. rem' \in PerWs(Rems)
    BY <1>0, <1>3 DEF RemountSwitch, PerWs, Rems
  <2>2. mount' \in PerWs(SUBSET Leases)
    <3>1. mount \in [Ws -> SUBSET Leases] /\ rem[w].repl \in Leases
      BY <1>3, Zenon DEF RemountSwitch, RawTypeOK, PerWs, Mounts, Switching
    <3> QED BY <1>3, <3>1 DEF RemountSwitch, PerWs
  <2> QED BY <1>3, <2>1, <2>2 DEF RawTypeOK, Rems, RemountSwitch, leaseVars, budget
<1>4. CASE RemountReleaseOld(w)
  <2>1. rem' \in PerWs(Rems)
    BY <1>0, <1>4, Zenon DEF RemountReleaseOld, PerWs, Rems
  <2>2. leases' \subseteq leases /\ faults' \in 0 .. MaxFaults /\ crashes' \in 0 .. MaxCrashes
    BY <1>4, ReleaseType, Zenon DEF RemountReleaseOld
  <2> QED BY <1>4, <2>1, <2>2 DEF RawTypeOK, Rems, RemountReleaseOld
<1>5. CASE RemountApply(w)
  <2>1. rem' \in PerWs(Rems)
    BY <1>0, <1>5, Zenon DEF RemountApply, PerWs
  <2>2. Parks(w) \in 0 .. MaxLease /\ rem[w].repl \in 0 .. MaxLease
    BY <1>0, Bounds DEF Parks, Rems, RawTypeOK, PerWs
  <2>3. lease' \in PerWs(0 .. MaxLease) /\ parked' \in PerWs(0 .. MaxLease)
    BY <1>5, <2>2, Zenon DEF RemountApply, RawTypeOK, PerWs
  <2> QED BY <1>5, <2>1, <2>3 DEF RawTypeOK, Rems, RemountApply, leaseVars, budget
<1> QED BY <1>1, <1>2, <1>3, <1>4, <1>5, Zenon

(* Every step keeps the types. *)
LEMMA TypeStep ==
  ASSUME RawTypeOK, Control, Starts, Mounts, RawNext
  PROVE  RawTypeOK'
BY PassTypes, EndTypes, SetupTypes, CallTypes, WorldTypes, RemountTypes, Zenon DEF RawNext
-----------------------------------------------------------------------------
(* The fields of the jobs the calls leave behind. *)
LEMMA IdleJob ==
  ASSUME NEW j, j = NoJob
  PROVE  /\ j.kind = "idle" /\ j.w = NoWs /\ j.at = 0 /\ j.stage = "none"
         /\ j.failed = {} /\ j.why = "none" /\ j.queue = {}
BY DEF NoJob

\* A queue of nothing is no job.
LEMMA EmptyQueue ==
  ASSUME NEW j, NEW Q, NEW why, j = Queue(Q, why), Q = {}
  PROVE  j = NoJob
BY Zenon DEF Queue

\* The fields of a queue.
LEMMA QueueJob ==
  ASSUME NEW j, NEW Q, NEW why, j = Queue(Q, why), Q # {}
  PROVE  /\ j.kind = "queue" /\ j.w = NoWs /\ j.at = 0 /\ j.stage = "none"
         /\ j.failed = {} /\ j.why = why /\ j.queue = Q
BY DEF NoJob, Queue

\* The fields of a pass.
LEMMA PassJob ==
  ASSUME NEW j, NEW w, NEW why, NEW Q, j = Pass(w, why, Q)
  PROVE  /\ j.kind = "teardown" /\ j.w = w /\ j.at = 1 /\ j.stage = "none"
         /\ j.failed = {} /\ j.why = why /\ j.queue = Q
BY DEF NoJob, Pass

\* The fields of a creation.
LEMMA SetupJob ==
  ASSUME NEW j, NEW w, NEW stage, j = Setup(w, stage)
  PROVE  /\ j.kind = "setup" /\ j.w = w /\ j.at = 0 /\ j.stage = stage
         /\ j.failed = {} /\ j.why = "none" /\ j.queue = {}
BY DEF NoJob, Setup

\* A step of a pass.
PassStep ==
  \/ StepSkip \/ StepHolder \/ StepCommands \/ StepNamespaceFds \/ StepNetwork
  \/ StepMounts \/ StepScratch \/ StepLeases \/ StepLeaseAccounting \/ StepPersistence

\* A stage of a creation.
SetupStep ==
  \/ SetupDirs \/ SetupHolder \/ SetupFds \/ SetupVeth \/ SetupMount \/ SetupNet \/ SetupPublish

\* A step of a remount.
RemountStep(w) ==
  \/ RemountLease(w) \/ RemountSkip(w) \/ RemountSwitch(w) \/ RemountReleaseOld(w) \/ RemountApply(w)

(* What the steps of a pass have in common: the next step of the order is  *)
(* completed or counted as failed.                                         *)
LEMMA PassShape ==
  ASSUME RawTypeOK, Control, PassStep
  PROVE  /\ up /\ job.kind = "teardown" /\ job.at \in 1 .. 9 /\ job.w \in Ws
         /\ job'.kind = "teardown" /\ job'.w = job.w /\ job'.at = job.at + 1
         /\ job'.stage = job.stage /\ job'.why = job.why /\ job'.queue = job.queue
         /\ UNCHANGED <<outside, mount>>
         /\ \A v \in Ws \ {job.w} : done'[v] = done[v]
         /\ \/ done'[job.w] = done[job.w] \cup {Order[job.at]} /\ job'.failed = job.failed
            \/ done'[job.w] = done[job.w] /\ job'.failed = job.failed \cup {Order[job.at]}
                 /\ Order[job.at] \notin done[job.w]
<1>0. job \in Jobs /\ (job.kind = "teardown" => job.w \in Ws /\ job.at \in 1 .. 10) /\ done \in [Ws -> SUBSET Steps]
  BY Zenon DEF RawTypeOK, Jobs, Control, PerWs
<1>1. ASSUME NEW ok \in BOOLEAN, Advance(ok), NEW step, At(step)
      PROVE  /\ up /\ job.kind = "teardown" /\ job.at \in 1 .. 9 /\ job.w \in Ws
             /\ job'.kind = "teardown" /\ job'.w = job.w /\ job'.at = job.at + 1
             /\ job'.stage = job.stage /\ job'.why = job.why /\ job'.queue = job.queue
             /\ \A v \in Ws \ {job.w} : done'[v] = done[v]
             /\ \/ done'[job.w] = done[job.w] \cup {Order[job.at]} /\ job'.failed = job.failed
                \/ done'[job.w] = done[job.w] /\ job'.failed = job.failed \cup {Order[job.at]}
                     /\ Order[job.at] \notin done[job.w]
  BY <1>0, <1>1 DEF Advance, At, Jobs
<1>2. CASE StepSkip
  BY <1>0, <1>2 DEF StepSkip, outside, machine, Jobs
<1>3. CASE StepHolder
  BY <1>1, <1>3, Zenon DEF StepHolder, outside
<1>4. CASE StepCommands
  BY <1>1, <1>4, Zenon DEF StepCommands, outside, machine
<1>5. CASE StepNamespaceFds
  BY <1>1, <1>5, Zenon DEF StepNamespaceFds, outside, machine
<1>6. CASE StepNetwork
  BY <1>1, <1>6, Zenon DEF StepNetwork, outside, machine
<1>7. CASE StepMounts
  <2>1. PICK ok \in BOOLEAN : Advance(ok)
    BY <1>7, Zenon DEF StepMounts
  <2> QED BY <1>1, <1>7, <2>1, Zenon DEF StepMounts, outside, machine
<1>8. CASE StepScratch
  BY <1>1, <1>8, Zenon DEF StepScratch, outside
<1>9. CASE StepLeases
  BY <1>1, <1>9, Zenon DEF StepLeases, outside, machine
<1>10. CASE StepLeaseAccounting
  <2>1. PICK ok \in BOOLEAN : Advance(ok)
    BY <1>10, Zenon DEF StepLeaseAccounting
  <2> QED BY <1>1, <1>10, <2>1, Zenon DEF StepLeaseAccounting, outside, machine
<1>11. CASE StepPersistence
  BY <1>1, <1>11, Zenon DEF StepPersistence, outside, machine
<1> QED BY <1>2, <1>3, <1>4, <1>5, <1>6, <1>7, <1>8, <1>9, <1>10, <1>11, Zenon DEF PassStep

(* What the stages of a creation have in common. *)
LEMMA SetupShape ==
  ASSUME RawTypeOK, Control, SetupStep
  PROVE  /\ up /\ job.kind = "setup" /\ job.w \in Ws
         /\ UNCHANGED setupFrame
         /\ \/ \E stage \in Stages \ {"dirs"} : job' = Setup(job.w, stage) /\ UNCHANGED <<handles, progress, recorded>>
            \/ job' = Rollback(job.w) /\ UNCHANGED <<handles, progress>>
            \/ /\ job' = NoJob /\ handles' = handles \cup {job.w}
               /\ progress' = [progress EXCEPT ![job.w] = "open"]
         /\ \A v \in Ws \ {job.w} :
              /\ pid'[v] = pid[v] /\ fds'[v] = fds[v] /\ ip'[v] = ip[v] /\ holder'[v] = holder[v]
              /\ mount'[v] = mount[v] /\ scratch'[v] = scratch[v]
<1> USE DEF In, Goes, Fails, machine, setupFrame, Stages
<1>0. job.kind = "setup" => job.w \in Ws
  BY Zenon DEF Control
<1>T. /\ pid \in [Ws -> BOOLEAN] /\ fds \in [Ws -> BOOLEAN] /\ ip \in [Ws -> 0 .. PoolSize]
      /\ holder \in [Ws -> BOOLEAN] /\ mount \in [Ws -> SUBSET Leases] /\ scratch \in [Ws -> BOOLEAN]
  BY Zenon DEF RawTypeOK, PerWs
<1>1. CASE SetupDirs
  BY <1>0, <1>T, <1>1, Zenon DEF SetupDirs
<1>2. CASE SetupHolder
  BY <1>0, <1>T, <1>2, Zenon DEF SetupHolder
<1>3. CASE SetupFds
  BY <1>0, <1>T, <1>3, Zenon DEF SetupFds
<1>4. CASE SetupVeth
  BY <1>0, <1>T, <1>4, Zenon DEF SetupVeth
<1>5. CASE SetupMount
  BY <1>0, <1>T, <1>5, Zenon DEF SetupMount
<1>6. CASE SetupNet
  BY <1>0, <1>T, <1>6, Zenon DEF SetupNet
<1>7. CASE SetupPublish
  BY <1>0, <1>T, <1>7, Zenon DEF SetupPublish
<1> QED BY <1>1, <1>2, <1>3, <1>4, <1>5, <1>6, <1>7, Zenon DEF SetupStep

(* A remount leaves everything but its own workspace's leases alone. *)
LEMMA RemountShape ==
  ASSUME RawTypeOK, Control, NEW w \in Ws, RemountStep(w)
  PROVE  /\ up /\ w \in handles \ job.queue
         /\ UNCHANGED remountFrame
         /\ \A v \in Ws \ {w} :
              /\ lease'[v] = lease[v] /\ parked'[v] = parked[v] /\ rem'[v] = rem[v]
              /\ remounts'[v] = remounts[v] /\ mount'[v] = mount[v]
         /\ rem'[w] # NoRemount => rem'[w].stage # "none" /\ svc = "open"
<1> USE DEF Free
<1>0. /\ lease \in [Ws -> 0 .. MaxLease] /\ parked \in [Ws -> 0 .. MaxLease] /\ rem \in [Ws -> Rems]
      /\ remounts \in [Ws -> 0 .. MaxRemounts] /\ mount \in [Ws -> SUBSET Leases] /\ rem[w] \in Rems
  BY Zenon DEF RawTypeOK, PerWs, Rems
<1>1. /\ rem[w] # NoRemount => w \in handles \ job.queue /\ w \in Busy
      /\ svc # "open" => Busy = {}
  BY Zenon DEF Control, Busy
<1>2. CASE RemountLease(w)
  <2>1. job.queue = {}
    BY <1>2, IdleJob, Zenon DEF RemountLease, Control
  <2> QED BY <1>0, <1>2, <2>1, Zenon DEF RemountLease, remountFrame
<1>3. CASE RemountSkip(w)
  BY <1>0, <1>1, <1>3 DEF RemountSkip, remountFrame, NoRemount, leaseVars
<1>4. CASE RemountSwitch(w)
  <2>1. /\ rem'[w].stage # "none" /\ rem[w] # NoRemount
        /\ \A v \in Ws \ {w} : rem'[v] = rem[v] /\ mount'[v] = mount[v]
    BY <1>0, <1>4 DEF RemountSwitch, NoRemount, Rems
  <2> QED BY <1>1, <1>4, <2>1, Zenon DEF RemountSwitch, remountFrame, leaseVars
<1>5. CASE RemountReleaseOld(w)
  BY <1>0, <1>1, <1>5 DEF RemountReleaseOld, remountFrame, NoRemount, Rems, leaseVars
<1>6. CASE RemountApply(w)
  BY <1>0, <1>1, <1>6 DEF RemountApply, remountFrame, NoRemount, leaseVars
<1> QED BY <1>2, <1>3, <1>4, <1>5, <1>6, Zenon DEF RemountStep

-----------------------------------------------------------------------------
(* Who holds the lock, and what a call may find. *)
LEMMA ControlPass ==
  ASSUME RawTypeOK, Control, PassStep \/ TeardownEnds \/ Close
  PROVE  Control'
<1>0. job \in Jobs /\ progress \in [Ws -> {"new", "starting", "open", "closed", "gone", "failed", "lost", "dead"}]
  BY Zenon DEF RawTypeOK, Jobs, PerWs
<1>1. CASE PassStep
  BY <1>0, <1>1, PassShape, IdleJob DEF Control, outside, remountVars, Busy, Jobs
<1>2. CASE TeardownEnds
  <2> DEFINE w == job.w
             ok == job.failed = {}
  <2>1. /\ up /\ job.kind = "teardown" /\ w \in Ws \ (handles \cup teardowns)
        /\ handles' = handles /\ rem' = rem /\ up' = up
    BY <1>2, Zenon DEF TeardownEnds, Control, remountVars
  <2>2. teardowns' = IF ok THEN teardowns ELSE teardowns \cup {w}
    BY <1>2, Zenon DEF TeardownEnds, Record, Retain
  <2>3. /\ \A v \in Ws \ {w} : progress'[v] = progress[v]
        /\ progress'[w] = progress[w] \/ (ok /\ job.why = "destroy") \/ (progress'[w] = "failed" /\ job.why = "rollback")
        /\ progress'[w] \in {"closed", "failed"} \/ progress'[w] = progress[w]
    BY <1>0, <1>2, <2>1, Zenon DEF TeardownEnds, Told
  <2>4. \/ job' = NoJob /\ job.queue = {}
        \/ job'.kind = "queue" /\ job'.why = job.why /\ job'.queue = job.queue /\ job.queue # {}
    BY <1>2, EmptyQueue, QueueJob DEF TeardownEnds
  <2>5. svc' = svc \/ (svc' = "done" /\ job.why = "shutdown" /\ job.queue = {} /\ handles = {} /\ teardowns' = {})
    BY <1>2, Zenon DEF TeardownEnds, Stop, Converged
  <2>7. ~ok => progress'[w] \in {"open", "failed"}
    BY <1>0, <1>2, <2>1, Zenon DEF TeardownEnds, Told, Control, Jobs
  <2>8. /\ job.why = "rollback" => job.queue = {}
        /\ job.why = "destroy" => \A v \in job.queue : progress[v] = "open"
        /\ job.queue \subseteq (handles \cup teardowns) \ {w} /\ job.queue \subseteq Ws
        /\ job.why # "none"
    BY <1>0, <2>1, Zenon DEF Control, Jobs
  <2> HIDE DEF w, ok
  <2>9. Busy' \subseteq Busy
    BY <2>1, <2>3, Zenon DEF Busy
  <2>10. /\ job'.kind = "idle" => job' = NoJob
         /\ job'.kind \in {"idle", "queue"}
         /\ job'.kind = "queue" => job'.why \notin {"none", "rollback"}
         /\ job'.queue \subseteq handles' \cup teardowns'
         /\ job'.why = "destroy" => \A v \in job'.queue : progress'[v] = "open"
    BY <2>1, <2>2, <2>3, <2>4, <2>8, IdleJob, Zenon
  <2>11. /\ job'.why = "shutdown" => svc' = "closing"
         /\ svc' # "open" => Busy' = {}
         /\ up' /\ (svc' = "done" => job' = NoJob /\ handles' = {} /\ teardowns' = {})
    BY <2>1, <2>4, <2>5, <2>9, IdleJob, Zenon DEF Control
  <2>12. /\ (handles \cap teardowns)' = {}
         /\ \A v \in handles' : progress'[v] = "open"
         /\ \A v \in teardowns' : progress'[v] \in {"open", "failed"}
    BY <2>1, <2>2, <2>3, <2>7 DEF Control, RawTypeOK
  <2>13. \A v \in Ws : rem'[v] # NoRemount => v \in handles' \ job'.queue /\ rem'[v].stage # "none"
    BY <2>1, <2>4, IdleJob, Zenon DEF Control
  <2> QED BY <2>10, <2>11, <2>12, <2>13, Zenon DEF Control
<1>3. CASE Close
  <2>1. PICK w \in job.queue : /\ job' = Pass(w, job.why, job.queue \ {w})
                              /\ handles' = handles \ {w} /\ teardowns' = teardowns \ {w}
    BY <1>3, Zenon DEF Close
  <2>2. up /\ job.kind = "queue" /\ w \in handles \cup teardowns /\ w \in Ws
    BY <1>3, Zenon DEF Close, Control, RawTypeOK
  <2>3. UNCHANGED <<up, svc, progress, rem>>
    BY <1>3, Zenon DEF Close, remountVars
  <2> QED BY <1>0, <2>1, <2>2, <2>3, PassJob DEF Control, Busy, Jobs
<1> QED BY <1>1, <1>2, <1>3, Zenon

\* The stages of a creation keep the lock's account.
LEMMA ControlSetup ==
  ASSUME RawTypeOK, Control, SetupStep
  PROVE  Control'
<1>0. /\ progress \in [Ws -> {"new", "starting", "open", "closed", "gone", "failed", "lost", "dead"}]
      /\ handles \subseteq Ws /\ teardowns \subseteq Ws
  BY Zenon DEF RawTypeOK, PerWs
<1> DEFINE w == job.w
<1>1. /\ up /\ job.kind = "setup" /\ w \in Ws \ (handles \cup teardowns) /\ progress[w] = "starting"
      /\ up' = up /\ svc' = svc /\ teardowns' = teardowns /\ rem' = rem /\ job.queue = {}
      /\ svc = "open"
  BY SetupShape, Zenon DEF Control, setupFrame, remountVars, Busy
<1>2. \/ /\ job'.kind = "setup" /\ job'.stage # "none" /\ job'.w = w /\ job'.why = "none"
         /\ job'.queue = {} /\ UNCHANGED <<handles, progress>>
      \/ /\ job'.kind = "teardown" /\ job'.at = 1 /\ job'.w = w /\ job'.why = "rollback"
         /\ job'.queue = {} /\ UNCHANGED <<handles, progress>>
      \/ /\ job' = NoJob /\ handles' = handles \cup {w}
         /\ progress' = [progress EXCEPT ![w] = "open"]
  BY SetupShape, PassJob, SetupJob DEF Rollback, Stages
<1> HIDE DEF w
<1>3. /\ \A v \in handles' : progress'[v] = "open"
      /\ \A v \in teardowns' : progress'[v] \in {"open", "failed"}
      /\ (handles \cap teardowns)' = {}
      /\ \A v \in Ws : rem'[v] # NoRemount => v \in handles' \ job'.queue /\ rem'[v].stage # "none"
  BY <1>0, <1>1, <1>2, IdleJob DEF Control
<1> QED BY <1>1, <1>2, <1>3, IdleJob DEF Control

\* So do the calls.
LEMMA ControlCalls ==
  ASSUME RawTypeOK, Control, NEW w \in Ws,
         Create(w) \/ OpenRaw(w) \/ DestroyRaw(w) \/ Forget(w) \/ HolderDies(w) \/ RemountStep(w)
  PROVE  Control'
<1> USE DEF Free, memory, remountVars
<1>0. /\ progress \in [Ws -> {"new", "starting", "open", "closed", "gone", "failed", "lost", "dead"}]
      /\ handles \subseteq Ws /\ teardowns \subseteq Ws
  BY Zenon DEF RawTypeOK, PerWs
<1>1. CASE Create(w)
  <2>1. /\ Free /\ job = NoJob /\ svc = "open" /\ progress[w] = "new" /\ w \notin handles \cup teardowns
        /\ progress' = [progress EXCEPT ![w] = "starting"]
        /\ UNCHANGED <<up, svc, handles, teardowns, rem>>
    BY <1>1, Zenon DEF Create, Control
  <2>2. \/ job' = NoJob
        \/ job'.kind = "queue" /\ job'.why = "reconcile" /\ job'.queue = teardowns
    BY <1>1, IdleJob, EmptyQueue, QueueJob, SMTT(20) DEF Create
  <2> QED BY <1>0, <2>1, <2>2, IdleJob, Zenon DEF Control
<1>2. CASE OpenRaw(w)
  <2>1. /\ Free /\ job = NoJob /\ progress[w] = "starting" /\ w \notin handles \cup teardowns
        /\ UNCHANGED <<up, svc, handles, teardowns, rem>> /\ svc = "open"
    BY <1>2, Zenon DEF OpenRaw, Control, Busy
  <2>2. \/ /\ job'.kind = "setup" /\ job'.stage = "dirs" /\ job'.w = w /\ job'.why = "none"
           /\ job'.queue = {} /\ UNCHANGED progress
        \/ job' = NoJob /\ progress' = [progress EXCEPT ![w] = "failed"]
    BY <1>2, <2>1, SetupJob DEF OpenRaw
  <2> QED BY <1>0, <2>1, <2>2, PassJob DEF Control
<1>3. CASE DestroyRaw(w)
  <2>1. /\ Free /\ job = NoJob /\ progress[w] = "open" /\ rem[w] = NoRemount
        /\ UNCHANGED <<up, svc, handles, teardowns, rem>>
    BY <1>3, Zenon DEF DestroyRaw, Control
  <2>2. CASE w \in handles \cup teardowns
    <3>0. job' = Queue({w}, "destroy") /\ {w} # {} /\ UNCHANGED progress
      BY <1>3, <2>2, Zenon DEF DestroyRaw
    <3>1. /\ job'.kind = "queue" /\ job'.why = "destroy" /\ job'.queue = {w} /\ UNCHANGED progress
      BY <3>0, EmptyQueue, QueueJob, SMTT(20)
    <3> QED BY <2>1, <2>2, <3>1, IdleJob, Zenon DEF Control, Busy
  <2>3. CASE w \notin handles \cup teardowns
    <3>1. /\ job' = job /\ \A v \in Ws \ {w} : progress'[v] = progress[v]
          /\ progress'[w] \in {"closed", "lost"}
      BY <1>0, <1>3, <2>3, Zenon DEF DestroyRaw
    <3> QED BY <1>0, <2>1, <2>3, <3>1, IdleJob DEF Control, Busy
  <2> QED BY <2>2, <2>3, Zenon
<1>4. CASE Forget(w)
  <2>1. /\ Free /\ job = NoJob /\ progress[w] = "closed" /\ w \notin handles \cup teardowns
        /\ progress' = [progress EXCEPT ![w] = "gone"]
        /\ UNCHANGED <<up, svc, job, handles, teardowns, rem>>
    BY <1>4, Zenon DEF Forget, Control
  <2> QED BY <1>0, <2>1, IdleJob, Zenon DEF Control, Busy
<1>5. CASE HolderDies(w)
  <2>1. UNCHANGED <<up, svc, job, handles, teardowns, rem, progress>>
    BY <1>5, ZenonT(30) DEF HolderDies
  <2> QED BY <2>1, Zenon DEF Control, Busy
<1>6. CASE RemountStep(w)
  <2>1. /\ up /\ w \in handles \ job.queue
        /\ UNCHANGED <<up, svc, job, handles, teardowns, progress>>
        /\ \A v \in Ws \ {w} : rem'[v] = rem[v]
        /\ rem'[w] # NoRemount => rem'[w].stage # "none" /\ svc = "open"
    BY <1>6, RemountShape, Zenon DEF remountFrame
  <2> QED BY <2>1 DEF Control, Busy
<1> QED BY <1>1, <1>2, <1>3, <1>4, <1>5, <1>6, Zenon

\* So do the sweeps, the shutdown, the crash and the boot.
LEMMA ControlWorld ==
  ASSUME RawTypeOK, Control, ReconcileRaw \/ ShutdownRaw \/ PersistSweep \/ Crash \/ Boot
  PROVE  Control'
<1> USE DEF Free, memory, remountVars
<1>1. CASE ReconcileRaw
  <2>1. /\ up /\ job = NoJob /\ teardowns # {}
        /\ job'.kind = "queue" /\ job'.why = "reconcile" /\ job'.queue = teardowns
        /\ UNCHANGED <<up, svc, handles, teardowns, rem, progress>>
    BY <1>1, EmptyQueue, QueueJob DEF ReconcileRaw, Control
  <2> QED BY <2>1, IdleJob, Zenon DEF Control, Busy
<1>2. CASE ShutdownRaw
  <2>1. /\ up /\ job = NoJob /\ Busy = {}
        /\ UNCHANGED <<up, handles, teardowns, rem, progress>>
    BY <1>2, Zenon DEF ShutdownRaw, Control
  <2>2. \/ job' = NoJob /\ handles = {} /\ teardowns = {} /\ svc' = "done"
        \/ /\ job'.kind = "queue" /\ job'.why = "shutdown" /\ job'.queue = handles \cup teardowns
           /\ svc' = "closing"
    BY <1>2, EmptyQueue, QueueJob DEF ShutdownRaw, Stop
  <2> QED BY <2>1, <2>2, IdleJob, Zenon DEF Control, Busy
<1>3. CASE PersistSweep
  <2>1. UNCHANGED <<up, svc, job, handles, teardowns, rem, progress>>
    BY <1>3, Zenon DEF PersistSweep
  <2> QED BY <2>1, Zenon DEF Control, Busy
<1>4. CASE Crash
  <2>1. /\ job' = NoJob /\ handles' = {} /\ teardowns' = {} /\ svc' = "open" /\ ~up'
        /\ rem' = [v \in Ws |-> NoRemount]
    BY <1>4, Zenon DEF Crash
  <2> QED BY <2>1, IdleJob, Zenon DEF Control
<1>5. CASE Boot
  <2>1. UNCHANGED <<svc, job, handles, teardowns, rem, progress>> /\ up' /\ ~up
    BY <1>5, Zenon DEF Boot
  <2> QED BY <2>1, Zenon DEF Control, Busy
<1> QED BY <1>1, <1>2, <1>3, <1>4, <1>5, Zenon

\* So does every step.
LEMMA ControlStep ==
  ASSUME RawTypeOK, Control, RawNext
  PROVE  Control'
BY ControlPass, ControlSetup, ControlCalls, ControlWorld, Zenon DEF RawNext, PassStep, SetupStep, RemountStep

-----------------------------------------------------------------------------
(* A pass touches what its own workspace holds and nothing else. *)
LEMMA PassFrame ==
  ASSUME RawTypeOK, Control, PassStep
  PROVE  /\ \A v \in Ws \ {job.w} :
              /\ freed'[v] = freed[v] /\ fds'[v] = fds[v] /\ ip'[v] = ip[v]
              /\ holder'[v] = holder[v] /\ scratch'[v] = scratch[v]
         /\ leases' \subseteq leases
         /\ \A v \in Ws : /\ (fds'[v] => fds[v]) /\ (holder'[v] => holder[v]) /\ (scratch'[v] => scratch[v])
                         /\ ip'[v] \in {0, ip[v]}
<1> USE DEF outside, machine
<1>T. /\ job.kind = "teardown" => job.w \in Ws
      /\ fds \in [Ws -> BOOLEAN] /\ ip \in [Ws -> 0 .. PoolSize] /\ holder \in [Ws -> BOOLEAN]
      /\ scratch \in [Ws -> BOOLEAN] /\ freed \in [Ws -> SUBSET {"main", "parked"}]
  BY Zenon DEF RawTypeOK, PerWs, Control
<1>1. CASE StepSkip
  BY <1>1, Zenon DEF StepSkip
<1>2. CASE StepHolder
  BY <1>T, <1>2, Zenon DEF StepHolder, At
<1>3. CASE StepCommands
  BY <1>3, Zenon DEF StepCommands
<1>4. CASE StepNamespaceFds
  BY <1>T, <1>4, Zenon DEF StepNamespaceFds, At
<1>5. CASE StepNetwork
  BY <1>T, <1>5, Zenon DEF StepNetwork, At
<1>6. CASE StepMounts
  BY <1>6, Zenon DEF StepMounts
<1>7. CASE StepScratch
  BY <1>T, <1>7, Zenon DEF StepScratch, At
<1>8. CASE StepLeases
  BY <1>T, <1>8, Zenon DEF StepLeases, At
<1>9. CASE StepLeaseAccounting
  BY <1>9, Zenon DEF StepLeaseAccounting
<1>10. CASE StepPersistence
  BY <1>10, Zenon DEF StepPersistence
<1> QED BY <1>1, <1>2, <1>3, <1>4, <1>5, <1>6, <1>7, <1>8, <1>9, <1>10, Zenon DEF PassStep

(* Only what a handle or a call under way stands for enters manager.json. *)
LEMMA KeptRecords ==
  ASSUME RawTypeOK, NEW H, NEW T,
         PersistOk(Records(H, T)) \/ PersistErr(Records(H, T)), NEW v \in Ws
  PROVE  /\ recorded'[v].kept \in BOOLEAN
         /\ recorded'[v].kept => recorded[v].kept \/ v \in Kept(H, T)
         /\ ~recorded'[v].kept => ~recorded[v].kept \/ v \notin Kept(H, T)
         /\ PersistOk(Records(H, T)) => (recorded'[v].kept <=> v \in Kept(H, T))
<1>1. /\ v \in Kept(H, T) => Records(H, T)[v].kept = TRUE
      /\ v \notin Kept(H, T) => Records(H, T)[v].kept = FALSE
  BY Zenon DEF Records, NoRecord
<1>2. recorded'[v] = recorded[v] \/ recorded'[v] = Records(H, T)[v]
  BY Zenon DEF PersistOk, PersistErr
<1>3. recorded[v].kept \in BOOLEAN
  BY Zenon DEF RawTypeOK, PerWs
<1>4. PersistOk(Records(H, T)) => recorded'[v] = Records(H, T)[v]
  BY Zenon DEF PersistOk
<1>5. CASE v \in Kept(H, T)
  BY <1>1, <1>2, <1>3, <1>4, <1>5, Zenon
<1>6. CASE v \notin Kept(H, T)
  BY <1>1, <1>2, <1>3, <1>4, <1>6, Zenon
<1> QED BY <1>5, <1>6, Zenon

\* Only a workspace that has an owner enters manager.json.
LEMMA RecordedShape ==
  ASSUME RawTypeOK, Control, RawNext
  PROVE  \A v \in Ws : recorded'[v].kept => recorded[v].kept \/ Tracked(v)
<1> SUFFICES ASSUME NEW v \in Ws, recorded'[v].kept PROVE recorded[v].kept \/ Tracked(v)
  BY Zenon
<1>1. CASE UNCHANGED recorded
  BY <1>1, Zenon
<1>2. ASSUME NEW H, NEW T, PersistOk(Records(H, T)) \/ PersistErr(Records(H, T)),
             H \cup T \subseteq handles \cup teardowns \cup
                               (IF job.kind \in {"setup", "teardown"} THEN {job.w} ELSE {})
      PROVE  recorded[v].kept \/ Tracked(v)
  <2>1. recorded[v].kept \/ v \in Kept(H, T)
    BY <1>2, KeptRecords, Zenon
  <2> QED BY <1>2, <2>1, Zenon DEF Kept, Tracked
<1>3. CASE PassStep
  <2>1. CASE StepPersistence
    BY <1>1, <1>2, <2>1, Zenon DEF StepPersistence
  <2> QED BY <1>1, <1>3, <2>1, Zenon DEF PassStep, StepSkip, StepHolder, StepCommands, StepNamespaceFds,
       StepNetwork, StepMounts, StepScratch, StepLeases, StepLeaseAccounting
<1>4. CASE TeardownEnds
  BY <1>1, <1>2, <1>4, Zenon DEF TeardownEnds, Record, Retain
<1>5. CASE SetupStep
  <2>1. CASE SetupPublish
    BY <1>2, <2>1, Zenon DEF SetupPublish, In
  <2> QED BY <1>1, <1>5, <2>1, Zenon DEF SetupStep, SetupDirs, SetupHolder, SetupFds, SetupVeth, SetupMount, SetupNet
<1>6. CASE PersistSweep
  BY <1>2, <1>6, Zenon DEF PersistSweep
<1>7. CASE Boot
  BY <1>1, <1>2, <1>7, Zenon DEF Boot
<1>8. CASE Close \/ ReconcileRaw \/ ShutdownRaw \/ Crash
  BY <1>1, <1>8, Zenon DEF Close, ReconcileRaw, ShutdownRaw, Crash
<1>9. ASSUME NEW w \in Ws,
             Create(w) \/ OpenRaw(w) \/ DestroyRaw(w) \/ Forget(w) \/ HolderDies(w) \/ RemountStep(w)
      PROVE  recorded[v].kept \/ Tracked(v)
  BY <1>1, <1>9, Zenon DEF Create, OpenRaw, DestroyRaw, Forget, HolderDies, RemountStep, RemountLease,
       RemountSkip, RemountSwitch, RemountReleaseOld, RemountApply, remountFrame
<1> QED BY <1>3, <1>4, <1>5, <1>6, <1>7, <1>8, <1>9, Zenon DEF RawNext, PassStep, SetupStep, RemountStep

-----------------------------------------------------------------------------
(* A workspace that is not yet created owns nothing, a creation under way  *)
(* owns what its stages have made, and an open handle has its directory.   *)
LEMMA StartsFrame ==
  ASSUME Control, Starts, NEW v \in Ws, progress[v] \in {"new", "starting"}, ~InJob(v),
         /\ lease'[v] = lease[v] /\ parked'[v] = parked[v] /\ ip'[v] = ip[v] /\ pid'[v] = pid[v]
         /\ fds'[v] = fds[v] /\ mount'[v] = mount[v] /\ done'[v] = done[v] /\ freed'[v] = freed[v]
         /\ scratch'[v] = scratch[v] /\ (holder'[v] => holder[v]),
         recorded'[v].kept => recorded[v].kept \/ Tracked(v)
  PROVE  Clean(v)' /\ ~scratch'[v] /\ ~recorded'[v].kept
<1>1. Clean(v) /\ ~scratch[v] /\ ~recorded[v].kept
  BY Zenon DEF Starts
<1>2. ~Tracked(v)
  BY Zenon DEF Tracked, Control, InJob
<1> QED BY <1>1, <1>2, Zenon DEF Clean

\* A pass of one workspace gives nothing to another that is not yet created.
LEMMA StartsPass ==
  ASSUME RawTypeOK, Control, Starts, Control', RawNext, PassStep \/ TeardownEnds \/ Close
  PROVE  Starts'
<1>0. /\ progress \in [Ws -> {"new", "starting", "open", "closed", "gone", "failed", "lost", "dead"}]
      /\ handles \subseteq Ws /\ teardowns \subseteq Ws
  BY Zenon DEF RawTypeOK, PerWs
<1>K. \A v \in Ws : recorded'[v].kept => recorded[v].kept \/ Tracked(v)
  BY RecordedShape, Zenon
<1>1. CASE PassStep
  <2>1. /\ up /\ job.kind = "teardown" /\ job'.kind = "teardown" /\ job'.w = job.w /\ job.w \in Ws
        /\ job.w \notin handles \cup teardowns
        /\ UNCHANGED <<up, handles, teardowns, lease, parked, pid, progress, mount>>
        /\ \A v \in Ws \ {job.w} :
             /\ done'[v] = done[v] /\ freed'[v] = freed[v] /\ fds'[v] = fds[v] /\ ip'[v] = ip[v]
             /\ holder'[v] = holder[v] /\ scratch'[v] = scratch[v]
    BY <1>1, PassShape, PassFrame, Zenon DEF outside, Control
  <2>2. \A v \in Ws : progress'[v] \in {"new", "starting"} /\ ~InJob(v)' =>
          Clean(v)' /\ ~scratch'[v] /\ ~recorded'[v].kept
    <3> SUFFICES ASSUME NEW v \in Ws, progress'[v] \in {"new", "starting"}, ~InJob(v)'
                 PROVE  Clean(v)' /\ ~scratch'[v] /\ ~recorded'[v].kept
      BY Zenon
    <3>1. v # job.w /\ progress[v] \in {"new", "starting"} /\ ~InJob(v)
      BY <2>1, Zenon DEF InJob
    <3> QED BY <1>K, <2>1, <3>1, StartsFrame, Zenon
  <2>3. \A v \in handles' : done'[v] = {} /\ freed'[v] = {} /\ scratch'[v]
    BY <1>0, <2>1, Zenon DEF Starts
  <2>4. \A v \in Ws : progress'[v] = "open" => pid'[v]
    BY <2>1, Zenon DEF Starts
  <2>5. up' /\ job'.kind # "setup"
    BY <2>1
  <2> QED BY <2>2, <2>3, <2>4, <2>5, Zenon DEF Starts
<1>2. CASE TeardownEnds
  <2>1. /\ up /\ job.kind = "teardown" /\ job.w \in Ws \ (handles \cup teardowns)
        /\ progress[job.w] \in {"open", "failed"} \/ job.why = "rollback"
        /\ UNCHANGED <<up, handles, done, freed, lease, parked, pid, fds, ip, mount, scratch>>
    BY <1>2, Zenon DEF TeardownEnds, Control
  <2>2. /\ \A v \in Ws \ {job.w} : progress'[v] = progress[v]
        /\ progress'[job.w] \notin {"new", "starting"}
        /\ progress'[job.w] = "open" => progress[job.w] = "open"
    BY <1>0, <1>2, <2>1, Zenon DEF TeardownEnds, Told
  <2>3. job'.kind \notin {"setup", "teardown"}
    BY <1>2, IdleJob, EmptyQueue, QueueJob DEF TeardownEnds
  <2>4. \A v \in Ws : holder'[v] => holder[v]
    BY <1>2, Zenon DEF TeardownEnds, Stop
  <2>5. \A v \in Ws : progress'[v] \in {"new", "starting"} =>
          Clean(v)' /\ ~scratch'[v] /\ ~recorded'[v].kept
    <3> SUFFICES ASSUME NEW v \in Ws, progress'[v] \in {"new", "starting"}
                 PROVE  Clean(v)' /\ ~scratch'[v] /\ ~recorded'[v].kept
      BY Zenon
    <3>1. v # job.w /\ progress[v] \in {"new", "starting"} /\ ~InJob(v)
      BY <2>1, <2>2, Zenon DEF InJob
    <3> QED BY <1>K, <2>1, <2>4, <3>1, StartsFrame, Zenon
  <2> QED BY <1>0, <2>1, <2>2, <2>3, <2>5, Zenon DEF Starts
<1>3. CASE Close
  <2>1. PICK w \in job.queue : /\ job' = Pass(w, job.why, job.queue \ {w})
                              /\ handles' = handles \ {w} /\ teardowns' = teardowns \ {w}
    BY <1>3, Zenon DEF Close
  <2>2. /\ up /\ job.kind = "queue" /\ job'.kind = "teardown" /\ job'.w = w
        /\ UNCHANGED <<up, done, freed, lease, parked, pid, fds, ip, progress, holder, mount, scratch, recorded>>
    BY <1>3, <2>1, PassJob DEF Close, machine
  <2>3. \A v \in Ws : progress'[v] \in {"new", "starting"} /\ ~InJob(v)' =>
          Clean(v)' /\ ~scratch'[v] /\ ~recorded'[v].kept
    BY <2>2, Zenon DEF Starts, InJob, Clean
  <2> QED BY <1>0, <2>1, <2>2, <2>3, Zenon DEF Starts
<1> QED BY <1>1, <1>2, <1>3, Zenon

(* What the stages of a creation have made so far. *)
Making ==
  LET w == job.w IN
  /\ done[w] = {} /\ freed[w] = {} /\ parked[w] = 0 /\ lease[w] \in leases
  /\ job.stage # "dirs" => scratch[w]
  /\ IF job.stage \in {"dirs", "holder"} THEN ~pid[w] /\ ~fds[w] /\ ~holder[w] ELSE pid[w]
  /\ job.stage \in {"dirs", "holder", "fds", "veth"} => ip[w] = 0
  /\ job.stage \in {"dirs", "holder", "fds", "veth", "mount"} => mount[w] = {}

\* Each stage of a creation makes what the next one expects.
LEMMA MakingStep ==
  ASSUME RawTypeOK, Control, Starts, SetupStep, job'.kind = "setup"
  PROVE  Making'
<1> USE DEF In, Goes, Fails, machine, setupFrame, leaseVars
<1>0. job.kind = "setup" /\ job.w \in Ws /\ Making
  BY SetupShape, Zenon DEF Starts, Making
<1>T. /\ pid \in [Ws -> BOOLEAN] /\ fds \in [Ws -> BOOLEAN] /\ ip \in [Ws -> 0 .. PoolSize]
      /\ holder \in [Ws -> BOOLEAN] /\ mount \in [Ws -> SUBSET Leases] /\ scratch \in [Ws -> BOOLEAN]
  BY Zenon DEF RawTypeOK, PerWs
<1>1. Rollback(job.w).kind = "teardown" /\ NoJob.kind = "idle"
  BY IdleJob, PassJob, Zenon DEF Rollback
<1>2. \A stage : Setup(job.w, stage).w = job.w /\ Setup(job.w, stage).stage = stage
  BY SetupJob, SMTT(20)
<1>3. CASE SetupDirs
  BY <1>0, <1>T, <1>1, <1>2, <1>3, SMTT(20) DEF SetupDirs, Making
<1>4. CASE SetupHolder
  BY <1>0, <1>T, <1>1, <1>2, <1>4, SMTT(20) DEF SetupHolder, Making
<1>5. CASE SetupFds
  BY <1>0, <1>T, <1>1, <1>2, <1>5, SMTT(20) DEF SetupFds, Making
<1>6. CASE SetupVeth
  BY <1>0, <1>T, <1>1, <1>2, <1>6, SMTT(20) DEF SetupVeth, Making
<1>7. CASE SetupMount
  BY <1>0, <1>T, <1>1, <1>2, <1>7, SMTT(20) DEF SetupMount, Making
<1>8. CASE SetupNet
  BY <1>0, <1>T, <1>1, <1>2, <1>8 DEF SetupNet, Making
<1>9. CASE SetupPublish
  BY <1>0, <1>1, <1>9, Zenon DEF SetupPublish
<1> QED BY <1>3, <1>4, <1>5, <1>6, <1>7, <1>8, <1>9, Zenon DEF SetupStep

\* A creation gives its own workspace what its stages make, and others
\* nothing.
LEMMA StartsSetup ==
  ASSUME RawTypeOK, Control, Starts, RawNext, SetupStep
  PROVE  Starts'
<1>0. /\ progress \in [Ws -> {"new", "starting", "open", "closed", "gone", "failed", "lost", "dead"}]
      /\ handles \subseteq Ws /\ teardowns \subseteq Ws
  BY Zenon DEF RawTypeOK, PerWs
<1>K. \A v \in Ws : recorded'[v].kept => recorded[v].kept \/ Tracked(v)
  BY RecordedShape, Zenon
<1>1. /\ up /\ up' = up /\ job.kind = "setup" /\ job.w \in Ws /\ job.w \notin handles \cup teardowns
      /\ UNCHANGED <<teardowns, done, freed, lease, parked>>
      /\ \A v \in Ws \ {job.w} :
           /\ pid'[v] = pid[v] /\ fds'[v] = fds[v] /\ ip'[v] = ip[v] /\ holder'[v] = holder[v]
           /\ mount'[v] = mount[v] /\ scratch'[v] = scratch[v]
  BY SetupShape, Zenon DEF setupFrame, Control
<1>2. \/ job'.kind \in {"setup", "teardown"} /\ job'.w = job.w /\ UNCHANGED <<handles, progress>>
      \/ /\ job' = NoJob /\ handles' = handles \cup {job.w}
         /\ progress' = [progress EXCEPT ![job.w] = "open"]
  <2>1. \/ (\E stage : job' = Setup(job.w, stage)) /\ UNCHANGED <<handles, progress>>
        \/ job' = Rollback(job.w) /\ UNCHANGED <<handles, progress>>
        \/ /\ job' = NoJob /\ handles' = handles \cup {job.w}
           /\ progress' = [progress EXCEPT ![job.w] = "open"]
    BY SetupShape, Zenon
  <2>2. (\E stage : job' = Setup(job.w, stage)) => job'.kind = "setup" /\ job'.w = job.w
    BY SetupJob
  <2>3. job' = Rollback(job.w) => job'.kind = "teardown" /\ job'.w = job.w
    BY PassJob DEF Rollback
  <2> QED BY <2>1, <2>2, <2>3, Zenon
<1>3. \A v \in Ws : progress'[v] \in {"new", "starting"} /\ ~InJob(v)' =>
        Clean(v)' /\ ~scratch'[v] /\ ~recorded'[v].kept
  <2> SUFFICES ASSUME NEW v \in Ws, progress'[v] \in {"new", "starting"}, ~InJob(v)'
               PROVE  Clean(v)' /\ ~scratch'[v] /\ ~recorded'[v].kept
    BY Zenon
  <2>1. v # job.w
    BY <1>0, <1>1, <1>2, Zenon DEF InJob
  <2>2. progress[v] \in {"new", "starting"} /\ ~InJob(v)
    BY <1>0, <1>2, <2>1, Zenon DEF InJob
  <2> QED BY <1>K, <1>1, <2>1, <2>2, StartsFrame, Zenon
<1>4. job'.kind = "setup" => Making'
  BY MakingStep, Zenon
<1>5. job' = NoJob => done'[job.w] = {} /\ freed'[job.w] = {} /\ scratch'[job.w] /\ pid'[job.w]
  <2> SUFFICES ASSUME job' = NoJob PROVE done'[job.w] = {} /\ freed'[job.w] = {} /\ scratch'[job.w] /\ pid'[job.w]
    BY Zenon
  <2>1. NoJob.kind = "idle" /\ Rollback(job.w).kind = "teardown" /\ \A stage : Setup(job.w, stage).kind = "setup"
    BY IdleJob, PassJob, SetupJob, Zenon DEF Rollback
  <2>2. SetupPublish
    BY <2>1, Zenon DEF SetupStep, SetupDirs, SetupHolder, SetupFds, SetupVeth, SetupMount, SetupNet, Goes, Fails
  <2>3. job.stage = "publish" /\ UNCHANGED <<pid, scratch>>
    BY <2>2, Zenon DEF SetupPublish, In, machine
  <2> QED BY <1>1, <2>3, Zenon DEF Starts
<1>6. \A v \in handles' : done'[v] = {} /\ freed'[v] = {} /\ scratch'[v]
  <2> TAKE v \in handles'
  <2>1. CASE v = job.w
    BY <1>1, <1>2, <1>5, <2>1, Zenon
  <2>2. CASE v # job.w
    <3>1. v \in handles /\ v \in Ws
      BY <1>0, <1>2, <2>2, Zenon
    <3> QED BY <1>1, <2>2, <3>1, Zenon DEF Starts
  <2> QED BY <2>1, <2>2, Zenon
<1>7. \A v \in Ws : progress'[v] = "open" => pid'[v]
  <2> SUFFICES ASSUME NEW v \in Ws, progress'[v] = "open" PROVE pid'[v]
    BY Zenon
  <2>1. CASE v = job.w
    <3>1. progress[v] = "starting"
      BY <1>1, <2>1, Zenon DEF Control
    <3>2. job' = NoJob
      BY <1>2, <2>1, <3>1
    <3> QED BY <1>5, <2>1, <3>2, Zenon
  <2>2. CASE v # job.w
    <3>1. progress[v] = "open"
      BY <1>0, <1>2, <2>2, Zenon
    <3> QED BY <1>1, <2>2, <3>1, Zenon DEF Starts
  <2> QED BY <2>1, <2>2, Zenon
<1> QED BY <1>1, <1>3, <1>4, <1>6, <1>7, Zenon DEF Starts, Making

\* The calls give nothing to a workspace that is not yet created, but the
\* lease a creation starts with.
LEMMA StartsCalls ==
  ASSUME RawTypeOK, Control, Starts, Mounts, RawNext, NEW w \in Ws,
         Create(w) \/ OpenRaw(w) \/ DestroyRaw(w) \/ Forget(w) \/ HolderDies(w) \/ RemountStep(w)
  PROVE  Starts'
<1> USE DEF Free, memory, remountVars, machine
<1>0. /\ progress \in [Ws -> {"new", "starting", "open", "closed", "gone", "failed", "lost", "dead"}]
      /\ handles \subseteq Ws /\ teardowns \subseteq Ws
  BY Zenon DEF RawTypeOK, PerWs
<1>M. job.kind = "setup" => Making
  BY Zenon DEF Starts, Making
<1>1. CASE Create(w)
  <2>1. /\ up /\ ~InJob(w) /\ progress[w] = "new" /\ progress' = [progress EXCEPT ![w] = "starting"]
        /\ \A v \in Ws : ~InJob(v) /\ ~InJob(v)'
        /\ job'.kind # "setup"
        /\ UNCHANGED <<up, handles, done, freed, lease, parked, pid, fds, ip, holder, mount, scratch, recorded>>
    <3>1. job = NoJob /\ job' = Queue(teardowns, "reconcile")
      BY <1>1, Zenon DEF Create, Control
    <3>2. job.kind = "idle" /\ job'.kind \in {"idle", "queue"}
      BY <3>1, IdleJob, EmptyQueue, QueueJob
    <3> QED BY <1>1, <3>2, Zenon DEF Create, InJob
  <2>2. /\ \A v \in Ws : progress'[v] \in {"new", "starting"} => progress[v] \in {"new", "starting"}
        /\ \A v \in Ws : progress'[v] = "open" => progress[v] = "open"
    BY <1>0, <2>1, Zenon
  <2>3. \A v \in Ws : progress'[v] \in {"new", "starting"} =>
          Clean(v)' /\ ~scratch'[v] /\ ~recorded'[v].kept
    BY <2>1, <2>2, StartsFrame, Zenon
  <2> QED BY <2>1, <2>2, <2>3, Zenon DEF Starts
<1>2. CASE OpenRaw(w)
  <2>1. /\ up /\ progress[w] = "starting" /\ job = NoJob /\ w \notin handles
        /\ \A v \in Ws : ~InJob(v)
        /\ UNCHANGED <<up, handles, done, freed, parked, pid, fds, ip, holder, mount, scratch, recorded>>
    BY <1>2, IdleJob, Zenon DEF OpenRaw, InJob, Control
  <2>2. Clean(w) /\ ~scratch[w]
    BY <2>1, Zenon DEF Starts
  <2>3. lease \in [Ws -> 0 .. MaxLease]
    BY Zenon DEF RawTypeOK, PerWs
  <2>4. \/ /\ job'.kind = "setup" /\ job'.w = w /\ job'.stage = "dirs" /\ UNCHANGED progress
           /\ leases' = leases \cup {nextLease} /\ lease' = [lease EXCEPT ![w] = nextLease]
        \/ /\ job' = NoJob /\ progress' = [progress EXCEPT ![w] = "failed"]
           /\ UNCHANGED <<leases, lease>>
    <3>1. job' = Setup(w, "dirs") => job'.kind = "setup" /\ job'.w = w /\ job'.stage = "dirs"
      BY SetupJob
    <3> QED BY <1>2, <2>1, <3>1, Zenon DEF OpenRaw, leaseVars
  <2>5. job'.kind = "setup" => Making'
    BY <2>1, <2>2, <2>3, <2>4, IdleJob, Zenon DEF Making, Clean
  <2>6. \A v \in Ws : progress'[v] \in {"new", "starting"} /\ ~InJob(v)' =>
          Clean(v)' /\ ~scratch'[v] /\ ~recorded'[v].kept
    <3> SUFFICES ASSUME NEW v \in Ws, progress'[v] \in {"new", "starting"}, ~InJob(v)'
                 PROVE  Clean(v)' /\ ~scratch'[v] /\ ~recorded'[v].kept
      BY Zenon
    <3>1. v # w
      BY <1>0, <2>4, Zenon DEF InJob
    <3>2. progress[v] \in {"new", "starting"} /\ ~InJob(v) /\ lease'[v] = lease[v]
      BY <1>0, <2>1, <2>3, <2>4, <3>1, Zenon
    <3> QED BY <2>1, <3>2, StartsFrame, Zenon
  <2>7. \A v \in Ws : progress'[v] = "open" => pid'[v]
    BY <1>0, <2>1, <2>4, ZenonT(40) DEF Starts
  <2> QED BY <2>1, <2>5, <2>6, <2>7, Zenon DEF Starts, Making
<1>3. CASE DestroyRaw(w)
  <2>1. /\ up /\ \A v \in Ws : ~InJob(v) /\ ~InJob(v)'
        /\ job'.kind # "setup"
        /\ UNCHANGED <<up, handles, done, freed, lease, parked, pid, fds, ip, holder, mount, scratch, recorded>>
    BY <1>3, EmptyQueue, QueueJob, Zenon DEF DestroyRaw, InJob
  <2>2. /\ \A v \in Ws \ {w} : progress'[v] = progress[v]
        /\ progress[w] = "open" /\ progress'[w] \in {"open", "closed", "lost"}
    BY <1>0, <1>3, Zenon DEF DestroyRaw
  <2>3. \A v \in Ws : progress'[v] \in {"new", "starting"} =>
          Clean(v)' /\ ~scratch'[v] /\ ~recorded'[v].kept
    BY <2>1, <2>2, StartsFrame, Zenon
  <2>4. \A v \in Ws : progress'[v] = "open" => pid'[v]
    <3> SUFFICES ASSUME NEW v \in Ws, progress'[v] = "open" PROVE pid'[v]
      BY Zenon
    <3>1. progress[v] = "open"
      BY <2>2, Zenon
    <3> QED BY <2>1, <3>1, Zenon DEF Starts
  <2> QED BY <2>1, <2>3, <2>4, Zenon DEF Starts
<1>4. CASE Forget(w)
  <2>1. /\ up /\ progress' = [progress EXCEPT ![w] = "gone"] /\ job.kind = "idle"
        /\ UNCHANGED <<up, job, handles, done, freed, lease, parked, pid, fds, ip, holder, mount, scratch, recorded>>
    BY <1>4, Zenon DEF Forget
  <2>2. \A v \in Ws : ~InJob(v) /\ (progress'[v] = progress[v] \/ progress'[v] = "gone")
    <3> TAKE v \in Ws
    <3>1. ~InJob(v)
      BY <2>1, Zenon DEF InJob
    <3>2. progress'[v] = IF v = w THEN "gone" ELSE progress[v]
      BY <1>0, <2>1, Zenon
    <3> QED BY <3>1, <3>2, Zenon
  <2>3. \A v \in Ws : progress'[v] \in {"new", "starting"} =>
          Clean(v)' /\ ~scratch'[v] /\ ~recorded'[v].kept
    BY <2>1, <2>2, StartsFrame, Zenon
  <2>4. \A v \in Ws : progress'[v] = "open" => pid'[v]
    BY <2>1, <2>2, Zenon DEF Starts
  <2> QED BY <2>1, <2>3, <2>4, Zenon DEF Starts
<1>5. CASE HolderDies(w)
  <2>1. /\ up /\ \A v \in Ws : holder'[v] => holder[v]
        /\ UNCHANGED <<up, job, handles, done, freed, lease, parked, pid, fds, ip, progress, leases, mount, scratch, recorded>>
    BY <1>5, Zenon DEF HolderDies, leaseVars, RawTypeOK, PerWs
  <2>2. job'.kind = "setup" => Making'
    BY <1>M, <2>1, Zenon DEF Making, Control
  <2>3. \A v \in Ws : progress'[v] \in {"new", "starting"} /\ ~InJob(v)' =>
          Clean(v)' /\ ~scratch'[v] /\ ~recorded'[v].kept
    BY <2>1, Zenon DEF Starts, Clean, InJob
  <2> QED BY <2>1, <2>2, <2>3, Zenon DEF Starts, Making
<1>6. CASE RemountStep(w)
  <2>1. /\ up /\ w \in handles
        /\ UNCHANGED <<up, job, handles, teardowns, done, freed, pid, fds, ip, progress, holder, scratch, recorded>>
        /\ \A v \in Ws \ {w} : lease'[v] = lease[v] /\ parked'[v] = parked[v] /\ mount'[v] = mount[v]
    BY <1>6, RemountShape, Zenon DEF remountFrame
  <2>2. leases \ {lease[w], rem[w].repl} \subseteq leases'
    BY <1>6, ReleaseType, Zenon DEF RemountStep, RemountLease, RemountSkip, RemountSwitch, RemountReleaseOld,
         RemountApply, leaseVars
  <2>3. job.kind = "setup" => job.w \in Ws \ {w}
    BY <2>1, Zenon DEF Control
  <2>4. job.kind = "setup" => lease[job.w] \in leases'
    <3> SUFFICES ASSUME job.kind = "setup" PROVE lease[job.w] \in leases'
      BY Zenon
    <3>1. lease[job.w] \in leases /\ lease[job.w] # 0
      <4>1. lease[job.w] \in leases /\ leases \subseteq Leases
        BY <1>M, Zenon DEF Making, RawTypeOK
      <4>2. 0 \notin Leases
        BY DEF Leases
      <4> QED BY <4>1, <4>2, Zenon
    <3>2. lease[job.w] \notin {lease[w], rem[w].repl}
      BY <2>3, <3>1, Zenon DEF Mounts, Fresh, Held
    <3> QED BY <2>2, <3>1, <3>2, Zenon
  <2>5. job'.kind = "setup" => Making'
    BY <1>M, <2>1, <2>3, <2>4, Zenon DEF Making
  <2>6. progress[w] = "open"
    BY <2>1, Zenon DEF Control
  <2>7. \A v \in Ws : progress'[v] \in {"new", "starting"} /\ ~InJob(v)' =>
          Clean(v)' /\ ~scratch'[v] /\ ~recorded'[v].kept
    <3> SUFFICES ASSUME NEW v \in Ws, progress'[v] \in {"new", "starting"}, ~InJob(v)'
                 PROVE  Clean(v)' /\ ~scratch'[v] /\ ~recorded'[v].kept
      BY Zenon
    <3>1. v # w /\ progress[v] \in {"new", "starting"} /\ ~InJob(v)
      BY <2>1, <2>6, Zenon DEF InJob
    <3> QED BY <2>1, <3>1, StartsFrame, Zenon
  <2> QED BY <2>1, <2>5, <2>7, Zenon DEF Starts, Making
<1> QED BY <1>1, <1>2, <1>3, <1>4, <1>5, <1>6, Zenon

\* A crash takes everything that lives with the daemon.
LEMMA StartsWorld ==
  ASSUME RawTypeOK, Control, Starts, RawNext, ReconcileRaw \/ ShutdownRaw \/ PersistSweep \/ Crash \/ Boot
  PROVE  Starts'
<1> USE DEF Free, memory, remountVars, machine
<1>K. \A v \in Ws : recorded'[v].kept => recorded[v].kept \/ Tracked(v)
  BY RecordedShape, Zenon
<1>1. CASE ReconcileRaw \/ ShutdownRaw
  <2>1. /\ up /\ \A v \in Ws : ~InJob(v) /\ ~InJob(v)'
        /\ job'.kind # "setup"
        /\ UNCHANGED <<up, handles, done, freed, lease, parked, pid, fds, ip, mount, scratch, recorded, progress>>
    <3>1. job.kind = "idle" /\ \E Q, why : job' = Queue(Q, why)
      BY <1>1, Zenon DEF ReconcileRaw, ShutdownRaw
    <3>2. job'.kind \in {"idle", "queue"}
      BY <3>1, IdleJob, EmptyQueue, QueueJob
    <3> QED BY <1>1, <3>1, <3>2, Zenon DEF ReconcileRaw, ShutdownRaw, InJob
  <2>2. \A v \in Ws : holder'[v] => holder[v]
    BY <1>1, Zenon DEF ReconcileRaw, ShutdownRaw, Stop
  <2> QED BY <2>1, <2>2, Zenon DEF Starts, Clean
<1>2. CASE PersistSweep
  <2>1. /\ up /\ job.kind = "idle"
        /\ UNCHANGED <<up, job, handles, done, freed, lease, parked, pid, fds, ip, mount, holder, scratch, progress>>
    BY <1>2, Zenon DEF PersistSweep
  <2>2. \A v \in Ws : progress'[v] \in {"new", "starting"} => Clean(v)' /\ ~scratch'[v] /\ ~recorded'[v].kept
    BY <1>K, <2>1, Zenon DEF Starts, Clean, InJob, Tracked, Control
  <2> QED BY <2>1, <2>2, Zenon DEF Starts
<1>3. CASE Crash
  <2>1. /\ job'.kind = "idle" /\ handles' = {}
        /\ \A v \in Ws : Clean(v)' /\ scratch'[v] = scratch[v] /\ recorded'[v] = recorded[v]
    BY <1>3, IdleJob, Zenon DEF Crash, Clean
  <2>2. \A v \in Ws : /\ progress'[v] \in {"new", "starting"} => progress[v] = "new"
                      /\ progress'[v] # "open"
    BY <1>3, Zenon DEF Crash
  <2>3. \A v \in Ws : InJob(v) => progress[v] # "new"
    BY Zenon DEF InJob, Control
  <2> QED BY <2>1, <2>2, <2>3, Zenon DEF Starts
<1>4. CASE Boot
  <2>1. /\ ~up /\ up' /\ job = NoJob /\ handles = {} /\ teardowns = {}
        /\ UNCHANGED <<job, handles, done, freed, lease, parked, pid, fds, ip, mount, holder, progress>>
        /\ \A v \in Ws : scratch'[v] => scratch[v]
    BY <1>4, Zenon DEF Boot, Control
  <2>2. \A v \in Ws : progress'[v] \in {"new", "starting"} => Clean(v)' /\ ~scratch'[v] /\ ~recorded'[v].kept
    BY <1>K, <2>1, IdleJob, Zenon DEF Starts, Clean, InJob, Tracked
  <2> QED BY <2>1, <2>2, IdleJob, Zenon DEF Starts
<1> QED BY <1>1, <1>2, <1>3, <1>4, Zenon

\* Every step keeps Starts.
LEMMA StartsStep ==
  ASSUME RawTypeOK, Control, Starts, Mounts, Control', RawNext
  PROVE  Starts'
BY StartsPass, StartsSetup, StartsCalls, StartsWorld, Zenon DEF RawNext, PassStep, SetupStep, RemountStep

-----------------------------------------------------------------------------
(* The ledger of a teardown is true: a step it counts as completed has     *)
(* released what it stands for, and stays so.                              *)
LEMMA EntryFrame ==
  ASSUME NEW v \in Ws, Entry(v), done'[v] = done[v], freed'[v] = freed[v], lease'[v] = lease[v],
         parked'[v] = parked[v], pid'[v] = pid[v], holder'[v] => holder[v], fds'[v] => fds[v],
         ip'[v] \in {0, ip[v]}, scratch'[v] => scratch[v],
         {lease[v], parked[v]} \cap leases' \subseteq leases
  PROVE  Entry(v)'
BY Zenon DEF Entry

\* An empty ledger is true.
LEMMA EntryFresh ==
  ASSUME NEW v \in Ws, done'[v] = {}, freed'[v] = {}
  PROVE  Entry(v)'
BY Zenon DEF Entry

\* A lease is marked as freed once it has left the registry.
LEMMA LedgerLeases ==
  ASSUME RawTypeOK, Control, Ledger, StepLeases, NEW w, w = job.w
  PROVE  Entry(w)'
<1>0. /\ w \in Ws /\ At("Leases") /\ Entry(w) /\ Order[job.at] = "Leases" /\ "Leases" \notin done[w]
      /\ leases \subseteq 1 .. MaxLease /\ freed \in [Ws -> SUBSET {"main", "parked"}]
      /\ done \in [Ws -> SUBSET Steps]
      /\ UNCHANGED <<lease, parked, pid, fds, ip, holder, scratch>>
  BY Zenon DEF StepLeases, At, Control, Ledger, outside, machine, RawTypeOK, PerWs, Leases
<1>1. \/ done' = [done EXCEPT ![w] = @ \cup {"Leases"}] /\ Advance(TRUE)
      \/ done' = done /\ Advance(FALSE)
  BY <1>0, Zenon DEF StepLeases, Advance
<1>2. CASE ~ScratchReleased(w)
  <2>1. UNCHANGED <<leases, freed, done>>
    BY <1>0, <1>2, Zenon DEF StepLeases, Advance
  <2> QED BY <1>0, <2>1, Zenon DEF Entry
<1>3. CASE /\ ScratchReleased(w)
           /\ leases' = leases \ {LeaseOf(w, l) : l \in Unfreed(w)}
           /\ freed' = [freed EXCEPT ![w] = @ \cup Unfreed(w)]
           /\ done' = [done EXCEPT ![w] = @ \cup {"Leases"}]
  <2>1. lease[w] \notin leases'
    <3>1. CASE "main" \in freed[w]
      BY <1>0, <1>3, <3>1, Zenon DEF Entry
    <3>2. CASE "main" \notin freed[w]
      <4>1. "main" \in Unfreed(w) /\ LeaseOf(w, "main") = lease[w]
        BY <3>2, Zenon DEF Unfreed, LeaseOf
      <4> QED BY <1>3, <4>1, Zenon
    <3> QED BY <3>1, <3>2, Zenon
  <2>2. parked[w] \notin leases'
    <3>1. CASE "parked" \in freed[w] \/ parked[w] = 0
      <4>1. CASE "parked" \in freed[w]
        BY <1>0, <1>3, <4>1, Zenon DEF Entry
      <4>2. CASE parked[w] = 0
        <5>1. parked'[w] \notin leases
          BY <1>0, <4>2 DEF Leases
        <5> QED BY <1>0, <1>3, <5>1, Zenon
      <4> QED BY <3>1, <4>1, <4>2, Zenon
    <3>2. CASE "parked" \notin freed[w] /\ parked[w] # 0
      <4>1. "parked" \in Unfreed(w) /\ LeaseOf(w, "parked") = parked[w]
        BY <3>2, Zenon DEF Unfreed, LeaseOf
      <4> QED BY <1>3, <4>1, Zenon
    <3> QED BY <3>1, <3>2, Zenon
  <2> QED BY <1>0, <1>3, <2>1, <2>2, Zenon DEF Entry, ScratchReleased
<1>4. CASE \E bad \in Unfreed(w) :
             /\ ScratchReleased(w)
             /\ \E gone \in {{}, {LeaseOf(w, bad)}} :
                  leases' = leases \ ({LeaseOf(w, l) : l \in Unfreed(w) \ {bad}} \cup gone)
             /\ freed' = [freed EXCEPT ![w] = @ \cup (Unfreed(w) \ {bad})]
             /\ done' = done
  <2>0. PICK bad \in Unfreed(w) :
             /\ \E gone : leases' = leases \ ({LeaseOf(w, l) : l \in Unfreed(w) \ {bad}} \cup gone)
             /\ freed' = [freed EXCEPT ![w] = @ \cup (Unfreed(w) \ {bad})]
    BY <1>4, Zenon
  <2>1. PICK gone :
             /\ leases' = leases \ ({LeaseOf(w, l) : l \in Unfreed(w) \ {bad}} \cup gone)
             /\ freed' = [freed EXCEPT ![w] = @ \cup (Unfreed(w) \ {bad})]
    BY <2>0, Zenon
  <2>2. "main" \in freed'[w] => lease[w] \notin leases'
    <3>1. CASE "main" \in freed[w]
      BY <1>0, <2>1, <3>1, Zenon DEF Entry
    <3>2. CASE "main" \in Unfreed(w) \ {bad}
      BY <2>1, <3>2, Zenon DEF LeaseOf
    <3> QED BY <1>0, <2>1, <3>1, <3>2, Zenon
  <2>3. "parked" \in freed'[w] => parked[w] \notin leases'
    <3>1. CASE "parked" \in freed[w]
      BY <1>0, <2>1, <3>1, Zenon DEF Entry
    <3>2. CASE "parked" \in Unfreed(w) \ {bad}
      BY <2>1, <3>2 DEF LeaseOf
    <3> QED BY <1>0, <2>1, <3>1, <3>2, Zenon
  <2> QED BY <1>0, <1>4, <2>2, <2>3, Zenon DEF Entry, ScratchReleased
<1> QED BY <1>0, <1>1, <1>2, <1>3, <1>4 DEF StepLeases, Advance

\* Every step of a pass keeps the ledgers true.
LEMMA LedgerPass ==
  ASSUME RawTypeOK, Control, Ledger, PassStep
  PROVE  Ledger'
<1> USE DEF outside, machine
<1>W. PICK w \in Ws : w = job.w
  BY PassShape, Zenon
<1>0. /\ w = job.w /\ up /\ job.kind = "teardown" /\ job.at \in 1 .. 9 /\ w \in Ws
      /\ job'.kind = "teardown" /\ job'.w = w /\ job'.at = job.at + 1
      /\ UNCHANGED <<teardowns, lease, parked, pid>>
      /\ \A v \in Ws \ {w} : done'[v] = done[v]
      /\ \/ done'[w] = done[w] \cup {Order[job.at]} /\ job'.failed = job.failed
         \/ done'[w] = done[w] /\ job'.failed = job.failed \cup {Order[job.at]}
  BY <1>W, PassShape, Zenon
<1>T. /\ Entry(w) /\ done \in [Ws -> SUBSET Steps] /\ fds \in [Ws -> BOOLEAN] /\ pid \in [Ws -> BOOLEAN]
      /\ holder \in [Ws -> BOOLEAN] /\ scratch \in [Ws -> BOOLEAN] /\ ip \in [Ws -> 0 .. PoolSize]
  BY <1>0, Zenon DEF Ledger, RawTypeOK, PerWs
<1>O. /\ Order[1] = "Holder" /\ Order[2] = "Commands" /\ Order[3] = "NamespaceFds"
      /\ Order[4] = "Network" /\ Order[5] = "Mounts" /\ Order[6] = "Scratch"
      /\ Order[7] = "Leases" /\ Order[8] = "LeaseAccounting" /\ Order[9] = "Persistence"
  BY OrderSteps, Zenon
<1>1. \A v \in Ws \ {w} : Entry(v)'
  <2> TAKE v \in Ws \ {w}
  <2>1. Entry(v)
    BY Zenon DEF Ledger
  <2>2. /\ freed'[v] = freed[v] /\ fds'[v] = fds[v] /\ ip'[v] = ip[v]
        /\ holder'[v] = holder[v] /\ scratch'[v] = scratch[v] /\ leases' \subseteq leases
    BY <1>0, PassFrame, Zenon
  <2> QED BY <1>0, <2>1, <2>2, EntryFrame, Zenon
<1>2. ASSUME NEW ok \in BOOLEAN, Advance(ok), NEW step, At(step)
      PROVE  /\ step \notin done[w] /\ Order[job.at] = step
             /\ done' = IF ok THEN [done EXCEPT ![w] = @ \cup {step}] ELSE done
  BY <1>0, <1>2, Zenon DEF Advance, At
<1>3. Entry(w)'
  <2>1. CASE StepSkip
    BY <1>0, <1>T, <2>1, Zenon DEF StepSkip, Entry
  <2>2. CASE StepHolder
    <3>1. done' = done \/ (done' = [done EXCEPT ![w] = @ \cup {"Holder"}] /\ (pid[w] => ~holder'[w]))
      BY <1>0, <1>T, <1>2, <2>2, ZenonT(40) DEF StepHolder
    <3>2. holder'[w] => holder[w]
      BY <1>0, <1>T, <2>2, Zenon DEF StepHolder
    <3>3. UNCHANGED <<freed, fds, ip, leases, scratch>>
      BY <2>2, Zenon DEF StepHolder
    <3> QED BY <1>0, <1>T, <3>1, <3>2, <3>3 DEF Entry
  <2>3. CASE StepCommands
    <3>1. done' = [done EXCEPT ![w] = @ \cup {"Commands"}] /\ UNCHANGED <<freed, fds, ip, leases, scratch, holder>>
      BY <1>0, <1>2, <2>3, Zenon DEF StepCommands
    <3> QED BY <1>0, <1>T, <3>1 DEF Entry
  <2>4. CASE StepNamespaceFds
    <3>1. /\ done' = done \/ done' = [done EXCEPT ![w] = @ \cup {"NamespaceFds"}]
          /\ fds' = [fds EXCEPT ![w] = FALSE]
          /\ UNCHANGED <<freed, ip, leases, scratch, holder>>
      BY <1>0, <1>2, <2>4, Zenon DEF StepNamespaceFds
    <3> QED BY <1>0, <1>T, <3>1 DEF Entry
  <2>5. CASE StepNetwork
    <3>1. /\ \/ done' = done /\ UNCHANGED ip
             \/ done' = [done EXCEPT ![w] = @ \cup {"Network"}] /\ ip' = [ip EXCEPT ![w] = 0]
          /\ UNCHANGED <<freed, fds, leases, scratch, holder>>
      BY <1>0, <1>2, <2>5, Zenon DEF StepNetwork
    <3> QED BY <1>0, <1>T, <3>1 DEF Entry
  <2>6. CASE StepMounts
    <3>1. CASE "Holder" \in done[w] /\ ~fds[w]
      <4>1. done' = [done EXCEPT ![w] = @ \cup {"Mounts"}] /\ UNCHANGED <<freed, fds, ip, leases, scratch, holder>>
        <5>1. Advance(TRUE) /\ At("Mounts")
          BY <1>0, <2>6, <3>1, Zenon DEF StepMounts
        <5> QED BY <1>0, <1>2, <2>6, <5>1, Zenon DEF StepMounts
      <4> QED BY <1>0, <1>T, <3>1, <4>1, Zenon DEF Entry
    <3>2. CASE ~("Holder" \in done[w] /\ ~fds[w])
      <4>1. done' = done /\ UNCHANGED <<freed, fds, ip, leases, scratch, holder>>
        <5>1. Advance(FALSE) /\ At("Mounts")
          BY <1>0, <2>6, <3>2, Zenon DEF StepMounts
        <5> QED BY <1>0, <1>2, <2>6, <5>1, Zenon DEF StepMounts
      <4> QED BY <1>0, <1>T, <4>1, Zenon DEF Entry
    <3> QED BY <3>1, <3>2, Zenon
  <2>7. CASE StepScratch
    <3>1. /\ \/ done' = done /\ UNCHANGED scratch
             \/ /\ MountsReleased(w) /\ done' = [done EXCEPT ![w] = @ \cup {"Scratch"}]
                /\ scratch' = [scratch EXCEPT ![w] = FALSE]
          /\ UNCHANGED <<freed, fds, ip, leases, holder>>
      BY <1>0, <1>2, <2>7, Zenon DEF StepScratch
    <3> QED BY <1>0, <1>T, <3>1, Zenon DEF Entry, MountsReleased
  <2>8. CASE StepLeases
    BY <1>0, <2>8, LedgerLeases, Zenon
  <2>9. CASE StepLeaseAccounting
    <3>1. PICK ok \in BOOLEAN : Advance(ok)
      BY <2>9, Zenon DEF StepLeaseAccounting
    <3>2. /\ done' = done \/ done' = [done EXCEPT ![w] = @ \cup {"LeaseAccounting"}]
          /\ UNCHANGED <<freed, fds, ip, leases, scratch, holder>>
      BY <1>0, <1>2, <2>9, <3>1, ZenonT(30) DEF StepLeaseAccounting
    <3> QED BY <1>0, <1>T, <3>2 DEF Entry
  <2>10. CASE StepPersistence
    <3>1. /\ done' = done \/ done' = [done EXCEPT ![w] = @ \cup {"Persistence"}]
          /\ UNCHANGED <<freed, fds, ip, leases, scratch, holder>>
      BY <1>0, <1>2, <2>10, Zenon DEF StepPersistence
    <3> QED BY <1>0, <1>T, <3>1 DEF Entry
  <2> QED BY <2>1, <2>2, <2>3, <2>4, <2>5, <2>6, <2>7, <2>8, <2>9, <2>10, Zenon DEF PassStep
<1>4. "Persistence" \in done'[w] => job'.at = 10 /\ job'.failed = {}
  <2> SUFFICES ASSUME "Persistence" \in done'[w] PROVE job'.at = 10 /\ job'.failed = {}
    BY Zenon
  <2>1. "Persistence" \notin done[w]
    BY <1>0 DEF Ledger, InJob
  <2>2. Order[job.at] = "Persistence" /\ job'.failed = job.failed
    BY <1>0, <2>1, Zenon
  <2>3. job.at = 9
    BY <1>0, <1>O, <2>2
  <2>4. StepPersistence
    BY <1>O, <2>1, <2>2, <2>3, Zenon DEF PassStep, StepSkip, StepHolder, StepCommands, StepNamespaceFds, StepNetwork,
         StepMounts, StepScratch, StepLeases, StepLeaseAccounting, At
  <2>5. job.failed = {}
    <3>1. CASE job.failed # {}
      <4>1. Advance(FALSE) /\ At("Persistence")
        BY <2>4, <3>1, Zenon DEF StepPersistence
      <4> QED BY <1>0, <1>2, <2>1, <4>1, Zenon
    <3> QED BY <3>1, Zenon
  <2> QED BY <1>0, <2>2, <2>3, <2>5
<1>5. \A v \in Ws : "Persistence" \in done'[v] =>
        v \notin teardowns' /\ (InJob(v)' => job'.at = 10 /\ job'.failed = {})
  <2>1. w \notin teardowns
    BY <1>0, Zenon DEF Control
  <2> QED BY <1>0, <1>4, <2>1, Zenon DEF Ledger, InJob
<1>6. \A i \in 1 .. job'.at - 1 : Order[i] \in done'[job'.w] \cup job'.failed
  <2> TAKE i \in 1 .. job'.at - 1
  <2>1. i = job.at \/ i \in 1 .. job.at - 1
    BY <1>0
  <2> QED BY <1>0, <2>1, Zenon DEF Ledger
<1> QED BY <1>1, <1>3, <1>5, <1>6, Zenon DEF Ledger

\* The next lease is nobody's.
LEMMA NextUnheld ==
  ASSUME RawTypeOK, Mounts, NEW v \in Ws
  PROVE  lease[v] # nextLease /\ parked[v] # nextLease
<1>1. nextLease \in Nat \ {0} /\ \A l \in Held(v) : l < nextLease
  BY Bounds DEF RawTypeOK, Mounts, Fresh
<1>2. lease[v] \in Held(v) \cup {0} /\ parked[v] \in Held(v) \cup {0}
  BY Zenon DEF Held
<1>3. nextLease \notin Held(v) \cup {0}
  BY <1>1
<1> QED BY <1>2, <1>3, Zenon

\* A queue is a queue or no job.
LEMMA QueueKind ==
  \A Q, why : Queue(Q, why).kind \in {"idle", "queue"}
BY Zenon DEF NoJob, Queue

(* A step that starts no pass and completes nothing keeps the ledger. *)
LEMMA LedgerKept ==
  ASSUME Ledger, \A v \in Ws : Entry(v)', job'.kind # "teardown",
         \A v \in Ws : done'[v] \in {{}, done[v]}, teardowns' \subseteq teardowns,
         job'.kind = "setup" => done'[job'.w] = {}
  PROVE  Ledger'
BY Zenon DEF Ledger, InJob

\* The end of a pass keeps the ledgers, whether it is remembered or retained.
LEMMA LedgerEnds ==
  ASSUME RawTypeOK, Control, Starts, Ledger, TeardownEnds \/ Close
  PROVE  Ledger'
<1>1. CASE TeardownEnds
  <2>1. /\ job.kind = "teardown" /\ job.at = 10
        /\ UNCHANGED <<done, freed, lease, parked, pid, fds, ip, scratch, leases>>
        /\ \A v \in Ws : holder'[v] => holder[v]
    BY <1>1, Zenon DEF TeardownEnds, leaseVars, Stop
  <2>2. job'.kind \in {"idle", "queue"}
    BY <1>1, IdleJob, EmptyQueue, QueueJob, Zenon DEF TeardownEnds
  <2>3. \A v \in Ws : Entry(v)'
    BY <2>1, EntryFrame, Zenon DEF Ledger
  <2>4. \A v \in Ws : "Persistence" \in done[v] => v \notin teardowns'
    <3> SUFFICES ASSUME NEW v \in Ws, "Persistence" \in done[v] PROVE v \notin teardowns'
      BY Zenon
    <3>1. v \notin teardowns /\ (v = job.w => job.failed = {})
      BY <2>1, Zenon DEF Ledger, InJob
    <3> QED BY <1>1, <3>1, Zenon DEF TeardownEnds, Record, Retain
  <2> QED BY <2>1, <2>2, <2>3, <2>4, Zenon DEF Ledger, InJob
<1>2. CASE Close
  <2>1. PICK w \in job.queue : /\ job' = Pass(w, job.why, job.queue \ {w})
                              /\ handles' = handles \ {w} /\ teardowns' = teardowns \ {w}
    BY <1>2, Zenon DEF Close
  <2>2. /\ job'.kind = "teardown" /\ job'.w = w /\ job'.at = 1 /\ job.kind = "queue"
        /\ UNCHANGED <<done, freed, lease, parked, pid, fds, ip, scratch, leases, holder>>
        /\ w \in handles \cup teardowns /\ w \in Ws
    <3>0. PICK why, Q : job' = Pass(w, why, Q)
      BY <2>1, Zenon
    <3>1. job'.kind = "teardown" /\ job'.w = w /\ job'.at = 1
      BY <3>0, PassJob
    <3>2. w \in handles \cup teardowns /\ w \in Ws
      BY <2>1, Zenon DEF Control, RawTypeOK
    <3> QED BY <1>2, <3>1, <3>2, Zenon DEF Close, leaseVars, machine
  <2>3. \A v \in Ws : Entry(v)'
    BY <2>2, EntryFrame, Zenon DEF Ledger
  <2>4. "Persistence" \notin done[w]
    BY <2>2, Zenon DEF Ledger, Starts
  <2>5. \A i \in 1 .. job'.at - 1 : Order[i] \in done'[job'.w] \cup job'.failed
    BY <2>2
  <2>6. \A v \in Ws : "Persistence" \in done'[v] =>
          v \notin teardowns' /\ (InJob(v)' => job'.at = 10 /\ job'.failed = {})
    BY <2>1, <2>2, <2>4, Zenon DEF Ledger, InJob
  <2> QED BY <2>3, <2>5, <2>6, Zenon DEF Ledger
<1> QED BY <1>1, <1>2, Zenon

\* A creation keeps the ledgers, its own being empty.
LEMMA LedgerSetup ==
  ASSUME RawTypeOK, Control, Starts, Ledger, SetupStep
  PROVE  Ledger'
<1>1. /\ job.kind = "setup" /\ job.w \in Ws /\ done[job.w] = {} /\ freed[job.w] = {}
      /\ UNCHANGED <<teardowns, done, freed, lease, parked, leases>>
      /\ \A v \in Ws \ {job.w} :
           /\ pid'[v] = pid[v] /\ fds'[v] = fds[v] /\ ip'[v] = ip[v] /\ holder'[v] = holder[v]
           /\ scratch'[v] = scratch[v]
  BY SetupShape, Zenon DEF setupFrame, leaseVars, Starts
<1>2. \A v \in Ws : Entry(v)'
  <2> TAKE v \in Ws
  <2>1. CASE v = job.w
    BY <1>1, <2>1, EntryFresh, Zenon
  <2>2. CASE v # job.w
    BY <1>1, <2>2, EntryFrame, Zenon DEF Ledger
  <2> QED BY <2>1, <2>2, Zenon
<1>3. \/ job'.kind \in {"setup", "idle"} /\ (job'.kind = "setup" => job'.w = job.w)
      \/ job'.kind = "teardown" /\ job'.at = 1 /\ job'.w = job.w
  BY SetupShape, IdleJob, PassJob, SetupJob DEF Rollback
<1>4. \A v \in Ws : "Persistence" \in done'[v] => v \notin teardowns' /\ ~InJob(v)'
  BY <1>1, <1>3, Zenon DEF Ledger, InJob
<1>5. job'.kind = "teardown" => \A i \in 1 .. job'.at - 1 : Order[i] \in done'[job'.w] \cup job'.failed
  BY <1>3
<1> QED BY <1>2, <1>4, <1>5, Zenon DEF Ledger

\* The calls keep the ledgers: a new lease is not one that a ledger calls
\* released.
LEMMA LedgerCalls ==
  ASSUME RawTypeOK, Control, Starts, Ledger, Mounts, NEW w \in Ws,
         Create(w) \/ OpenRaw(w) \/ DestroyRaw(w) \/ Forget(w) \/ HolderDies(w) \/ RemountStep(w)
  PROVE  Ledger'
<1> USE DEF Free, memory, remountVars, machine, leaseVars
<1>1. CASE Create(w) \/ DestroyRaw(w) \/ Forget(w)
  <2>1. UNCHANGED <<teardowns, done, freed, lease, parked, pid, fds, ip, scratch, leases, holder>>
    BY <1>1, Zenon DEF Create, DestroyRaw, Forget
  <2>2. job'.kind \in {"idle", "queue"}
    BY <1>1, QueueKind, Zenon DEF Create, DestroyRaw, Forget
  <2>3. \A v \in Ws : Entry(v)'
    BY <2>1, EntryFrame, Zenon DEF Ledger
  <2> QED BY <2>1, <2>2, <2>3, LedgerKept, Zenon
<1>N. \A v \in Ws : lease[v] # nextLease /\ parked[v] # nextLease
  BY NextUnheld, Zenon
<1>2. CASE OpenRaw(w)
  <2>1. /\ progress[w] = "starting" /\ job = NoJob
        /\ UNCHANGED <<teardowns, done, freed, parked, pid, fds, ip, scratch, holder>>
        /\ leases' \subseteq leases \cup {nextLease}
        /\ \A v \in Ws \ {w} : lease'[v] = lease[v]
    BY <1>2, ZenonT(30) DEF OpenRaw, Control, RawTypeOK, PerWs
  <2>2. done[w] = {} /\ freed[w] = {}
    BY <2>1, IdleJob, Zenon DEF Starts, Clean, InJob
  <2>3. job'.kind \in {"idle", "setup"} /\ (job'.kind = "setup" => job'.w = w)
    BY <1>2, <2>1, SetupJob DEF OpenRaw
  <2>4. \A v \in Ws : Entry(v)'
    <3> TAKE v \in Ws
    <3>1. CASE v = w
      BY <2>1, <2>2, <3>1, EntryFresh, Zenon
    <3>2. CASE v # w
      <4>1. {lease[v], parked[v]} \cap leases' \subseteq leases
        BY <1>N, <2>1, Zenon
      <4> QED BY <2>1, <3>2, <4>1, EntryFrame, Zenon DEF Ledger
    <3> QED BY <3>1, <3>2, Zenon
  <2> QED BY <2>1, <2>2, <2>3, <2>4, LedgerKept, Zenon
<1>3. CASE HolderDies(w)
  <2>1. /\ UNCHANGED <<job, teardowns, done, freed, lease, parked, pid, fds, ip, scratch, leases>>
        /\ \A v \in Ws : holder'[v] => holder[v]
    BY <1>3, Zenon DEF HolderDies, RawTypeOK, PerWs
  <2>2. \A v \in Ws : Entry(v)'
    BY <2>1, EntryFrame, Zenon DEF Ledger
  <2> QED BY <2>1, <2>2, Zenon DEF Ledger, InJob
<1>4. CASE RemountStep(w)
  <2>1. /\ w \in handles
        /\ UNCHANGED <<job, teardowns, done, freed, pid, fds, ip, scratch, holder>>
        /\ \A v \in Ws \ {w} : lease'[v] = lease[v] /\ parked'[v] = parked[v]
    BY <1>4, RemountShape, Zenon DEF remountFrame
  <2>2. leases' \subseteq leases \cup {nextLease}
    BY <1>4, ReleaseType, Zenon DEF RemountStep, RemountLease, RemountSkip, RemountSwitch, RemountReleaseOld,
         RemountApply
  <2>3. \A v \in Ws : Entry(v)'
    <3> TAKE v \in Ws
    <3>1. CASE v = w
      BY <2>1, <3>1, EntryFresh, Zenon DEF Starts
    <3>2. CASE v # w
      <4>1. {lease[v], parked[v]} \cap leases' \subseteq leases
        BY <1>N, <2>2, Zenon
      <4> QED BY <2>1, <3>2, <4>1, EntryFrame, Zenon DEF Ledger
    <3> QED BY <3>1, <3>2, Zenon
  <2> QED BY <2>1, <2>3, Zenon DEF Ledger, InJob
<1> QED BY <1>1, <1>2, <1>3, <1>4, Zenon

\* A crash empties the ledgers.
LEMMA LedgerWorld ==
  ASSUME RawTypeOK, Control, Starts, Ledger, ReconcileRaw \/ ShutdownRaw \/ PersistSweep \/ Crash \/ Boot
  PROVE  Ledger'
<1> USE DEF Free, memory, remountVars, machine, leaseVars
<1>1. CASE ReconcileRaw \/ ShutdownRaw \/ PersistSweep \/ Boot
  <2>1. /\ UNCHANGED <<teardowns, done, freed, lease, parked, pid, fds, ip, leases>>
        /\ \A v \in Ws : (holder'[v] => holder[v]) /\ (scratch'[v] => scratch[v])
    BY <1>1, Zenon DEF ReconcileRaw, ShutdownRaw, PersistSweep, Boot, Stop
  <2>2. job'.kind \in {"idle", "queue"}
    <3>1. CASE ReconcileRaw \/ ShutdownRaw
      BY <3>1, QueueKind, Zenon DEF ReconcileRaw, ShutdownRaw
    <3>2. CASE PersistSweep
      BY <3>2, Zenon DEF PersistSweep
    <3>3. CASE Boot
      BY <3>3, IdleJob, Zenon DEF Boot, Control
    <3> QED BY <1>1, <3>1, <3>2, <3>3, Zenon
  <2>3. \A v \in Ws : Entry(v)'
    BY <2>1, EntryFrame, Zenon DEF Ledger
  <2> QED BY <2>1, <2>2, <2>3, LedgerKept, Zenon
<1>2. CASE Crash
  <2>1. /\ job'.kind = "idle" /\ teardowns' = {}
        /\ \A v \in Ws : done'[v] = {} /\ freed'[v] = {}
    BY <1>2, IdleJob, Zenon DEF Crash
  <2>2. \A v \in Ws : Entry(v)'
    BY <2>1, EntryFresh, Zenon
  <2> QED BY <2>1, <2>2, LedgerKept, Zenon
<1> QED BY <1>1, <1>2, Zenon

\* Every step keeps the ledgers true.
LEMMA LedgerStep ==
  ASSUME RawTypeOK, Control, Starts, Ledger, Mounts, RawNext
  PROVE  Ledger'
BY LedgerPass, LedgerEnds, LedgerSetup, LedgerCalls, LedgerWorld, Zenon DEF RawNext, PassStep, SetupStep, RemountStep

-----------------------------------------------------------------------------
(* A mounted overlay has its leases and its directory; no two workspaces   *)
(* share a lease.                                                          *)
LEMMA FreshKept ==
  ASSUME Fresh, \A v \in Ws : Held(v)' \subseteq Held(v), leases' \subseteq leases, nextLease' = nextLease
  PROVE  Fresh'
BY Zenon DEF Fresh

\* Taking the next lease keeps leases unshared.
LEMMA FreshTaken ==
  ASSUME RawTypeOK, Fresh, NEW w \in Ws, \A v \in Ws \ {w} : Held(v)' \subseteq Held(v),
         Held(w)' \subseteq Held(w) \cup {nextLease}, leases' \subseteq leases \cup {nextLease},
         nextLease' = nextLease + 1
  PROVE  Fresh'
<1>0. nextLease \in Nat /\ \A v \in Ws : Held(v) \cup leases \subseteq Nat
  <2>1. MaxLease \in Nat /\ nextLease \in 1 .. MaxLease + 1 /\ leases \subseteq 1 .. MaxLease
    BY Bounds, Zenon DEF RawTypeOK, Leases
  <2>2. \A v \in Ws : /\ lease[v] \in 0 .. MaxLease /\ parked[v] \in 0 .. MaxLease
                      /\ rem[v].repl \in 0 .. MaxLease /\ mount[v] \subseteq 1 .. MaxLease
    BY Zenon DEF RawTypeOK, PerWs, Leases
  <2>3. 0 .. MaxLease \subseteq Nat /\ 1 .. MaxLease \subseteq Nat
    BY <2>1
  <2>4. ASSUME NEW v \in Ws, NEW l \in Held(v) \cup leases
        PROVE  l \in Nat
    BY <2>1, <2>2, <2>3, Zenon DEF Held
  <2> QED BY <2>1, <2>4
<1>1. \A v \in Ws : \A l \in Held(v) \cup leases : l < nextLease
  BY Zenon DEF Fresh
<1>2. \A v \in Ws : nextLease \notin Held(v)
  BY <1>0, <1>1
<1>3. \A v \in Ws : \A l \in (Held(v) \cup leases)' : l < nextLease'
  <2> TAKE v \in Ws
  <2>1. (Held(v) \cup leases)' \subseteq Held(v) \cup leases \cup {nextLease}
    BY Zenon
  <2> QED BY <1>0, <1>1, <2>1
<1>4. \A u \in Ws : \A v \in Ws \ {u} : Held(v)' \cap Held(u)' = {}
  BY <1>2 DEF Fresh
<1> QED BY <1>3, <1>4, Zenon DEF Fresh

\* A mount is safe as long as its leases and its directory stay.
LEMMA MountKept ==
  ASSUME NEW v \in Ws, SafeMount(v), mount'[v] = mount[v], pid'[v] = pid[v], holder'[v] => holder[v],
         fds'[v] => fds[v], scratch[v] => scratch'[v], mount[v] \cap leases \subseteq leases'
  PROVE  SafeMount(v)'
BY Zenon DEF SafeMount, Mounted

\* A remount under way is not disturbed by what leaves its leases alone.
LEMMA SwitchKept ==
  ASSUME NEW v \in Ws, Switching(v), mount'[v] = mount[v], lease'[v] = lease[v], parked'[v] = parked[v],
         rem'[v] = rem[v], rem[v].stage = "switch" /\ rem[v].repl \in leases => rem[v].repl \in leases'
  PROVE  Switching(v)'
BY Zenon DEF Switching

\* What a workspace holds is a matter of its own variables.
LEMMA HeldKept ==
  ASSUME NEW v \in Ws, mount'[v] = mount[v], lease'[v] = lease[v], parked'[v] = parked[v], rem'[v] = rem[v]
  PROVE  Held(v)' = Held(v)
BY Zenon DEF Held

(* A workspace whose mounts a teardown has released has nothing mounted. *)
LEMMA ReleasedMounts ==
  ASSUME NEW w \in Ws, Entry(w), SafeMount(w), "Mounts" \in done[w]
  PROVE  ~Mounted(w)
BY Zenon DEF Entry, SafeMount, Mounted

\* A pass removes the directory and the leases of a workspace with nothing
\* mounted.
LEMMA MountsPass ==
  ASSUME RawTypeOK, Control, Ledger, Mounts, PassStep
  PROVE  Mounts'
<1> USE DEF outside, machine, remountVars
<1>W. PICK w \in Ws : w = job.w
  BY PassShape, Zenon
<1>0. /\ job.kind = "teardown" /\ w \in Ws \ (handles \cup teardowns)
      /\ UNCHANGED <<lease, parked, pid, rem, mount, nextLease>>
      /\ leases' \subseteq leases
      /\ \A v \in Ws : (fds'[v] => fds[v]) /\ (holder'[v] => holder[v])
      /\ \A v \in Ws \ {w} : scratch'[v] = scratch[v]
      /\ Entry(w)
  BY <1>W, PassShape, PassFrame, Zenon DEF Control, Ledger
<1>1. rem[w] = NoRemount
  BY <1>0, Zenon DEF Control
<1>2. leases \ {lease[w], parked[w]} \subseteq leases' /\ (UNCHANGED leases \/ "Scratch" \in done[w])
  <2>1. CASE StepLeases
    <3>1. \A l : LeaseOf(w, l) \in {lease[w], parked[w]}
      BY Zenon DEF LeaseOf
    <3>2. CASE UNCHANGED leases
      BY <3>2, Zenon
    <3>3. CASE /\ ScratchReleased(w)
               /\ leases' = leases \ {LeaseOf(w, l) : l \in Unfreed(w)}
      BY <3>1, <3>3, Zenon DEF ScratchReleased
    <3>4. CASE /\ ScratchReleased(w)
               /\ \E bad \in Unfreed(w) : \E gone \in {{}, {LeaseOf(w, bad)}} :
                    leases' = leases \ ({LeaseOf(w, l) : l \in Unfreed(w) \ {bad}} \cup gone)
      BY <3>1, <3>4, Zenon DEF ScratchReleased
    <3>5. CASE ScratchReleased(job.w)
      <4>1. CASE leases' = leases \ {LeaseOf(job.w, l) : l \in Unfreed(job.w)}
        BY <1>W, <3>3, <3>5, <4>1, Zenon
      <4>2. CASE \E bad \in Unfreed(job.w) : \E gone \in {{}, {LeaseOf(job.w, bad)}} :
                   leases' = leases \ ({LeaseOf(job.w, l) : l \in Unfreed(job.w) \ {bad}} \cup gone)
        BY <1>W, <3>4, <3>5, <4>2
      <4> QED BY <2>1, <3>5, <4>1, <4>2, Zenon DEF StepLeases
    <3> QED BY <2>1, <3>2, <3>5, Zenon DEF StepLeases
  <2> QED BY <2>1, Zenon DEF PassStep, StepSkip, StepHolder, StepCommands, StepNamespaceFds, StepNetwork,
         StepMounts, StepScratch, StepLeaseAccounting, StepPersistence
<1>3. (scratch[w] => scratch'[w]) \/ "Mounts" \in done[w]
  <2>1. CASE StepScratch
    BY <1>W, <2>1, Zenon DEF StepScratch, MountsReleased
  <2> QED BY <2>1, Zenon DEF PassStep, StepSkip, StepHolder, StepCommands, StepNamespaceFds, StepNetwork,
         StepMounts, StepLeases, StepLeaseAccounting, StepPersistence
<1>4. ASSUME NEW v \in Ws, v # w
      PROVE  mount[v] \cap {lease[w], parked[w]} = {} /\ rem[v].repl \notin {lease[w], parked[w]} \ {0}
  <2>1. Held(v) \cap Held(w) = {}
    BY <1>4, Zenon DEF Mounts, Fresh
  <2>2. 0 \notin mount[v]
    <3>1. mount[v] \subseteq 1 .. MaxLease
      BY Zenon DEF RawTypeOK, PerWs, Leases
    <3> QED BY <3>1
  <2> QED BY <2>1, <2>2, Zenon DEF Held
<1>5. \A v \in Ws : SafeMount(v)'
  <2> TAKE v \in Ws
  <2>0. SafeMount(v)
    BY Zenon DEF Mounts
  <2>1. CASE v # w
    <3>1. mount[v] \cap leases \subseteq leases'
      BY <1>2, <1>4, <2>1, Zenon
    <3> QED BY <1>0, <2>0, <2>1, <3>1, MountKept, Zenon
  <2>2. CASE v = w
    <3>1. CASE "Mounts" \in done[w]
      <4>1. ~Mounted(w)
        BY <1>0, <2>0, <2>2, <3>1, ReleasedMounts, Zenon
      <4> QED BY <1>0, <2>0, <2>2, <4>1, Zenon DEF SafeMount, Mounted
    <3>2. CASE "Mounts" \notin done[w]
      <4>1. "Scratch" \notin done[w]
        BY <1>0, <3>2, ZenonT(30) DEF Entry
      <4> QED BY <1>0, <1>2, <1>3, <2>0, <2>2, <3>2, <4>1, MountKept, Zenon
    <3> QED BY <3>1, <3>2, Zenon
  <2> QED BY <2>1, <2>2, Zenon
<1>6. \A v \in Ws : Switching(v)'
  <2> TAKE v \in Ws
  <2>0. Switching(v) /\ 0 \notin leases
    BY DEF Mounts, RawTypeOK, Leases
  <2>1. CASE v # w
    <3>1. rem[v].repl \in leases => rem[v].repl \in leases'
      BY <1>2, <1>4, <2>0, <2>1, Zenon
    <3> QED BY <1>0, <2>0, <3>1, SwitchKept, Zenon
  <2>2. CASE v = w
    BY <1>0, <1>1, <2>2 DEF Switching, NoRemount
  <2> QED BY <2>1, <2>2, Zenon
<1>7. Fresh'
  <2>1. \A v \in Ws : Held(v)' \subseteq Held(v)
    BY <1>0, HeldKept, Zenon
  <2> QED BY <1>0, <2>1, FreshKept, Zenon DEF Mounts
<1> QED BY <1>5, <1>6, <1>7, Zenon DEF Mounts

(* The steps that take, mount and release nothing. *)
LEMMA MountsKept ==
  ASSUME Mounts, UNCHANGED <<mount, lease, parked, rem, pid, leases, nextLease>>,
         \A v \in Ws : (holder'[v] => holder[v]) /\ (fds'[v] => fds[v]) /\ (scratch[v] => scratch'[v] \/ mount[v] = {})
  PROVE  Mounts'
<1>1. \A v \in Ws : SafeMount(v)' /\ Switching(v)'
  BY Zenon DEF Mounts, SafeMount, Mounted, Switching
<1>2. Fresh'
  BY HeldKept, FreshKept, Zenon DEF Mounts
<1> QED BY <1>1, <1>2, Zenon DEF Mounts

\* A creation mounts through the lease it has taken.
LEMMA MountsSetup ==
  ASSUME RawTypeOK, Control, Starts, Mounts, SetupStep
  PROVE  Mounts'
<1> USE DEF In, Goes, Fails, setupFrame, machine, remountVars, leaseVars
<1>W. PICK w \in Ws : w = job.w
  BY SetupShape, Zenon
<1>0. /\ job.kind = "setup" /\ w \notin handles
      /\ UNCHANGED <<lease, parked, rem, leases, nextLease>>
      /\ \A v \in Ws \ {w} :
           /\ pid'[v] = pid[v] /\ fds'[v] = fds[v] /\ holder'[v] = holder[v]
           /\ mount'[v] = mount[v] /\ scratch'[v] = scratch[v]
      /\ rem[w] = NoRemount /\ lease[w] \in leases
      /\ SafeMount(w)
  BY <1>W, SetupShape, Zenon DEF Control, Starts, Mounts
<1>T. /\ pid \in [Ws -> BOOLEAN] /\ fds \in [Ws -> BOOLEAN] /\ scratch \in [Ws -> BOOLEAN]
      /\ holder \in [Ws -> BOOLEAN] /\ mount \in [Ws -> SUBSET Leases]
  BY Zenon DEF RawTypeOK, PerWs
<1>1. /\ SafeMount(w)'
      /\ mount'[w] \in {mount[w], {lease[w]}}
  <2>1. CASE SetupDirs
    BY <1>0, <1>T, <1>W, <2>1, Zenon DEF SetupDirs, SafeMount, Mounted
  <2>2. CASE SetupHolder
    <3>1. mount[w] = {}
      BY <1>W, <2>2, Zenon DEF SetupHolder, Starts
    <3>2. UNCHANGED mount
      BY <2>2, Zenon DEF SetupHolder
    <3> QED BY <3>1, <3>2, Zenon DEF SafeMount, Mounted
  <2>3. CASE SetupFds
    BY <1>0, <2>3, Zenon DEF SetupFds, SafeMount, Mounted
  <2>4. CASE SetupVeth
    BY <1>0, <2>4, Zenon DEF SetupVeth, SafeMount, Mounted
  <2>5. CASE SetupMount
    <3>1. pid[w] /\ scratch[w] /\ UNCHANGED <<pid, fds, holder, scratch>>
      BY <1>W, <2>5, Zenon DEF SetupMount, Starts
    <3>2. mount'[w] \in {mount[w], {lease[w]}}
      BY <1>T, <1>W, <2>5, Zenon DEF SetupMount
    <3> QED BY <1>0, <3>1, <3>2, Zenon DEF SafeMount, Mounted
  <2>6. CASE SetupNet
    BY <1>0, <2>6, Zenon DEF SetupNet, SafeMount, Mounted
  <2>7. CASE SetupPublish
    BY <1>0, <2>7, Zenon DEF SetupPublish, SafeMount, Mounted
  <2> QED BY <2>1, <2>2, <2>3, <2>4, <2>5, <2>6, <2>7, Zenon DEF SetupStep
<1>2. \A v \in Ws : SafeMount(v)'
  BY <1>0, <1>1, MountKept, Zenon DEF Mounts
<1>3. \A v \in Ws : Switching(v)'
  <2> TAKE v \in Ws
  <2>1. CASE v = w
    BY <1>0, <2>1 DEF Switching, NoRemount
  <2>2. CASE v # w
    BY <1>0, <2>2, SwitchKept, Zenon DEF Mounts
  <2> QED BY <2>1, <2>2, Zenon
<1>4. Fresh'
  <2>1. \A v \in Ws \ {w} : Held(v)' = Held(v)
    BY <1>0, HeldKept, Zenon
  <2>2. Held(w)' \subseteq Held(w)
    BY <1>0, <1>1, Zenon DEF Held
  <2> QED BY <1>0, <2>1, <2>2, FreshKept, Zenon DEF Mounts
<1> QED BY <1>2, <1>3, <1>4, Zenon DEF Mounts

\* A remount releases a lease that nothing mounted reads through.
LEMMA MountsRemount ==
  ASSUME RawTypeOK, Control, Starts, Mounts, NEW w \in Ws, RemountStep(w)
  PROVE  Mounts'
<1> USE DEF remountFrame
<1>0. /\ UNCHANGED <<pid, fds, holder, scratch>>
      /\ \A v \in Ws \ {w} : /\ lease'[v] = lease[v] /\ parked'[v] = parked[v] /\ rem'[v] = rem[v]
                             /\ mount'[v] = mount[v]
      /\ SafeMount(w) /\ Switching(w) /\ Fresh
  BY RemountShape, Zenon DEF Mounts
<1>T. /\ lease \in [Ws -> 0 .. MaxLease] /\ parked \in [Ws -> 0 .. MaxLease] /\ rem \in [Ws -> Rems]
      /\ mount \in [Ws -> SUBSET Leases] /\ leases \subseteq 1 .. MaxLease /\ rem[w] \in Rems
      /\ nextLease \in Nat \ {0}
  <2>1. nextLease \in 1 .. MaxLease + 1 /\ MaxLease \in Nat
    BY Bounds, Zenon DEF RawTypeOK
  <2>2. nextLease \in Nat \ {0}
    BY <2>1
  <2> QED BY <2>2, Zenon DEF RawTypeOK, PerWs, Rems, Leases
<1>Z. \A v \in Ws : 0 \notin mount[v] /\ 0 \notin leases
  <2>1. \A v \in Ws : mount[v] \subseteq 1 .. MaxLease
    BY <1>T, Zenon DEF Leases
  <2> QED BY <1>T, <2>1
(* What another workspace reads, or is about to, is not released. *)
<1>1. ASSUME leases \ {lease[w], rem[w].repl} \subseteq leases', NEW v \in Ws \ {w}
      PROVE  SafeMount(v)' /\ Switching(v)'
  <2>1. Held(v) \cap Held(w) = {}
    BY <1>0, Zenon DEF Fresh
  <2>2. mount[v] \cap leases \subseteq leases'
    BY <1>1, <1>Z, <2>1 DEF Held
  <2>3. rem[v].repl \in leases => rem[v].repl \in leases'
    BY <1>1, <1>Z, <2>1 DEF Held
  <2> QED BY <1>0, <2>2, <2>3, MountKept, SwitchKept, Zenon DEF Mounts
<1>2. ASSUME Held(w)' \subseteq Held(w), leases' \subseteq leases, nextLease' = nextLease
      PROVE  Fresh'
  <2>1. \A v \in Ws : Held(v)' \subseteq Held(v)
    BY <1>0, <1>2, HeldKept, Zenon
  <2> QED BY <1>0, <1>2, <2>1, FreshKept, Zenon
<1>3. CASE RemountLease(w)
  <2>1. /\ leases' = leases \cup {nextLease} /\ nextLease' = nextLease + 1
        /\ rem'[w] = [stage |-> "switch", repl |-> nextLease, effect |-> "none"]
        /\ rem[w] = NoRemount
        /\ UNCHANGED <<lease, parked, mount>>
    BY <1>3, <1>T, Zenon DEF RemountLease
  <2>2. nextLease \notin Held(w) \cup {0}
    <3>1. \A l \in Held(w) : l < nextLease
      BY <1>0, ZenonT(30) DEF Fresh
    <3> QED BY <1>T, <3>1
  <2>3. SafeMount(w)' /\ Switching(w)'
    BY <1>0, <2>1, <2>2 DEF SafeMount, Mounted, Switching, Held
  <2>4. Fresh'
    <3>1. \A v \in Ws \ {w} : Held(v)' \subseteq Held(v)
      BY <1>0, HeldKept, ZenonT(30)
    <3>2. Held(w)' \subseteq Held(w) \cup {nextLease}
      BY <2>1 DEF Held
    <3> QED BY <1>0, <2>1, <3>1, <3>2, FreshTaken, Zenon
  <2> QED BY <1>1, <2>1, <2>3, <2>4, Zenon DEF Mounts
<1>4. CASE RemountSkip(w)
  <2>1. /\ leases' \subseteq leases /\ leases \ {rem[w].repl} \subseteq leases'
        /\ rem'[w] = NoRemount /\ rem[w].stage = "switch"
        /\ UNCHANGED <<lease, parked, mount, nextLease>>
    BY <1>4, <1>T, ReleaseType, Zenon DEF RemountSkip
  <2>2. SafeMount(w)'
    <3>1. rem[w].repl \notin mount[w]
      BY <1>0, <2>1, Zenon DEF Switching
    <3> QED BY <1>0, <2>1, <3>1, Zenon DEF SafeMount, Mounted
  <2>3. Switching(w)'
    BY <2>1, SMTT(20) DEF Switching, NoRemount
  <2>4. Held(w)' \subseteq Held(w)
    BY <2>1 DEF Held, NoRemount
  <2> QED BY <1>1, <1>2, <2>1, <2>2, <2>3, <2>4, Zenon DEF Mounts
<1>5. CASE RemountSwitch(w)
  <2>1. rem[w].stage = "switch" /\ UNCHANGED <<lease, parked, leases, nextLease>>
    BY <1>5, Zenon DEF RemountSwitch, leaseVars
  <2>2. rem[w].repl \in leases \ (mount[w] \cup {lease[w], parked[w]})
    BY <1>0, <2>1, Zenon DEF Switching
  <2>3. /\ rem'[w].repl = rem[w].repl /\ rem'[w].effect # "none"
        /\ \/ /\ mount'[w] = (mount[w] \ {lease[w]}) \cup {rem[w].repl}
              /\ rem'[w].stage = "release" /\ rem'[w].effect = "switched"
           \/ mount'[w] \in {mount[w], mount[w] \cup {rem[w].repl}} /\ rem'[w].stage = "apply"
    BY <1>5, <1>T DEF RemountSwitch, Rems
  <2>4. SafeMount(w)'
    <3>1. mount'[w] \subseteq mount[w] \cup {rem[w].repl}
      BY <2>3, Zenon
    <3>2. scratch[w] /\ pid[w]
      BY RemountShape, Zenon DEF Starts, Control
    <3> QED BY <1>0, <2>1, <2>2, <3>1, <3>2, Zenon DEF SafeMount, Mounted
  <2>5. Switching(w)'
    BY <2>1, <2>2, <2>3, Zenon DEF Switching
  <2>6. Held(w)' \subseteq Held(w)
    BY <2>1, <2>3, Zenon DEF Held
  <2> QED BY <1>1, <1>2, <2>1, <2>4, <2>5, <2>6, Zenon DEF Mounts
<1>6. CASE RemountReleaseOld(w)
  <2>1. /\ leases' \subseteq leases /\ leases \ {lease[w]} \subseteq leases'
        /\ rem[w].stage = "release" /\ rem'[w] = [rem[w] EXCEPT !.stage = "apply"]
        /\ UNCHANGED <<lease, parked, mount, nextLease>>
    BY <1>6, <1>T, ReleaseType, Zenon DEF RemountReleaseOld
  <2>2. SafeMount(w)'
    <3>1. lease[w] \notin mount[w]
      BY <1>0, <2>1, Zenon DEF Switching
    <3> QED BY <1>0, <2>1, <3>1, Zenon DEF SafeMount, Mounted
  <2>3. rem'[w].stage = "apply" /\ rem'[w].repl = rem[w].repl /\ rem'[w].effect = rem[w].effect
    BY <1>T, <2>1, Zenon DEF Rems
  <2>4. Switching(w)'
    BY <1>0, <2>1, <2>3, Zenon DEF Switching
  <2>5. Held(w)' \subseteq Held(w)
    BY <2>1, <2>3, Zenon DEF Held
  <2> QED BY <1>1, <1>2, <2>1, <2>2, <2>4, <2>5, Zenon DEF Mounts
<1>7. CASE RemountApply(w)
  <2>1. /\ lease'[w] \in {lease[w], rem[w].repl} /\ parked'[w] \in {0, lease[w], rem[w].repl}
        /\ rem'[w] = NoRemount /\ UNCHANGED <<leases, mount, nextLease>>
    BY <1>7, <1>T, Zenon DEF RemountApply, leaseVars, Parks
  <2>2. SafeMount(w)'
    BY <1>0, <2>1, Zenon DEF SafeMount, Mounted
  <2>3. Switching(w)'
    BY <2>1, SMTT(20) DEF Switching, NoRemount
  <2>4. Held(w)' \subseteq Held(w)
    BY <2>1 DEF Held, NoRemount
  <2> QED BY <1>1, <1>2, <2>1, <2>2, <2>3, <2>4, Zenon DEF Mounts
<1> QED BY <1>3, <1>4, <1>5, <1>6, <1>7, Zenon DEF RemountStep

\* Every step keeps Mounts.
LEMMA MountsStep ==
  ASSUME RawTypeOK, Control, Starts, Ledger, Mounts, RawNext
  PROVE  Mounts'
<1> USE DEF Free, memory, remountVars, machine, leaseVars
<1>1. CASE TeardownEnds \/ Close \/ ReconcileRaw \/ ShutdownRaw \/ PersistSweep
  <2>1. /\ UNCHANGED <<mount, lease, parked, rem, pid, leases, nextLease, fds, scratch>>
        /\ \A v \in Ws : holder'[v] => holder[v]
    BY <1>1, Zenon DEF TeardownEnds, Close, ReconcileRaw, ShutdownRaw, PersistSweep, Stop
  <2> QED BY <2>1, MountsKept, Zenon
<1>2. CASE Boot
  <2>1. UNCHANGED <<mount, lease, parked, rem, pid, leases, nextLease, fds, holder>> /\ ~up
    BY <1>2, Zenon DEF Boot
  <2>2. \A v \in Ws : mount[v] = {}
    BY <2>1, Zenon DEF Starts, Clean
  <2> QED BY <2>1, <2>2, MountsKept, Zenon
<1>3. CASE Crash
  <2>1. /\ leases' = {} /\ nextLease' = nextLease
        /\ \A v \in Ws : /\ mount'[v] = {} /\ lease'[v] = 0 /\ parked'[v] = 0 /\ rem'[v] = NoRemount
    BY <1>3, ZenonT(30) DEF Crash
  <2>2. \A v \in Ws : Held(v)' = {} /\ SafeMount(v)' /\ Switching(v)'
    BY <2>1 DEF Held, SafeMount, Mounted, Switching, NoRemount
  <2>3. Fresh'
    BY <2>1, <2>2, Zenon DEF Fresh
  <2> QED BY <2>2, <2>3, Zenon DEF Mounts
<1>4. ASSUME NEW w \in Ws, Create(w) \/ DestroyRaw(w) \/ Forget(w) \/ HolderDies(w)
      PROVE  Mounts'
  <2>1. /\ UNCHANGED <<mount, lease, parked, rem, pid, leases, nextLease, fds, scratch>>
        /\ \A v \in Ws : holder'[v] => holder[v]
    <3>1. holder \in [Ws -> BOOLEAN]
      BY Zenon DEF RawTypeOK, PerWs
    <3>2. CASE Create(w)
      BY <3>2, Zenon DEF Create, remountVars, leaseVars, memory, machine
    <3>3. CASE DestroyRaw(w)
      BY <3>3, Zenon DEF DestroyRaw, remountVars, leaseVars, memory, machine
    <3>4. CASE Forget(w)
      BY <3>4, Zenon DEF Forget, remountVars, leaseVars, memory, machine
    <3>5. CASE HolderDies(w)
      BY <3>1, <3>5, Zenon DEF HolderDies, remountVars, leaseVars, memory, machine
    <3> QED BY <1>4, <3>2, <3>3, <3>4, <3>5, Zenon
  <2> QED BY <2>1, MountsKept, Zenon
<1>5. ASSUME NEW w \in Ws, OpenRaw(w)
      PROVE  Mounts'
  <2>1. CASE UNCHANGED <<leases, nextLease, lease>>
    <3>1. UNCHANGED <<mount, lease, parked, rem, pid, leases, nextLease, fds, scratch, holder>>
      BY <1>5, <2>1, Zenon DEF OpenRaw
    <3> QED BY <3>1, MountsKept, Zenon
  <2>2. CASE /\ leases' = leases \cup {nextLease} /\ nextLease' = nextLease + 1
             /\ lease' = [lease EXCEPT ![w] = nextLease]
    <3>1. UNCHANGED <<mount, parked, rem, pid, fds, scratch, holder>>
      BY <1>5, Zenon DEF OpenRaw
    <3>2. progress[w] = "starting" /\ ~InJob(w) /\ w \notin handles
      BY <1>5, Zenon DEF OpenRaw, InJob, Control
    <3>3. mount[w] = {} /\ rem[w] = NoRemount
      BY <3>2, Zenon DEF Starts, Clean, Control
    <3>4. lease \in [Ws -> 0 .. MaxLease]
      BY Zenon DEF RawTypeOK, PerWs
    <3>5. SafeMount(w)' /\ Switching(w)'
      BY <3>1, <3>3 DEF SafeMount, Mounted, Switching, NoRemount
    <3>6. \A v \in Ws \ {w} : SafeMount(v)' /\ Switching(v)'
      <4> TAKE v \in Ws \ {w}
      <4>1. SafeMount(v) /\ Switching(v) /\ lease'[v] = lease[v] /\ leases \subseteq leases'
        BY <2>2, <3>4, Zenon DEF Mounts
      <4> QED BY <3>1, <4>1, MountKept, SwitchKept, Zenon
    <3>7. Fresh'
      <4>1. \A v \in Ws \ {w} : Held(v)' \subseteq Held(v)
        BY <2>2, <3>1, <3>4, HeldKept, Zenon
      <4>2. Held(w)' \subseteq Held(w) \cup {nextLease}
        BY <2>2, <3>1, <3>4, Zenon DEF Held
      <4> QED BY <2>2, <4>1, <4>2, FreshTaken, Zenon DEF Mounts
    <3> QED BY <3>5, <3>6, <3>7, Zenon DEF Mounts
  <2> QED BY <1>5, <2>1, <2>2, Zenon DEF OpenRaw
<1> QED BY <1>1, <1>2, <1>3, <1>4, <1>5, MountsPass, MountsSetup, MountsRemount, Zenon
     DEF RawNext, PassStep, SetupStep, RemountStep


-----------------------------------------------------------------------------
(* The theorem *)

\* The inductive invariant.
MInv == RawTypeOK /\ Control /\ Starts /\ Ledger /\ Mounts

\* It holds at first.
LEMMA MInvInit == RawInit => MInv
<1> SUFFICES ASSUME RawInit PROVE MInv
  BY Zenon
<1> USE DEF RawInit
<1>1. RawTypeOK
  <2>1. /\ 0 \in 0 .. MaxLease /\ 0 \in 0 .. PoolSize /\ 0 \in 0 .. MaxRemounts /\ 0 \in 0 .. 10
        /\ 0 \in 0 .. MaxFaults /\ 0 \in 0 .. MaxCrashes /\ 1 \in 1 .. MaxLease + 1
    BY Bounds, SMTT(20)
  <2>2. completed \in Seq(Ws) /\ Len(completed) <= Ring
    BY Bounds
  <2>3. job \in Jobs /\ rem \in [Ws -> Rems] /\ recorded \in [Ws -> Recs]
    BY <2>1, Zenon DEF Jobs, NoJob, Rems, NoRemount, Recs, NoRecord
  <2>4. /\ lease \in [Ws -> 0 .. MaxLease] /\ parked \in [Ws -> 0 .. MaxLease] /\ ip \in [Ws -> 0 .. PoolSize]
        /\ remounts \in [Ws -> 0 .. MaxRemounts] /\ done \in [Ws -> SUBSET Steps]
        /\ freed \in [Ws -> SUBSET {"main", "parked"}] /\ mount \in [Ws -> SUBSET Leases]
    BY <2>1, Zenon
  <2>5. /\ pid \in [Ws -> BOOLEAN] /\ fds \in [Ws -> BOOLEAN] /\ holder \in [Ws -> BOOLEAN]
        /\ scratch \in [Ws -> BOOLEAN]
        /\ progress \in [Ws -> {"new", "starting", "open", "closed", "gone", "failed", "lost", "dead"}]
    BY Zenon
  <2> QED BY <2>1, <2>2, <2>3, <2>4, <2>5, Zenon DEF RawTypeOK, PerWs, Jobs, Rems, Recs
<1>2. Control
  BY Zenon DEF Control, NoJob, Busy
<1>3. Starts
  BY Zenon DEF Starts, Clean, NoJob, NoRecord, InJob
<1>4. Ledger
  BY Zenon DEF Ledger, Entry, NoJob, InJob
<1>5. Mounts
  BY Zenon DEF Mounts, Fresh, Held, SafeMount, Mounted, Switching, NoRemount
<1> QED BY <1>1, <1>2, <1>3, <1>4, <1>5, Zenon DEF MInv

\* Every step keeps it.
LEMMA MInvStep == MInv /\ [RawNext]_rawVars => MInv'
<1> SUFFICES ASSUME MInv, [RawNext]_rawVars PROVE MInv'
  BY Zenon
<1>1. CASE RawNext
  BY <1>1, TypeStep, ControlStep, StartsStep, LedgerStep, MountsStep, Zenon DEF MInv
<1>2. CASE UNCHANGED rawVars
  <2> USE <1>2 DEF rawVars, memory, remountVars, leaseVars, machine, budget, MInv
  <2>1. RawTypeOK'
    <3>1. RawTypeOK /\ UNCHANGED <<up, svc, job, handles, teardowns, completed, done, freed, lease, parked, pid,
            fds, ip, pool, rem, remounts, dirty, progress, leases, nextLease, holder, mount, scratch,
            recorded, faults, crashes>>
      BY Zenon
    <3>2. /\ up' \in BOOLEAN /\ svc' \in {"open", "closing", "done"} /\ dirty' \in BOOLEAN /\ job' \in Jobs
          /\ handles' \subseteq Ws /\ teardowns' \subseteq Ws /\ completed' \in Seq(Ws) /\ Len(completed') <= Ring
      BY <3>1, Zenon DEF RawTypeOK, Jobs
    <3>3. /\ done' \in PerWs(SUBSET Steps) /\ freed' \in PerWs(SUBSET {"main", "parked"})
          /\ lease' \in PerWs(0 .. MaxLease) /\ parked' \in PerWs(0 .. MaxLease)
          /\ pid' \in PerWs(BOOLEAN) /\ fds' \in PerWs(BOOLEAN) /\ ip' \in PerWs(0 .. PoolSize)
          /\ pool' \subseteq 1 .. PoolSize /\ rem' \in PerWs(Rems) /\ remounts' \in PerWs(0 .. MaxRemounts)
      BY <3>1, Zenon DEF RawTypeOK, Rems
    <3>4. /\ progress' \in PerWs({"new", "starting", "open", "closed", "gone", "failed", "lost", "dead"})
          /\ leases' \subseteq Leases /\ nextLease' \in 1 .. MaxLease + 1
          /\ holder' \in PerWs(BOOLEAN) /\ mount' \in PerWs(SUBSET Leases) /\ scratch' \in PerWs(BOOLEAN)
          /\ recorded' \in PerWs(Recs) /\ faults' \in 0 .. MaxFaults /\ crashes' \in 0 .. MaxCrashes
      BY <3>1, Zenon DEF RawTypeOK, Recs
    <3> QED BY <3>2, <3>3, <3>4, Zenon DEF RawTypeOK, Jobs, Rems, Recs
  <2>2. Control'
    BY Zenon DEF Control, Busy
  <2>3. Starts'
    BY Zenon DEF Starts, Clean, InJob
  <2>4. Ledger'
    BY Zenon DEF Ledger, Entry, InJob
  <2>5. Mounts'
    BY Zenon DEF Mounts, Fresh, Held, SafeMount, Mounted, Switching
  <2> QED BY <2>1, <2>2, <2>3, <2>4, <2>5, Zenon
<1> QED BY <1>1, <1>2, Zenon

\* The inductive invariant holds throughout.
THEOREM ManagerInvariant == RawSpec => []MInv
BY MInvInit, MInvStep, PTL DEF RawSpec

\* As long as an overlay is mounted, the leases of the layers it reads are
\* held and the directory it writes exists, for any number of workspaces,
\* remounts, faults and restarts (TeardownLedger, execute_remount,
\* release_leases, remove_scratch).
THEOREM MountsAreSafe == RawSpec => []MountSafe
<1>1. MInv => MountSafe
  BY Zenon DEF MInv, Mounts, SafeMount, MountSafe, MountPinned, ScratchUnderMount, Mounted
<1> QED BY <1>1, ManagerInvariant, PTL
=============================================================================
