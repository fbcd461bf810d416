----------------------- MODULE WorkspaceOutcomesProofs -----------------------
(***************************************************************************)
(* Everything a workspace holds has an owner, and what is reported gone is *)
(* gone, for any number of workspaces, addresses, leases, faults and       *)
(* restarts.                                                               *)
(*                                                                         *)
(* IInv extends the invariant of WorkspaceManagerProofs: the pool holds    *)
(* the addresses in use (Pool), manager.json names what a restart has to   *)
(* reap (Files, ScratchFound), a workspace that is reported gone, or that  *)
(* another call has torn down, holds nothing (Outcomes), and every lease   *)
(* has an owner (Leased).                                                  *)
(***************************************************************************)
EXTENDS WorkspaceManagerProofs

\* w is from before a restart.
Late(w) == progress[w] \in {"dead", "failed"} /\ crashes > 0

\* manager.json names w while it has an owner or from before a restart, and
\* names every open workspace with a run directory.
FileOf(w) ==
  /\ recorded[w].kept => Tracked(w) \/ Late(w)
  /\ InJob(w) /\ "Persistence" \in done[w] => ~recorded[w].kept
  /\ progress[w] = "open" /\ scratch[w] => recorded[w].kept
  /\ progress[w] = "dead" /\ scratch[w] /\ ~ReapFaults => recorded[w].kept /\ ~up

\* manager.json is right about every workspace.
Files == \A w \in Ws : FileOf(w)

\* w holds nothing and nobody owns it.
Gone(w) ==
  /\ ~holder[w] /\ ~fds[w] /\ ip[w] = 0 /\ ~scratch[w] /\ ~recorded[w].kept
  /\ {lease[w], parked[w]} \cap leases = {} /\ ~Tracked(w)

\* w is reported gone, or open and torn down by another call.
Over(w) == progress[w] \in {"closed", "gone", "lost"} \/ (progress[w] = "open" /\ ~Tracked(w))
\* w is torn down and its caller has not heard of it.
Untold(w) == progress[w] = "open" /\ ~Tracked(w)
\* s has no repetitions.
Once(s) == \A i, j \in 1 .. Len(s) : s[i] = s[j] => i = j
\* w is in s.
Has(s, w) == \E i \in 1 .. Len(s) : s[i] = w

\* A full ring has every workspace in it.
RoomForAll == \A t \in Seq(Ws), w \in Ws : Once(t) /\ ~Has(t, w) => Len(t) # Ring

\* What is over is gone, and the ring has, with room for all, every outcome
\* that is still to be told.
Outcomes ==
  /\ \A w \in Ws : Over(w) => Gone(w)
  /\ Once(completed)
  /\ RoomForAll => \A w \in Ws : progress[w] # "lost" /\ (Untold(w) => Has(completed, w))

\* Addresses in use are distinct and are those out of the pool.
Pool ==
  /\ DistinctAddresses
  /\ \A a \in pool : \E w \in Ws : ip[w] = a

\* l is one of the leases of w.
Owner(l, w) == l = lease[w] \/ l = parked[w] \/ l = rem[w].repl

\* With one remount per workspace no parked lease is forgotten.
OneRemount(w) ==
  /\ parked[w] # 0 \/ rem[w] # NoRemount => remounts[w] >= 1
  /\ rem[w] # NoRemount => parked[w] = 0
  /\ rem[w].stage = "apply" /\ rem[w].effect = "switched" => lease[w] \notin leases

\* Where a release does not fail half-way and a workspace is remounted once,
\* every lease has an owner.
Leased ==
  ~LeakyRelease /\ MaxRemounts <= 1 =>
    (\A l \in leases : \E w \in Ws : Owner(l, w)) /\ (\A w \in Ws : OneRemount(w))

\* After the shutdown no holder lives.
Stopped == svc = "done" => \A w \in Ws : ~holder[w]

\* Where the boot can remove what it finds, every run directory is found.
ScratchFound == ~ReapFaults => ScratchTracked

\* The inductive invariant.
IInv ==
  /\ RawTypeOK /\ Control /\ Starts /\ Ledger /\ Mounts /\ Pool /\ ResourcesTracked
  /\ Files /\ ScratchFound /\ Outcomes /\ Leased /\ Stopped

-----------------------------------------------------------------------------
(* Addresses: the pool holds exactly those in use. *)
LEMMA PoolKept ==
  ASSUME Pool, UNCHANGED <<ip, pool>>
  PROVE  Pool'
BY Zenon DEF Pool, DistinctAddresses

\* Every step keeps the addresses distinct.
LEMMA PoolStep ==
  ASSUME RawTypeOK, Control, Starts, Pool, RawNext
  PROVE  Pool'
<1> USE DEF memory, outside, setupFrame
<1>T. ip \in [Ws -> 0 .. PoolSize] /\ pool \subseteq 1 .. PoolSize
  BY Zenon DEF RawTypeOK, PerWs
<1>1. CASE StepNetwork
  <2>1. PICK w \in Ws : w = job.w
    BY <1>1, Zenon DEF StepNetwork, At, Control
  <2>2. CASE UNCHANGED <<ip, pool>>
    BY <2>2, PoolKept, Zenon
  <2>3. CASE ip' = [ip EXCEPT ![w] = 0] /\ pool' = pool \ {ip[w]}
    <3>1. DistinctAddresses'
      BY <1>T, <2>3, Zenon DEF Pool, DistinctAddresses
    <3>2. \A a \in pool' : \E v \in Ws : ip'[v] = a
      BY <1>T, <2>3, Zenon DEF Pool
    <3> QED BY <3>1, <3>2, Zenon DEF Pool
  <2> QED BY <1>1, <2>1, <2>2, <2>3, Zenon DEF StepNetwork
<1>2. CASE SetupVeth
  <2>1. PICK w \in Ws : w = job.w
    BY <1>2, Zenon DEF SetupVeth, In, Control
  <2>2. CASE UNCHANGED <<ip, pool>>
    BY <2>2, PoolKept, Zenon
  <2>3. ASSUME NEW a \in (1 .. PoolSize) \ pool, ip' = [ip EXCEPT ![w] = a], pool' = pool \cup {a}, ip[w] = 0
        PROVE  Pool'
    <3>1. \A v \in Ws : ip[v] # a
      BY <2>3 DEF Pool, DistinctAddresses
    <3>2. DistinctAddresses'
      BY <1>T, <2>3, <3>1, Zenon DEF Pool, DistinctAddresses
    <3>3. \A b \in pool' : \E v \in Ws : ip'[v] = b
      BY <1>T, <2>3 DEF Pool
    <3> QED BY <3>2, <3>3, Zenon DEF Pool
  <2>4. ip[w] = 0
    BY <1>2, <2>1, Zenon DEF SetupVeth, In, Starts
  <2>5. \A a \in Lowest(Spare) : a \in (1 .. PoolSize) \ pool
    BY Zenon DEF Lowest, Spare
  <2> QED BY <1>2, <2>1, <2>2, <2>3, <2>4, <2>5, Zenon DEF SetupVeth
<1>3. CASE Crash
  BY <1>3, Zenon DEF Crash, Pool, DistinctAddresses
<1>4. CASE UNCHANGED <<ip, pool>>
  BY <1>4, PoolKept, Zenon
<1>5. CASE PassStep
  BY <1>1, <1>4, <1>5, Zenon DEF PassStep, StepSkip, StepHolder, StepCommands, StepNamespaceFds, StepMounts,
       StepScratch, StepLeases, StepLeaseAccounting, StepPersistence
<1>6. CASE SetupStep
  BY <1>2, <1>4, <1>6, Zenon DEF SetupStep, SetupDirs, SetupHolder, SetupFds, SetupMount, SetupNet, SetupPublish
<1>7. CASE TeardownEnds \/ Close \/ ReconcileRaw \/ ShutdownRaw \/ PersistSweep \/ Boot
  BY <1>4, <1>7, Zenon DEF TeardownEnds, Close, ReconcileRaw, ShutdownRaw, PersistSweep, Boot
<1>8. ASSUME NEW w \in Ws,
             Create(w) \/ OpenRaw(w) \/ DestroyRaw(w) \/ Forget(w) \/ HolderDies(w) \/ RemountStep(w)
      PROVE  Pool'
  BY <1>4, <1>8, RemountShape, Zenon DEF Create, OpenRaw, DestroyRaw, Forget, HolderDies, remountFrame
<1> QED BY <1>3, <1>5, <1>6, <1>7, <1>8 DEF RawNext, PassStep, SetupStep, RemountStep

-----------------------------------------------------------------------------
(* Everything a workspace holds is tracked. *)
Owns(w) == (holder[w] /\ pid[w]) \/ fds[w] \/ ip[w] # 0 \/ lease[w] \in leases \/ parked[w] \in leases

\* What is gained has an owner, and an owner is lost only with what it owns.
LEMMA TrackedKept ==
  ASSUME ResourcesTracked, \A v \in Ws : Owns(v)' => Owns(v) \/ Tracked(v)',
         \A v \in Ws : Tracked(v) /\ Owns(v)' => Tracked(v)'
  PROVE  ResourcesTracked'
BY Zenon DEF ResourcesTracked, Owns

(* A pass without a failure has released everything. *)
LEMMA AllReleased ==
  ASSUME RawTypeOK, Control, Ledger, job.kind = "teardown", job.at = 10, job.failed = {}, NEW w, w = job.w
  PROVE  /\ \A i \in 1 .. 9 : Order[i] \in done[w]
         /\ ~Owns(w) /\ ~scratch[w]
<1>1. w \in Ws /\ Entry(w)
  BY Zenon DEF Control, Ledger
<1>2. \A i \in 1 .. 9 : Order[i] \in done[w]
  BY DEF Ledger
<1>3. {"Holder", "NamespaceFds", "Network", "Scratch", "Leases"} \subseteq done[w]
  <2>1. 1 \in 1 .. 9 /\ 3 \in 1 .. 9 /\ 4 \in 1 .. 9 /\ 6 \in 1 .. 9 /\ 7 \in 1 .. 9
    OBVIOUS
  <2>2. Order[1] \in done[w] /\ Order[3] \in done[w] /\ Order[4] \in done[w] /\ Order[6] \in done[w] /\ Order[7] \in done[w]
    BY <1>2, <2>1, Zenon
  <2> QED BY <2>2, OrderSteps, Zenon
<1> QED BY <1>1, <1>2, <1>3, Zenon DEF Entry, Owns

\* Every step keeps everything owned.
LEMMA ResourcesStep ==
  ASSUME RawTypeOK, Control, Starts, Ledger, Mounts, ResourcesTracked, RawNext
  PROVE  ResourcesTracked'
<1> USE DEF Free, memory, remountVars, machine, leaseVars
<1>1. CASE PassStep
  <2>1. /\ job'.kind = "teardown" /\ job.kind = "teardown" /\ job'.w = job.w
        /\ UNCHANGED <<handles, teardowns, lease, parked, pid>> /\ leases' \subseteq leases
        /\ \A v \in Ws : (fds'[v] => fds[v]) /\ (holder'[v] => holder[v]) /\ ip'[v] \in {0, ip[v]}
    BY <1>1, PassShape, PassFrame, Zenon DEF outside
  <2> QED BY <2>1, TrackedKept, Zenon DEF Owns, Tracked
<1>2. CASE TeardownEnds
  <2>1. PICK w \in Ws : w = job.w
    BY <1>2, Zenon DEF TeardownEnds, Control
  <2>2. /\ job.kind = "teardown" /\ job.at = 10
        /\ UNCHANGED <<handles, lease, parked, pid, fds, ip, leases>>
        /\ \A v \in Ws : holder'[v] => holder[v]
        /\ teardowns' = IF job.failed = {} THEN teardowns ELSE teardowns \cup {w}
    BY <1>2, <2>1, Zenon DEF TeardownEnds, Stop, Record, Retain
  <2>3. \A v \in Ws : Owns(v)' => Owns(v)
    BY <2>2, Zenon DEF Owns
  <2>4. \A v \in Ws : Tracked(v) /\ Owns(v)' => Tracked(v)'
    <3> SUFFICES ASSUME NEW v \in Ws, Tracked(v), Owns(v)' PROVE v \in handles' \cup teardowns'
      BY Zenon DEF Tracked
    <3>1. CASE v # w
      BY <2>1, <2>2, <3>1, Zenon DEF Tracked
    <3>2. CASE v = w
      <4>1. job.failed # {}
        BY <2>1, <2>2, <2>3, <3>2, AllReleased, Zenon
      <4> QED BY <2>2, <3>2, <4>1, Zenon
    <3> QED BY <3>1, <3>2, Zenon
  <2> QED BY <2>3, <2>4, TrackedKept, Zenon
<1>3. CASE Close
  <2>1. PICK w \in job.queue : /\ job' = Pass(w, job.why, job.queue \ {w})
                              /\ handles' = handles \ {w} /\ teardowns' = teardowns \ {w}
    BY <1>3, Zenon DEF Close
  <2>2. /\ job'.kind = "teardown" /\ job'.w = w /\ job.kind = "queue"
        /\ UNCHANGED <<lease, parked, pid, fds, ip, leases, holder>>
    BY <1>3, <2>1, PassJob DEF Close
  <2> QED BY <2>1, <2>2, TrackedKept, Zenon DEF Owns, Tracked
<1>4. CASE SetupStep
  <2>1. PICK w \in Ws : w = job.w
    BY <1>4, SetupShape, Zenon
  <2>2. /\ job.kind = "setup"
        /\ UNCHANGED <<teardowns, lease, parked, leases>>
        /\ \A v \in Ws \ {w} : pid'[v] = pid[v] /\ fds'[v] = fds[v] /\ ip'[v] = ip[v] /\ holder'[v] = holder[v]
    BY <1>4, <2>1, SetupShape, Zenon DEF setupFrame
  <2>3. \/ job'.kind \in {"setup", "teardown"} /\ job'.w = w /\ UNCHANGED handles
        \/ handles' = handles \cup {w}
    BY <1>4, <2>1, SetupShape, PassJob, SetupJob DEF Rollback
  <2>4. Tracked(w)' /\ \A v \in Ws : Tracked(v) => Tracked(v)'
    BY <2>1, <2>2, <2>3, Zenon DEF Tracked
  <2>5. \A v \in Ws \ {w} : Owns(v)' => Owns(v)
    BY <2>2, Zenon DEF Owns
  <2> QED BY <2>4, <2>5, TrackedKept, Zenon
<1>5. CASE Crash
  <2>1. \A v \in Ws : ~Owns(v)'
    BY <1>5, Zenon DEF Crash, Owns
  <2> QED BY <2>1, TrackedKept, Zenon
<1>6. CASE ReconcileRaw \/ ShutdownRaw \/ PersistSweep \/ Boot
  <2>1. /\ job.kind \notin {"setup", "teardown"}
        /\ UNCHANGED <<handles, teardowns, lease, parked, pid, fds, ip, leases>>
        /\ \A v \in Ws : holder'[v] => holder[v]
    <3>1. CASE Boot
      BY <3>1, IdleJob, Zenon DEF Boot, Control
    <3> QED BY <1>6, <3>1, Zenon DEF ReconcileRaw, ShutdownRaw, PersistSweep, Stop
  <2> QED BY <2>1, TrackedKept, Zenon DEF Owns, Tracked
<1>7. ASSUME NEW w \in Ws, Create(w) \/ DestroyRaw(w) \/ Forget(w) \/ HolderDies(w)
      PROVE  ResourcesTracked'
  <2>1. /\ job' = job \/ job.kind = "idle"
        /\ UNCHANGED <<handles, teardowns, lease, parked, pid, fds, ip, leases>>
        /\ \A v \in Ws : holder'[v] => holder[v]
    BY <1>7, Zenon DEF Create, DestroyRaw, Forget, HolderDies, RawTypeOK, PerWs
  <2> QED BY <2>1, TrackedKept, Zenon DEF Owns, Tracked
<1>N. \A v \in Ws : lease[v] # nextLease /\ parked[v] # nextLease
  BY NextUnheld, Zenon
<1>8. ASSUME NEW w \in Ws, OpenRaw(w)
      PROVE  ResourcesTracked'
  <2>0. lease \in [Ws -> 0 .. MaxLease] /\ Setup(w, "dirs").kind = "setup" /\ Setup(w, "dirs").w = w
    <3>1. lease \in [Ws -> 0 .. MaxLease]
      BY Zenon DEF RawTypeOK, PerWs
    <3>2. Setup(w, "dirs").kind = "setup" /\ Setup(w, "dirs").w = w
      BY SetupJob
    <3> QED BY <3>1, <3>2, Zenon
  <2>1. /\ job.kind = "idle" /\ UNCHANGED <<handles, teardowns, parked, pid, fds, ip, holder>>
        /\ \/ UNCHANGED <<leases, lease>>
           \/ /\ leases' = leases \cup {nextLease} /\ \A v \in Ws \ {w} : lease'[v] = lease[v]
              /\ job'.kind = "setup" /\ job'.w = w
    <3>1. job.kind = "idle" /\ UNCHANGED <<handles, teardowns, parked, pid, fds, ip, holder>>
      BY <1>8, Zenon DEF OpenRaw
    <3>2. \/ UNCHANGED <<leases, lease>>
          \/ /\ leases' = leases \cup {nextLease} /\ lease' = [lease EXCEPT ![w] = nextLease]
             /\ job' = Setup(w, "dirs")
      BY <1>8, Zenon DEF OpenRaw
    <3> QED BY <2>0, <3>1, <3>2, Zenon
  <2>2. \A v \in Ws : Tracked(v) => Tracked(v)'
    BY <2>1, Zenon DEF Tracked
  <2>3. \A v \in Ws : Owns(v)' => Owns(v) \/ Tracked(v)'
    BY <1>N, <2>1 DEF Owns, Tracked
  <2> QED BY <2>2, <2>3, TrackedKept, Zenon
<1>9. ASSUME NEW w \in Ws, RemountStep(w)
      PROVE  ResourcesTracked'
  <2>1. /\ w \in handles
        /\ UNCHANGED <<job, handles, teardowns, pid, fds, ip, holder>>
        /\ \A v \in Ws \ {w} : lease'[v] = lease[v] /\ parked'[v] = parked[v]
    BY <1>9, RemountShape, Zenon DEF remountFrame
  <2>2. leases' \subseteq leases \cup {nextLease}
    BY <1>9, ReleaseType, Zenon DEF RemountStep, RemountLease, RemountSkip, RemountSwitch, RemountReleaseOld,
         RemountApply
  <2>3. \A v \in Ws : Tracked(v) => Tracked(v)'
    BY <2>1, Zenon DEF Tracked
  <2>4. \A v \in Ws : Owns(v)' => Owns(v) \/ Tracked(v)'
    BY <1>N, <2>1, <2>2, Zenon DEF Owns, Tracked
  <2> QED BY <2>3, <2>4, TrackedKept, Zenon
<1> QED BY <1>1, <1>2, <1>3, <1>4, <1>5, <1>6, <1>7, <1>8, <1>9, Zenon DEF RawNext, PassStep, SetupStep, RemountStep

-----------------------------------------------------------------------------
(* The ring of completed teardowns: a workspace is in it once. *)
LEMMA WithoutElements ==
  ASSUME NEW s \in Seq(Ws), Once(s), NEW w \in Ws,
         NEW t, t = Without(s, w)
  PROVE  /\ t \in Seq(Ws)
         /\ Once(t)
         /\ \A v \in Ws : Has(t, v) <=> v # w /\ Has(s, v)
<1>0. t \in Seq(Ws) /\ Len(s) \in Nat
  BY WithoutSeq
<1>1. CASE \E i \in 1 .. Len(s) : s[i] = w
  <2> DEFINE hole == CHOOSE i \in 1 .. Len(s) : s[i] = w
             n == Len(s) - 1
             u == [i \in 1 .. n |-> IF i < hole THEN s[i] ELSE s[i + 1]]
  <2>1. hole \in 1 .. Len(s) /\ s[hole] = w
    BY <1>1, Zenon
  <2>2. t = u
    BY <1>1, Zenon DEF Without
  <2> HIDE DEF hole
  <2>3. n \in Nat
    BY <1>0, <2>1
  <2>4. Len(t) = n
    <3>1. \A i \in 1 .. n : u[i] \in Ws
      BY <1>0, <2>1, <2>3
    <3>2. u \in [1 .. n -> Ws]
      BY <3>1, Zenon
    <3> HIDE DEF u, n
    <3> QED BY <2>2, <2>3, <3>2
  <2>5. \A i \in 1 .. n : t[i] = IF i < hole THEN s[i] ELSE s[i + 1]
    BY <2>2, Zenon
  <2> HIDE DEF u
  <2>6. \A i, j \in 1 .. n : t[i] = t[j] => i = j
    BY <1>0, <2>1, <2>3, <2>5 DEF Once
  <2>7. \A i \in 1 .. n : t[i] # w /\ \E j \in 1 .. Len(s) : s[j] = t[i]
    <3> TAKE i \in 1 .. n
    <3>1. CASE i < hole
      <4>1. i \in 1 .. Len(s) /\ t[i] = s[i] /\ i # hole
        BY <1>0, <2>1, <2>3, <2>5, <3>1
      <4> QED BY <2>1, <4>1, Zenon DEF Once
    <3>2. CASE ~(i < hole)
      <4>1. i + 1 \in 1 .. Len(s) /\ t[i] = s[i + 1] /\ i + 1 # hole
        BY <1>0, <2>1, <2>3, <2>5, <3>2
      <4> QED BY <2>1, <4>1, Zenon DEF Once
    <3> QED BY <3>1, <3>2, Zenon
  <2>8. ASSUME NEW v \in Ws, v # w, NEW i \in 1 .. Len(s), s[i] = v
        PROVE  \E j \in 1 .. n : t[j] = v
    <3>1. CASE i < hole
      <4>1. i \in 1 .. n /\ t[i] = v
        BY <1>0, <2>1, <2>3, <2>5, <2>8, <3>1
      <4> QED BY <4>1, Zenon
    <3>2. CASE i > hole
      <4>1. i - 1 \in 1 .. n /\ t[i - 1] = v
        BY <1>0, <2>1, <2>3, <2>5, <2>8, <3>2
      <4> QED BY <4>1, Zenon
    <3> QED BY <1>0, <2>1, <2>8, <3>1, <3>2
  <2>9. Once(t)
    BY <2>4, <2>6, Zenon DEF Once
  <2>10. \A v \in Ws : Has(t, v) <=> v # w /\ Has(s, v)
    <3> TAKE v \in Ws
    <3>1. Has(t, v) => v # w /\ Has(s, v)
      BY <2>4, <2>7, Zenon DEF Has
    <3>2. ASSUME v # w, Has(s, v) PROVE Has(t, v)
      <4>1. PICK i \in 1 .. Len(s) : s[i] = v
        BY <3>2, Zenon DEF Has
      <4>2. \E k \in 1 .. n : t[k] = v
        BY <2>8, <3>2, <4>1, Zenon
      <4> QED BY <2>4, <4>2, Zenon DEF Has
    <3> QED BY <3>1, <3>2, Zenon
  <2> QED BY <1>0, <2>9, <2>10, Zenon
<1>2. CASE ~\E i \in 1 .. Len(s) : s[i] = w
  <2>1. t = s
    BY <1>2, Zenon DEF Without
  <2> QED BY <1>0, <1>2, <2>1, Zenon DEF Has
<1> QED BY <1>1, <1>2, Zenon

\* Remembering a workspace forgets none where the ring has room.
LEMMA RememberElements ==
  ASSUME RawTypeOK, Outcomes, NEW w \in Ws, NEW t, t = Remember(w)
  PROVE  /\ Once(t) /\ Has(t, w)
         /\ RoomForAll => \A v \in Ws : Has(completed, v) => Has(t, v)
<1>1. PICK rest : rest = Without(completed, w)
  BY Zenon
<1>2. PICK kept : kept = IF Len(rest) = Ring THEN Tail(rest) ELSE rest
  BY Zenon
<1>3. t = Append(kept, w)
  BY <1>1, <1>2, Zenon DEF Remember
<1>4. /\ rest \in Seq(Ws) /\ Once(rest)
      /\ \A v \in Ws : Has(rest, v) <=> v # w /\ Has(completed, v)
  <2>1. completed \in Seq(Ws) /\ Once(completed)
    BY Zenon DEF RawTypeOK, Outcomes
  <2> QED BY <1>1, <2>1, WithoutElements, Zenon
<1>5. kept \in Seq(Ws) /\ Once(kept) /\ ~Has(kept, w)
  <2>1. CASE Len(rest) = Ring
    <3>1. rest # << >> /\ kept = Tail(rest) /\ Len(rest) \in Nat
      BY <1>2, <1>4, <2>1, Bounds
    <3>2. kept \in Seq(Ws) /\ Len(kept) = Len(rest) - 1 /\ \A i \in 1 .. Len(kept) : kept[i] = rest[i + 1]
      BY <1>4, <3>1
    <3>3. ~Has(rest, w)
      BY <1>4, Zenon
    <3>4. \A i \in 1 .. Len(kept) : i + 1 \in 1 .. Len(rest)
      BY <3>1, <3>2
    <3>5. Once(kept)
      BY <1>4, <3>2, <3>4 DEF Once
    <3>6. ~Has(kept, w)
      BY <3>2, <3>3, <3>4, Zenon DEF Has
    <3> QED BY <3>2, <3>5, <3>6, Zenon
  <2>2. CASE Len(rest) # Ring
    BY <1>2, <1>4, <2>2, Zenon
  <2> QED BY <2>1, <2>2, Zenon
<1>5a. ~Has(rest, w)
  BY <1>4, Zenon
<1>6. RoomForAll => kept = rest
  BY <1>2, <1>4, <1>5a, Zenon DEF RoomForAll
<1>7. /\ Len(t) = Len(kept) + 1 /\ Len(kept) \in Nat /\ t[Len(kept) + 1] = w
      /\ \A i \in 1 .. Len(kept) : t[i] = kept[i]
  BY <1>3, <1>5
<1>8. Once(t)
  BY <1>5, <1>7 DEF Once, Has
<1>9. Has(t, w)
  <2>1. Len(kept) + 1 \in 1 .. Len(t)
    BY <1>7
  <2> QED BY <1>7, <2>1, Zenon DEF Has
<1>10. \A v : Has(kept, v) => Has(t, v)
  <2>1. \A i \in 1 .. Len(kept) : i \in 1 .. Len(t)
    BY <1>7
  <2> QED BY <1>7, <2>1, Zenon DEF Has
<1>11. RoomForAll => \A v \in Ws : Has(completed, v) => Has(t, v)
  BY <1>4, <1>6, <1>9, <1>10, Zenon
<1> QED BY <1>8, <1>9, <1>11, Zenon

-----------------------------------------------------------------------------
(* What is reported gone is gone and stays so. *)
LEMMA GoneKept ==
  ASSUME NEW v \in Ws, Gone(v), ~Tracked(v)', holder'[v] => holder[v], fds'[v] => fds[v],
         ip'[v] \in {0, ip[v]}, scratch'[v] => scratch[v], recorded'[v].kept => recorded[v].kept,
         lease'[v] = lease[v], parked'[v] = parked[v], {lease[v], parked[v]} \cap leases' \subseteq leases
  PROVE  Gone(v)'
BY Zenon DEF Gone

(* A step that ends no teardown. *)
LEMMA OutcomesKept ==
  ASSUME Outcomes, UNCHANGED completed,
         \A v \in Ws : Untold(v)' => Untold(v),
         \A v \in Ws : progress'[v] \in {"closed", "gone", "lost"} => progress'[v] = progress[v],
         \A v \in Ws : Over(v) /\ Over(v)' /\ Gone(v) => Gone(v)'
  PROVE  Outcomes'
<1>1. \A v \in Ws : Over(v)' => Over(v)
  BY Zenon DEF Over, Untold
<1>2. \A v \in Ws : Over(v)' => Gone(v)'
  BY <1>1, Zenon DEF Outcomes
<1>3. \A v \in Ws : Has(completed', v) <=> Has(completed, v)
  BY Zenon
<1> QED BY <1>2, <1>3, Zenon DEF Outcomes

\* A pass releases and reports nothing yet.
LEMMA OutcomesPass ==
  ASSUME RawTypeOK, Control, Outcomes, RawNext, PassStep
  PROVE  Outcomes'
<1>1. /\ job'.kind = "teardown" /\ job.kind = "teardown" /\ job'.w = job.w
      /\ UNCHANGED <<handles, teardowns, lease, parked, progress, completed>> /\ leases' \subseteq leases
      /\ \A v \in Ws : /\ (fds'[v] => fds[v]) /\ (holder'[v] => holder[v]) /\ ip'[v] \in {0, ip[v]}
                       /\ (scratch'[v] => scratch[v])
  BY PassShape, PassFrame, Zenon DEF outside
<1>2. \A v \in Ws : Tracked(v)' <=> Tracked(v)
  BY <1>1, Zenon DEF Tracked
<1>3. \A v \in Ws : Over(v) /\ Gone(v) => Gone(v)'
  <2> SUFFICES ASSUME NEW v \in Ws, Gone(v) PROVE Gone(v)'
    BY Zenon
  <2>1. ~Tracked(v) /\ (recorded'[v].kept => recorded[v].kept)
    BY RecordedShape, Zenon DEF Gone
  <2> QED BY <1>1, <1>2, <2>1, GoneKept, Zenon
<1> QED BY <1>1, <1>2, <1>3, OutcomesKept, Zenon DEF Untold

\* A pass that ends without a failure has released everything, and is
\* remembered.
LEMMA OutcomesEnds ==
  ASSUME RawTypeOK, Control, Starts, Ledger, Files, Outcomes, RawNext, TeardownEnds
  PROVE  Outcomes'
<1>1. PICK w \in Ws : w = job.w
  BY Zenon DEF TeardownEnds, Control
<1>2. /\ job.kind = "teardown" /\ job.at = 10 /\ w \notin handles \cup teardowns
      /\ progress[w] \in {"starting", "open", "failed"}
      /\ progress[w] = "starting" => job.why = "rollback"
      /\ UNCHANGED <<handles, lease, parked, pid, fds, ip, leases, scratch>>
      /\ \A v \in Ws : holder'[v] => holder[v]
  BY <1>1, Zenon DEF TeardownEnds, Stop, Control, leaseVars
<1>3. job'.kind \notin {"setup", "teardown"}
  BY EmptyQueue, QueueJob, PassJob, IdleJob DEF TeardownEnds
<1>4. /\ \A v \in Ws \ {w} : progress'[v] = progress[v]
      /\ \/ progress'[w] = progress[w] /\ progress[w] # "starting"
         \/ progress'[w] = "failed"
         \/ progress'[w] = "closed" /\ job.failed = {} /\ progress[w] = "open"
  <2>1. progress \in [Ws -> {"new", "starting", "open", "closed", "gone", "failed", "lost", "dead"}]
    BY Zenon DEF RawTypeOK, PerWs
  <2>2. progress' = Told(w, job.failed = {}) /\ (job.why = "destroy" => progress[w] = "open")
    BY <1>1, Zenon DEF TeardownEnds, Control
  <2> QED BY <1>2, <2>1, <2>2, Zenon DEF Told
<1>5. CASE job.failed = {}
  <2>1. completed' = Remember(w) /\ UNCHANGED <<teardowns, recorded>>
    BY <1>1, <1>5, Zenon DEF TeardownEnds, Record
  <2>2. "Persistence" \in done[w] /\ ~Owns(w) /\ ~scratch[w]
    <3>1. \A i \in 1 .. 9 : Order[i] \in done[w]
      BY <1>1, <1>2, <1>5, AllReleased, Zenon
    <3>2. 9 \in 1 .. 9
      OBVIOUS
    <3>3. "Persistence" \in done[w]
      BY <3>1, <3>2, OrderSteps, Zenon
    <3> QED BY <1>1, <1>2, <1>5, <3>3, AllReleased, Zenon
  <2>3. ~recorded[w].kept
    BY <1>1, <1>2, <2>2, Zenon DEF Files, FileOf, InJob
  <2>4. ~Tracked(w)' /\ \A v \in Ws \ {w} : Tracked(v)' <=> Tracked(v)
    BY <1>1, <1>2, <1>3, <2>1, Zenon DEF Tracked
  <2>5. Over(w)' => Gone(w)'
    <3> SUFFICES ASSUME Over(w)' PROVE Gone(w)'
      BY Zenon
    <3>1. progress[w] = "open"
      BY <1>2, <1>4, Zenon DEF Over
    <3>2. pid[w]
      BY <3>1, Zenon DEF Starts
    <3> QED BY <1>2, <2>1, <2>2, <2>3, <2>4, <3>2, Zenon DEF Gone, Owns
  <2>6. \A v \in Ws \ {w} : Over(v)' => Gone(v)'
    <3> SUFFICES ASSUME NEW v \in Ws \ {w}, Over(v)' PROVE Gone(v)'
      BY Zenon
    <3>1. Gone(v)
      BY <1>4, <2>4, Zenon DEF Over, Outcomes
    <3>2. ~Tracked(v)'
      BY <2>4, <3>1, Zenon DEF Gone
    <3> QED BY <1>2, <2>1, <3>1, <3>2, GoneKept, Zenon
  <2>7. /\ Once(completed')
        /\ Has(completed', w)
        /\ RoomForAll => \A v \in Ws : Has(completed, v) => Has(completed', v)
    BY <2>1, RememberElements, Zenon
  <2>8. ASSUME RoomForAll, NEW v \in Ws
        PROVE  progress'[v] # "lost" /\ (Untold(v)' => Has(completed', v))
    <3>1. CASE v = w
      BY <1>2, <1>4, <2>7, <3>1, Zenon
    <3>2. CASE v # w
      BY <1>4, <2>4, <2>7, <2>8, <3>2, Zenon DEF Untold, Outcomes
    <3> QED BY <3>1, <3>2, Zenon
  <2> QED BY <2>5, <2>6, <2>7, <2>8, Zenon DEF Outcomes
<1>6. CASE job.failed # {}
  <2>1. UNCHANGED completed /\ teardowns' = teardowns \cup {w}
    BY <1>1, <1>6, Zenon DEF TeardownEnds, Retain
  <2>2. \A v \in Ws : Tracked(v)' <=> Tracked(v)
    BY <1>1, <1>2, <1>3, <2>1, Zenon DEF Tracked
  <2>3. Tracked(w)
    BY <1>1, <1>2, Zenon DEF Tracked
  <2>4. \A v \in Ws : Gone(v) => Gone(v)'
    <3> SUFFICES ASSUME NEW v \in Ws, Gone(v) PROVE Gone(v)'
      BY Zenon
    <3>1. ~Tracked(v) /\ (recorded'[v].kept => recorded[v].kept)
      BY RecordedShape, Zenon DEF Gone
    <3> QED BY <1>2, <2>2, <3>1, GoneKept, Zenon
  <2>5. \A v \in Ws : Untold(v)' => Untold(v)
    BY <1>4, <2>2, <2>3, Zenon DEF Untold
  <2>6. \A v \in Ws : progress'[v] \in {"closed", "gone", "lost"} => progress'[v] = progress[v]
    BY <1>4, <1>6, Zenon
  <2> QED BY <2>1, <2>4, <2>5, <2>6, OutcomesKept, Zenon
<1> QED BY <1>5, <1>6, Zenon

(* Steps that neither make nor end the ownership of a workspace. *)
LEMMA OutcomesStill ==
  ASSUME RawTypeOK, Control, Outcomes, RawNext, UNCHANGED <<completed, lease, parked, fds, ip>>,
         \A v \in Ws : Tracked(v)' <=> Tracked(v),
         \A v \in Ws : progress'[v] \in {"closed", "gone", "lost", "open"} => progress'[v] = progress[v],
         \A v \in Ws : (holder'[v] => holder[v]) /\ (scratch'[v] => scratch[v]),
         leases' \subseteq leases
  PROVE  Outcomes'
<1>1. \A v \in Ws : Gone(v) => Gone(v)'
  <2> SUFFICES ASSUME NEW v \in Ws, Gone(v) PROVE Gone(v)'
    BY Zenon
  <2>1. ~Tracked(v) /\ (recorded'[v].kept => recorded[v].kept)
    BY RecordedShape, Zenon DEF Gone
  <2> QED BY <2>1, GoneKept, Zenon
<1> QED BY <1>1, OutcomesKept, Zenon DEF Untold

\* A creation makes an owner.
LEMMA OutcomesSetup ==
  ASSUME RawTypeOK, Control, Outcomes, RawNext, SetupStep
  PROVE  Outcomes'
<1>1. PICK w \in Ws : w = job.w
  BY SetupShape, Zenon
<1>2. /\ job.kind = "setup" /\ progress[w] = "starting"
      /\ UNCHANGED <<teardowns, lease, parked, leases, completed>>
      /\ \A v \in Ws \ {w} : /\ fds'[v] = fds[v] /\ ip'[v] = ip[v] /\ holder'[v] = holder[v]
                             /\ scratch'[v] = scratch[v]
  BY <1>1, SetupShape, Zenon DEF setupFrame, leaseVars, Control
<1>3. \/ job'.kind \in {"setup", "teardown"} /\ job'.w = w /\ UNCHANGED <<handles, progress>>
      \/ /\ job'.kind = "idle" /\ handles' = handles \cup {w}
         /\ progress' = [progress EXCEPT ![w] = "open"]
  BY <1>1, SetupShape, IdleJob, PassJob, SetupJob DEF Rollback
<1>4. \A v \in Ws : Tracked(v)' <=> Tracked(v)
  BY <1>1, <1>2, <1>3, Zenon DEF Tracked
<1>5. Tracked(w)
  BY <1>1, <1>2, Zenon DEF Tracked
<1>6. \A v \in Ws \ {w} : progress'[v] = progress[v]
  BY <1>3, Zenon DEF RawTypeOK, PerWs
<1>7. progress'[w] \in {"starting", "open"}
  BY <1>2, <1>3 DEF RawTypeOK, PerWs
<1>8. \A v \in Ws : Gone(v) => Gone(v)'
  <2> SUFFICES ASSUME NEW v \in Ws, Gone(v) PROVE Gone(v)'
    BY Zenon
  <2>1. ~Tracked(v) /\ (recorded'[v].kept => recorded[v].kept)
    BY RecordedShape, Zenon DEF Gone
  <2>2. v # w
    BY <1>5, <2>1, Zenon
  <2> QED BY <1>2, <1>4, <2>1, <2>2, GoneKept, Zenon
<1>9. \A v \in Ws : Untold(v)' => Untold(v)
  BY <1>4, <1>5, <1>6, Zenon DEF Untold
<1>10. \A v \in Ws : progress'[v] \in {"closed", "gone", "lost"} => progress'[v] = progress[v]
  BY <1>6, <1>7, Zenon
<1> QED BY <1>2, <1>8, <1>9, <1>10, OutcomesKept, Zenon

\* What is gone stays gone over sweeps, shutdown, crash and boot.
LEMMA OutcomesWorld ==
  ASSUME RawTypeOK, Control, Outcomes, RawNext,
         Close \/ ReconcileRaw \/ ShutdownRaw \/ PersistSweep \/ Crash \/ Boot
  PROVE  Outcomes'
<1> USE DEF memory, remountVars, machine, leaseVars
<1>1. CASE Close
  <2>1. PICK w \in job.queue : /\ job' = Pass(w, job.why, job.queue \ {w})
                              /\ handles' = handles \ {w} /\ teardowns' = teardowns \ {w}
    BY <1>1, Zenon DEF Close
  <2>2. /\ job'.kind = "teardown" /\ job'.w = w /\ job.kind = "queue" /\ w \in handles \cup teardowns
        /\ UNCHANGED <<completed, lease, parked, fds, ip, leases, holder, scratch, progress>>
    BY <1>1, <2>1, PassJob DEF Close, Control
  <2>3. \A v \in Ws : Tracked(v)' <=> Tracked(v)
    BY <2>1, <2>2, Zenon DEF Tracked
  <2> QED BY <2>2, <2>3, OutcomesStill, Zenon
<1>2. CASE ReconcileRaw \/ ShutdownRaw \/ PersistSweep \/ Boot
  <2>1. /\ UNCHANGED <<handles, teardowns, completed, lease, parked, fds, ip, leases, progress>>
        /\ \A v \in Ws : (holder'[v] => holder[v]) /\ (scratch'[v] => scratch[v])
    BY <1>2, Zenon DEF ReconcileRaw, ShutdownRaw, PersistSweep, Boot, Stop
  <2>2. job.kind \in {"idle", "queue"} /\ job'.kind \in {"idle", "queue"}
    <3>1. CASE ReconcileRaw \/ ShutdownRaw
      BY <3>1, QueueKind, Zenon DEF ReconcileRaw, ShutdownRaw, Free
    <3>2. CASE PersistSweep
      BY <3>2, Zenon DEF PersistSweep, Free
    <3>3. CASE Boot
      BY <3>3, IdleJob, SetupJob, Zenon DEF Boot, Control
    <3> QED BY <1>2, <3>1, <3>2, <3>3, Zenon
  <2>3. \A v \in Ws : Tracked(v)' <=> Tracked(v)
    BY <2>1, <2>2, Zenon DEF Tracked
  <2> QED BY <2>1, <2>3, OutcomesStill, Zenon
<1>3. CASE Crash
  <2>1. \A v \in Ws : progress'[v] \notin {"closed", "gone", "lost", "open"}
    BY <1>3, Zenon DEF Crash
  <2>2. completed' = << >> /\ Len(completed') = 0
    BY <1>3, Zenon DEF Crash
  <2> QED BY <2>1, <2>2 DEF Outcomes, Over, Untold, Once
<1> QED BY <1>1, <1>2, <1>3, Zenon

\* A destroy that finds no owner reports what the ring says.
LEMMA OutcomesCalls ==
  ASSUME RawTypeOK, Control, Starts, Mounts, Outcomes, RawNext, NEW w \in Ws,
         Create(w) \/ OpenRaw(w) \/ DestroyRaw(w) \/ Forget(w) \/ HolderDies(w) \/ RemountStep(w)
  PROVE  Outcomes'
<1> USE DEF Free, memory, remountVars, machine, leaseVars
<1>P. progress \in [Ws -> {"new", "starting", "open", "closed", "gone", "failed", "lost", "dead"}]
  BY Zenon DEF RawTypeOK, PerWs
<1>1. CASE Create(w) \/ HolderDies(w)
  <2>1. /\ UNCHANGED <<handles, teardowns, completed, lease, parked, fds, ip, leases, scratch>>
        /\ \A v \in Ws : holder'[v] => holder[v]
    BY <1>1, Zenon DEF Create, HolderDies, RawTypeOK, PerWs
  <2>2. job' = job \/ (job.kind = "idle" /\ job'.kind \in {"idle", "queue"})
    BY <1>1, QueueKind, Zenon DEF Create, HolderDies
  <2>3. \A v \in Ws : Tracked(v)' <=> Tracked(v)
    BY <2>1, <2>2, Zenon DEF Tracked
  <2>4. \A v \in Ws : progress'[v] \in {"closed", "gone", "lost", "open"} => progress'[v] = progress[v]
    BY <1>P, <1>1, Zenon DEF Create, HolderDies
  <2> QED BY <2>1, <2>3, <2>4, OutcomesStill, Zenon
<1>2. CASE OpenRaw(w)
  <2>1. /\ progress[w] = "starting" /\ job.kind = "idle"
        /\ UNCHANGED <<handles, teardowns, completed, parked, fds, ip, scratch, holder, recorded>>
        /\ leases' \subseteq leases \cup {nextLease}
        /\ \A v \in Ws \ {w} : lease'[v] = lease[v] /\ progress'[v] = progress[v]
        /\ progress'[w] \in {"starting", "failed"}
    BY <1>P, <1>2, Zenon DEF OpenRaw, RawTypeOK, PerWs
  <2>2. job'.kind = "idle" \/ job'.w = w
    BY <1>2, <2>1, IdleJob, EmptyQueue, QueueJob, PassJob, SetupJob DEF OpenRaw
  <2>3. \A v \in Ws \ {w} : Tracked(v)' <=> Tracked(v)
    BY <2>1, <2>2, Zenon DEF Tracked
  <2>4. \A v \in Ws : Over(v) /\ Gone(v) => Gone(v)'
    <3> SUFFICES ASSUME NEW v \in Ws, Over(v), Gone(v) PROVE Gone(v)'
      BY Zenon
    <3>1. v # w
      BY <2>1, Zenon DEF Over
    <3>2. {lease[v], parked[v]} \cap leases' \subseteq leases
      BY <2>1, NextUnheld, Zenon
    <3>3. ~Tracked(v)
      BY Zenon DEF Gone
    <3> QED BY <2>1, <2>3, <3>1, <3>2, <3>3, GoneKept, Zenon
  <2>5. \A v \in Ws : Untold(v)' => Untold(v)
    BY <2>1, <2>3, Zenon DEF Untold
  <2>6. \A v \in Ws : progress'[v] \in {"closed", "gone", "lost"} => progress'[v] = progress[v]
    BY <2>1, Zenon
  <2> QED BY <2>1, <2>4, <2>5, <2>6, OutcomesKept, Zenon
<1>3. CASE DestroyRaw(w)
  <2>1. /\ progress[w] = "open" /\ job.kind = "idle"
        /\ UNCHANGED <<handles, teardowns, completed, lease, parked, fds, ip, leases, scratch, holder, recorded>>
        /\ \A v \in Ws \ {w} : progress'[v] = progress[v]
    BY <1>P, <1>3, Zenon DEF DestroyRaw
  <2>2. job'.kind \in {"idle", "queue"}
    BY <1>3, <2>1, QueueKind, Zenon DEF DestroyRaw
  <2>3. \A v \in Ws : Tracked(v)' <=> Tracked(v)
    BY <2>1, <2>2, Zenon DEF Tracked
  <2>4. CASE Tracked(w)
    <3>1. progress' = progress
      BY <1>3, <2>1, <2>4, Zenon DEF DestroyRaw, Tracked
    <3> QED BY <2>1, <2>3, <3>1, OutcomesStill, Zenon
  <2>5. CASE ~Tracked(w)
    <3>1. progress'[w] = IF Has(completed, w) THEN "closed" ELSE "lost"
      BY <1>P, <1>3, <2>1, <2>5, Zenon DEF DestroyRaw, Tracked, Has
    <3>2. \A v \in Ws : Over(v)' => Over(v)
      BY <2>1, <2>3, <2>5, Zenon DEF Over
    <3>3. \A v \in Ws : Over(v)' => Gone(v)'
      <4> SUFFICES ASSUME NEW v \in Ws, Over(v)' PROVE Gone(v)'
        BY Zenon
      <4>1. Gone(v) /\ ~Tracked(v)'
        BY <2>3, <3>2, ZenonT(30) DEF Outcomes, Gone
      <4> QED BY <2>1, <4>1, GoneKept, Zenon
    <3>4. ASSUME RoomForAll, NEW v \in Ws
          PROVE  progress'[v] # "lost" /\ (Untold(v)' => Has(completed', v))
      <4>1. /\ progress[v] # "lost" /\ (Untold(v) => Has(completed, v)) /\ (Untold(w) => Has(completed, w))
        BY <3>4, Zenon DEF Outcomes
      <4>2. Untold(w) /\ (Has(completed', v) <=> Has(completed, v))
        BY <2>1, <2>5, Zenon DEF Untold
      <4> QED BY <2>1, <2>3, <3>1, <4>1, <4>2 DEF Untold
    <3> QED BY <2>1, <3>3, <3>4, Zenon DEF Outcomes
  <2> QED BY <2>4, <2>5, Zenon
<1>4. CASE Forget(w)
  <2>1. /\ progress[w] = "closed" /\ progress' = [progress EXCEPT ![w] = "gone"]
        /\ completed' = Without(completed, w)
        /\ UNCHANGED <<job, handles, teardowns, lease, parked, fds, ip, leases, scratch, holder, recorded>>
    BY <1>4, Zenon DEF Forget
  <2>2. completed \in Seq(Ws)
    BY Zenon DEF RawTypeOK
  <2>3. /\ Once(completed')
        /\ \A v \in Ws \ {w} : Has(completed, v) => Has(completed', v)
    BY <2>1, <2>2, WithoutElements, Zenon DEF Outcomes
  <2>4. \A v \in Ws : Tracked(v)' <=> Tracked(v)
    BY <2>1, Zenon DEF Tracked
  <2>5. \A v \in Ws : Over(v)' => Over(v)
    BY <1>P, <2>1, <2>4, Zenon DEF Over
  <2>6. \A v \in Ws : Over(v)' => Gone(v)'
    <3> SUFFICES ASSUME NEW v \in Ws, Over(v)' PROVE Gone(v)'
      BY Zenon
    <3>1. Gone(v) /\ ~Tracked(v)'
      BY <2>4, <2>5, Zenon DEF Outcomes, Gone
    <3> QED BY <2>1, <3>1, GoneKept, Zenon
  <2>7. \A v \in Ws : /\ progress'[v] = "lost" => progress[v] = "lost"
                      /\ Untold(v)' => Untold(v) /\ v # w
    BY <1>P, <2>1, <2>4, Zenon DEF Untold
  <2> QED BY <2>3, <2>6, <2>7, Zenon DEF Outcomes
<1>5. CASE RemountStep(w)
  <2>1. /\ w \in handles
        /\ UNCHANGED <<job, handles, teardowns, completed, fds, ip, holder, scratch, progress, recorded>>
        /\ \A v \in Ws \ {w} : lease'[v] = lease[v] /\ parked'[v] = parked[v]
    BY <1>5, RemountShape, Zenon DEF remountFrame
  <2>2. leases' \subseteq leases \cup {nextLease}
    BY <1>5, ReleaseType, Zenon DEF RemountStep, RemountLease, RemountSkip, RemountSwitch, RemountReleaseOld,
         RemountApply
  <2>3. \A v \in Ws : Tracked(v)' <=> Tracked(v)
    BY <2>1, Zenon DEF Tracked
  <2>4. \A v \in Ws : Gone(v) => Gone(v)'
    <3> SUFFICES ASSUME NEW v \in Ws, Gone(v) PROVE Gone(v)'
      BY Zenon
    <3>1. v # w /\ ~Tracked(v)
      BY <2>1, Zenon DEF Gone, Tracked
    <3>2. {lease[v], parked[v]} \cap leases' \subseteq leases
      BY <2>2, NextUnheld, Zenon
    <3> QED BY <2>1, <2>3, <3>1, <3>2, GoneKept, Zenon
  <2> QED BY <2>1, <2>3, <2>4, OutcomesKept, Zenon DEF Untold
<1> QED BY <1>1, <1>2, <1>3, <1>4, <1>5, Zenon

\* Every step keeps the outcomes true.
LEMMA OutcomesStep ==
  ASSUME RawTypeOK, Control, Starts, Ledger, Mounts, Files, Outcomes, RawNext
  PROVE  Outcomes'
BY OutcomesPass, OutcomesEnds, OutcomesSetup, OutcomesWorld, OutcomesCalls, Zenon
   DEF RawNext, PassStep, SetupStep, RemountStep

-----------------------------------------------------------------------------
(* What manager.json and the run directories say. *)

(* While the daemon runs, a run directory has an owner or belongs to a     *)
(* creation that a crash cut off.                                          *)
LEMMA ScratchUp ==
  ASSUME Files, ScratchFound, ~ReapFaults, up, NEW v \in Ws, scratch[v]
  PROVE  Tracked(v) \/ (progress[v] = "failed" /\ crashes > 0)
BY Zenon DEF Files, FileOf, Late, ScratchFound, ScratchTracked

(* An open workspace with a directory has an owner. *)
LEMMA OpenTracked ==
  ASSUME Outcomes, NEW v \in Ws, progress[v] = "open", scratch[v]
  PROVE  Tracked(v)
BY ZenonT(30) DEF Outcomes, Over, Gone

(* What any step of a running daemon keeps of a directory and its owner. *)
LEMMA RunningStep ==
  ASSUME RawTypeOK, Control, Ledger, RawNext, ~Crash, ~Boot, NEW v \in Ws
  PROVE  /\ up /\ up' /\ crashes' = crashes
         /\ scratch'[v] => scratch[v] \/ Tracked(v)'
         /\ Tracked(v) /\ scratch'[v] => Tracked(v)'
         /\ progress[v] = "failed" => progress'[v] = "failed"
         /\ progress'[v] = "dead" => progress[v] = "dead"
         /\ progress'[v] = "open" => progress[v] = "open" \/ Tracked(v)
<1> USE DEF Free, memory, remountVars, machine, leaseVars, budget
<1>T. /\ progress \in [Ws -> {"new", "starting", "open", "closed", "gone", "failed", "lost", "dead"}]
      /\ holder \in [Ws -> BOOLEAN] /\ up \in BOOLEAN
  BY Zenon DEF RawTypeOK, PerWs
<1>B. \A H, T : PersistOk(Records(H, T)) \/ PersistErr(Records(H, T)) => crashes' = crashes
  BY Zenon DEF PersistOk, PersistErr, Fault, NoFault
<1>1. CASE PassStep
  <2>1. /\ up /\ job'.kind = "teardown" /\ job.kind = "teardown" /\ job'.w = job.w
        /\ UNCHANGED <<up, handles, teardowns, progress>> /\ (scratch'[v] => scratch[v])
    BY <1>1, PassShape, PassFrame, Zenon DEF outside
  <2>2. crashes' = crashes
    BY <1>1, <1>B, Zenon DEF PassStep, StepSkip, StepHolder, StepCommands, StepNamespaceFds, StepNetwork,
         StepMounts, StepScratch, StepLeases, StepLeaseAccounting, StepPersistence, Fault, NoFault
  <2> QED BY <2>1, <2>2, Zenon DEF Tracked
<1>2. CASE TeardownEnds
  <2>1. PICK w \in Ws : w = job.w
    BY <1>2, Zenon DEF TeardownEnds, Control
  <2>2. /\ up /\ up' = up /\ job.kind = "teardown" /\ job.at = 10 /\ UNCHANGED <<handles, scratch>>
        /\ teardowns' = IF job.failed = {} THEN teardowns ELSE teardowns \cup {w}
        /\ crashes' = crashes /\ progress' = Told(w, job.failed = {})
    BY <1>2, <1>B, <2>1, Zenon DEF TeardownEnds, Record, Retain
  <2>3. job.why = "destroy" => progress[w] = "open"
    BY <2>1, <2>2, Zenon DEF Control
  <2>4. job.why = "rollback" => progress[w] = "starting"
    BY <2>1, <2>2, Zenon DEF Control
  <2>5. /\ progress[v] = "failed" => progress'[v] = "failed"
        /\ progress'[v] \in {"open", "dead"} => progress[v] = progress'[v]
    BY <1>T, <2>2, <2>3, <2>4, Zenon DEF Told
  <2>6. Tracked(v) /\ scratch'[v] => Tracked(v)'
    <3> SUFFICES ASSUME Tracked(v), scratch[v] PROVE v \in handles' \cup teardowns'
      BY <2>2, Zenon DEF Tracked
    <3>1. v = w => job.failed # {}
      BY <2>1, <2>2, AllReleased, Zenon
    <3> QED BY <2>1, <2>2, <3>1, Zenon DEF Tracked
  <2> QED BY <2>2, <2>5, <2>6, Zenon
<1>3. CASE Close
  <2>1. PICK w \in job.queue : /\ job' = Pass(w, job.why, job.queue \ {w})
                              /\ handles' = handles \ {w} /\ teardowns' = teardowns \ {w}
    BY <1>3, Zenon DEF Close
  <2>2. /\ up /\ up' = up /\ job'.kind = "teardown" /\ job'.w = w /\ job.kind = "queue"
        /\ UNCHANGED <<scratch, progress, crashes>>
    BY <1>3, <2>1, IdleJob, PassJob DEF Close
  <2> QED BY <2>1, <2>2, Zenon DEF Tracked
<1>4. CASE SetupStep
  <2>1. PICK w \in Ws : w = job.w
    BY <1>4, SetupShape, Zenon
  <2>2. /\ up /\ up' = up /\ job.kind = "setup" /\ UNCHANGED teardowns
        /\ \A u \in Ws \ {w} : scratch'[u] = scratch[u]
    BY <1>4, <2>1, SetupShape, Zenon DEF setupFrame
  <2>3. \/ job'.kind \in {"setup", "teardown"} /\ job'.w = w /\ UNCHANGED <<handles, progress>>
        \/ handles' = handles \cup {w} /\ progress' = [progress EXCEPT ![w] = "open"]
    BY <1>4, <2>1, SetupShape, PassJob, SetupJob DEF Rollback
  <2>4. Tracked(w) /\ Tracked(w)' /\ (Tracked(v) => Tracked(v)')
    BY <2>1, <2>2, <2>3, Zenon DEF Tracked
  <2>5. crashes' = crashes
    BY <1>4, <1>B, Zenon DEF SetupStep, SetupDirs, SetupHolder, SetupFds, SetupVeth, SetupMount, SetupNet,
         SetupPublish, Goes, Fails, Fault, NoFault
  <2>6. progress[w] = "starting"
    BY <2>1, <2>2, Zenon DEF Control
  <2> QED BY <1>T, <2>2, <2>3, <2>4, <2>5, <2>6, Zenon
<1>5. CASE ReconcileRaw \/ ShutdownRaw \/ PersistSweep
  <2>1. /\ up /\ up' = up /\ job.kind = "idle" /\ UNCHANGED <<handles, teardowns, progress, scratch>>
        /\ crashes' = crashes
    BY <1>5, <1>B, Zenon DEF ReconcileRaw, ShutdownRaw, PersistSweep
  <2> QED BY <2>1, Zenon DEF Tracked
<1>6. ASSUME NEW w \in Ws, Create(w) \/ OpenRaw(w) \/ DestroyRaw(w) \/ Forget(w) \/ HolderDies(w)
      PROVE  /\ up /\ up' = up /\ UNCHANGED <<handles, teardowns, scratch, crashes>>
             /\ job.kind = "idle" \/ job' = job
             /\ progress[v] = "failed" => progress'[v] = "failed"
             /\ progress'[v] \in {"open", "dead"} => progress[v] = progress'[v]
  BY <1>T, <1>6, Zenon DEF Create, OpenRaw, DestroyRaw, Forget, HolderDies, Fault, NoFault
<1>7. ASSUME NEW w \in Ws, RemountStep(w)
      PROVE  up /\ up' = up /\ UNCHANGED <<handles, teardowns, scratch, job, progress, crashes>>
  <2>1. crashes' = crashes
    BY <1>7, Zenon DEF RemountStep, RemountLease, RemountSkip, RemountSwitch, RemountReleaseOld, RemountApply,
         RemountRelease, Released, ReleaseErr, Fault, NoFault
  <2> QED BY <1>7, <2>1, RemountShape, Zenon DEF remountFrame
<1>8. ASSUME NEW w \in Ws,
             Create(w) \/ OpenRaw(w) \/ DestroyRaw(w) \/ Forget(w) \/ HolderDies(w) \/ RemountStep(w)
      PROVE  /\ up /\ up' /\ crashes' = crashes
             /\ scratch'[v] => scratch[v] \/ Tracked(v)'
             /\ Tracked(v) /\ scratch'[v] => Tracked(v)'
             /\ progress[v] = "failed" => progress'[v] = "failed"
             /\ progress'[v] = "dead" => progress[v] = "dead"
             /\ progress'[v] = "open" => progress[v] = "open" \/ Tracked(v)
  <2>1. CASE RemountStep(w)
    BY <1>7, <2>1 DEF Tracked
  <2>2. CASE ~RemountStep(w)
    BY <1>6, <1>8, <2>2 DEF Tracked
  <2> QED BY <2>1, <2>2, Zenon
<1> QED BY <1>1, <1>2, <1>3, <1>4, <1>5, <1>8, SMTT(30) DEF RawNext, PassStep, SetupStep, RemountStep

\* Every step keeps the run directories found.
LEMMA ScratchStep ==
  ASSUME RawTypeOK, Control, Starts, Ledger, Files, ScratchFound, Outcomes, RawNext
  PROVE  ScratchFound'
<1> SUFFICES ASSUME ~ReapFaults, NEW v \in Ws, scratch'[v]
             PROVE  Tracked(v)' \/ recorded'[v].kept \/ (progress'[v] = "failed" /\ crashes' > 0)
  BY Zenon DEF ScratchFound, ScratchTracked
<1>C. crashes \in Nat /\ FileOf(v)
  BY Bounds DEF RawTypeOK, Files
<1>1. CASE Crash
  <2>1. /\ up /\ recorded'[v] = recorded[v] /\ scratch[v] /\ crashes' > 0
        /\ \/ progress[v] = "new" \/ progress[v] \in {"open", "closed", "gone", "dead"} \/ progress'[v] = "failed"
    BY <1>C, <1>1 DEF Crash
  <2>2. progress[v] # "new"
    <3>1. InJob(v) => progress[v] # "new"
      BY Zenon DEF InJob, Control
    <3> QED BY <2>1, <3>1, Zenon DEF Starts
  <2>3. progress[v] \notin {"closed", "gone"}
    BY <2>1, Zenon DEF Outcomes, Over, Gone
  <2> QED BY <1>C, <2>1, <2>2, <2>3, Zenon DEF FileOf
<1>2. CASE Boot
  <2>1. /\ ~up /\ UNCHANGED <<progress, job, handles, teardowns>>
        /\ scratch'[v] = (scratch[v] /\ ~recorded[v].kept)
    BY <1>2, Zenon DEF Boot, memory
  <2>2. crashes' = crashes
    BY <1>2, Zenon DEF Boot, PersistOk, PersistErr, Fault, NoFault, budget
  <2>3. ~Tracked(v)
    BY <2>1, IdleJob, PassJob, Zenon DEF Tracked, Control
  <2> QED BY <2>1, <2>2, <2>3, Zenon DEF ScratchFound, ScratchTracked
<1>3. CASE ~Crash /\ ~Boot
  <2>1. /\ up /\ crashes' = crashes
        /\ scratch'[v] => scratch[v] \/ Tracked(v)'
        /\ Tracked(v) /\ scratch'[v] => Tracked(v)'
        /\ progress[v] = "failed" => progress'[v] = "failed"
    BY <1>3, RunningStep, Zenon
  <2> QED BY <2>1, ScratchUp, Zenon
<1> QED BY <1>1, <1>2, <1>3, Zenon

(* A step that does not write manager.json. *)
LEMMA FileKept ==
  ASSUME NEW v, FileOf(v), Late(v) => Late(v)', Tracked(v) => Tracked(v)',
         InJob(v)' /\ "Persistence" \in done'[v] => InJob(v) /\ "Persistence" \in done[v],
         recorded'[v] = recorded[v], scratch'[v] => scratch[v],
         progress'[v] \in {"open", "dead"} => progress'[v] = progress[v],
         up, up'
  PROVE  FileOf(v)'
BY Zenon DEF FileOf

(* A step that writes it, with what is in H and T. *)
LEMMA FileWritten ==
  ASSUME RawTypeOK, Starts, Ledger, Outcomes, NEW v \in Ws, FileOf(v),
         NEW H, NEW T, PersistOk(Records(H, T)) \/ PersistErr(Records(H, T)),
         v \in H \cup T => Tracked(v)',
         v \in handles => v \in H, v \in teardowns => v \in T,
         Tracked(v) => Tracked(v)', Late(v) => Late(v)',
         InJob(v)' => "Persistence" \notin done'[v],
         scratch'[v] => scratch[v], up, up',
         progress'[v] \in {"open", "dead"} => progress'[v] = progress[v],
         InJob(v) => \/ ~scratch[v] \/ progress'[v] # "open"
                     \/ v \in T /\ "Persistence" \notin done[v]
  PROVE  FileOf(v)'
<1>1. /\ recorded'[v].kept => recorded[v].kept \/ v \in Kept(H, T)
      /\ ~recorded'[v].kept => ~recorded[v].kept \/ v \notin Kept(H, T)
  BY KeptRecords, Zenon
<1>2. v \in Kept(H, T) => v \in H \cup T
  BY Zenon DEF Kept
<1>3. recorded'[v].kept => Tracked(v)' \/ Late(v)'
  BY <1>1, <1>2, Zenon DEF FileOf
<1>4. ASSUME progress'[v] = "open", scratch'[v] PROVE recorded'[v].kept
  <2>1. Tracked(v) /\ recorded[v].kept
    BY <1>4, OpenTracked, Zenon DEF FileOf
  <2>2. v \in teardowns => "Persistence" \notin done[v]
    BY Zenon DEF Ledger
  <2>3. v \in Kept(H, T)
    BY <1>4, <2>1, <2>2, Zenon DEF Tracked, InJob, Kept
  <2> QED BY <1>1, <2>1, <2>3, Zenon
<1>5. ~(progress'[v] = "dead" /\ scratch'[v] /\ ~ReapFaults)
  BY Zenon DEF FileOf
<1> QED BY <1>3, <1>4, <1>5, Zenon DEF FileOf

\* A pass drops its workspace from manager.json when all else has succeeded.
LEMMA FilesPass ==
  ASSUME RawTypeOK, Control, Starts, Ledger, Files, Outcomes, PassStep
  PROVE  Files'
<1> SUFFICES ASSUME NEW v \in Ws PROVE FileOf(v)'
  BY Zenon DEF Files
<1>1. PICK w \in Ws : w = job.w
  BY PassShape, Zenon
<1>2. /\ up /\ up' = up /\ job.kind = "teardown" /\ job'.kind = "teardown" /\ job'.w = w
      /\ UNCHANGED <<handles, teardowns, progress>> /\ (scratch'[v] => scratch[v])
  BY <1>1, PassShape, PassFrame, Zenon DEF outside
<1>3. Tracked(v)' = Tracked(v) /\ InJob(v)' = InJob(v) /\ (InJob(v) => v = w)
  BY <1>1, <1>2, Zenon DEF Tracked, InJob
<1>4. crashes' = crashes
  <2>1. ~Crash /\ ~Boot
    BY <1>2, Zenon DEF Crash, Boot, NoJob
  <2>2. RawNext
    BY Zenon DEF PassStep, RawNext
  <2> QED BY <2>1, <2>2, RunningStep, Zenon
<1>5. Late(v)' = Late(v)
  BY <1>2, <1>4, Zenon DEF Late
<1>6. FileOf(v) /\ (v # w => done'[v] = done[v])
  BY <1>1, PassShape, Zenon DEF Files
<1>7. CASE StepPersistence /\ job.failed = {}
  <2>1. /\ job.at = 9 /\ scratch' = scratch
        /\ \/ PersistOk(Records(handles, teardowns)) /\ Advance(TRUE)
           \/ PersistErr(Records(handles, teardowns)) /\ Advance(FALSE)
    <3>1. job.at \in 1 .. 9
      BY PassShape, Zenon
    <3>2. job.at = 9
      BY <1>7, <3>1 DEF StepPersistence, At, Order
    <3> QED BY <1>7, <3>2, Zenon DEF StepPersistence, machine
  <2>2. "Persistence" \notin done[w] /\ w \notin handles \cup teardowns
    BY <1>1, <1>7, Zenon DEF StepPersistence, At, Control
  <2>3. ~scratch[w]
    <3>1. Order[6] \in done[w] \cup job.failed
      BY <1>1, <1>2, <2>1 DEF Ledger
    <3> QED BY <1>7, <3>1, Zenon DEF Order, Ledger, Entry
  <2>4. CASE v # w \/ Advance(FALSE)
    <3>1. InJob(v)' => "Persistence" \notin done'[v]
      BY <1>1, <1>3, <2>2, <2>4, Zenon DEF Advance
    <3> QED BY <1>2, <1>3, <1>5, <1>6, <2>1, <2>3, <3>1, FileWritten, Zenon DEF Tracked
  <2>5. CASE v = w /\ PersistOk(Records(handles, teardowns))
    <3>1. ~recorded'[v].kept
      BY <2>2, <2>5, KeptRecords, Zenon DEF Kept
    <3> QED BY <1>2, <1>6, <2>3, <2>5, <3>1 DEF FileOf
  <2> QED BY <2>1, <2>4, <2>5, Zenon
<1>8. CASE ~(StepPersistence /\ job.failed = {})
  <2>1. recorded' = recorded
    BY <1>8, Zenon DEF PassStep, StepSkip, StepHolder, StepCommands, StepNamespaceFds, StepNetwork,
         StepMounts, StepScratch, StepLeases, StepLeaseAccounting, StepPersistence
  <2>2. "Persistence" \in done'[w] => "Persistence" \in done[w]
    <3>1. CASE StepPersistence
      BY <1>1, <1>8, <3>1, Zenon DEF StepPersistence, Advance
    <3>2. CASE ~StepPersistence
      <4>1. Order[job.at] # "Persistence" \/ done' = done
        BY <3>2, Zenon DEF PassStep, StepSkip, StepHolder, StepCommands, StepNamespaceFds, StepNetwork,
             StepMounts, StepScratch, StepLeases, StepLeaseAccounting, At
      <4> QED BY <1>1, <4>1, PassShape, Zenon
    <3> QED BY <3>1, <3>2, Zenon
  <2> QED BY <1>2, <1>3, <1>5, <1>6, <2>1, <2>2, FileKept
<1> QED BY <1>7, <1>8, Zenon

\* A retained teardown is written back, a completed one is not.
LEMMA FilesEnds ==
  ASSUME RawTypeOK, Control, Starts, Ledger, Files, Outcomes, RawNext, TeardownEnds
  PROVE  Files'
<1> SUFFICES ASSUME NEW v \in Ws PROVE FileOf(v)'
  BY Zenon DEF Files
<1>1. PICK w \in Ws : w = job.w
  BY Zenon DEF TeardownEnds, Control
<1>2. /\ up /\ up' = up /\ job.kind = "teardown" /\ job.at = 10 /\ UNCHANGED <<handles, scratch>>
      /\ job' = Queue(job.queue, job.why) /\ progress' = Told(w, job.failed = {})
      /\ IF job.failed = {} THEN Record(w) ELSE Retain(w)
  BY <1>1, Zenon DEF TeardownEnds
<1>3. ~InJob(v)' /\ FileOf(v) /\ (InJob(v) <=> v = w)
  BY <1>1, <1>2, QueueKind, Zenon DEF InJob, Files
<1>4. /\ progress'[v] \in {"open", "dead"} => progress'[v] = progress[v]
      /\ v # w => progress'[v] = progress[v]
  <2>1. progress \in [Ws -> {"new", "starting", "open", "closed", "gone", "failed", "lost", "dead"}]
    BY Zenon DEF RawTypeOK, PerWs
  <2> QED BY <1>2, <2>1, Zenon DEF Told
<1>5. crashes' = crashes
  <2>1. ~Crash /\ ~Boot
    BY <1>2, Zenon DEF Crash, Boot
  <2> QED BY <2>1, RunningStep, Zenon
<1>6. CASE job.failed = {}
  <2>1. UNCHANGED <<teardowns, recorded>>
    BY <1>2, <1>6, Zenon DEF Record
  <2>2. CASE v = w
    <3>1. "Persistence" \in done[w] /\ ~scratch[w]
      <4>1. Order[9] \in done[w] /\ ~scratch[w]
        BY <1>1, <1>2, <1>6, AllReleased
      <4> QED BY <4>1, Zenon DEF Order
    <3> QED BY <1>2, <1>3, <2>1, <2>2, <3>1, Zenon DEF FileOf
  <2>3. CASE v # w
    <3>1. Tracked(v)' = Tracked(v) /\ Late(v)' = Late(v)
      BY <1>2, <1>3, <1>4, <1>5, <2>1, <2>3, Zenon DEF Tracked, InJob, Late
    <3> QED BY <1>2, <1>3, <1>4, <2>1, <2>3, <3>1, FileKept, Zenon
  <2> QED BY <2>2, <2>3, Zenon
<1>7. CASE job.failed # {}
  <2>1. /\ teardowns' = teardowns \cup {w}
        /\ \/ PersistOk(Records(handles, teardowns \cup {w}))
           \/ PersistErr(Records(handles, teardowns \cup {w}))
    BY <1>2, <1>7, Zenon DEF Retain
  <2>2. v \in handles \cup (teardowns \cup {w}) => Tracked(v)'
    BY <1>2, <2>1, Zenon DEF Tracked
  <2>3. Tracked(v) => Tracked(v)'
    BY <1>3, <2>2, Zenon DEF Tracked, InJob
  <2>4. "Persistence" \notin done[w]
    BY <1>1, <1>2, <1>7, Zenon DEF Ledger, InJob
  <2>5. CASE v = w
    <3> HIDE <1>1
    <3>1. /\ recorded'[v].kept => Tracked(v)'
          /\ ~recorded'[v].kept => ~recorded[v].kept
      <4>1. v \in Kept(handles, teardowns \cup {w})
        BY <2>4, <2>5, ZenonT(30) DEF Kept
      <4> QED BY <2>1, <2>2, <2>5, <4>1, KeptRecords, Zenon
    <3> QED BY <1>2, <1>3, <1>4, <3>1, Zenon DEF FileOf
  <2>6. CASE v # w
    <3>1. Late(v)' = Late(v)
      BY <1>4, <1>5, <2>6, Zenon DEF Late
    <3> QED BY <1>2, <1>3, <1>4, <2>1, <2>2, <2>3, <2>6, <3>1, FileWritten, SMTT(30)
  <2> QED BY <2>5, <2>6, Zenon
<1> QED BY <1>6, <1>7, Zenon

\* A creation writes its workspace when it publishes the handle.
LEMMA FilesSetup ==
  ASSUME RawTypeOK, Control, Starts, Ledger, Files, Outcomes, RawNext, SetupStep
  PROVE  Files'
<1> SUFFICES ASSUME NEW v \in Ws PROVE FileOf(v)'
  BY Zenon DEF Files
<1>1. PICK w \in Ws : w = job.w
  BY SetupShape, Zenon
<1>2. /\ up /\ up' = up /\ job.kind = "setup" /\ UNCHANGED <<teardowns, done>>
      /\ \A u \in Ws \ {w} : scratch'[u] = scratch[u]
  BY <1>1, SetupShape, Zenon DEF setupFrame
<1>3. \/ job'.kind \in {"setup", "teardown"} /\ job'.w = w /\ UNCHANGED <<handles, progress>>
      \/ job'.kind = "idle" /\ handles' = handles \cup {w} /\ progress' = [progress EXCEPT ![w] = "open"]
  <2>1. \/ (\E stage : job' = Setup(w, stage)) /\ UNCHANGED <<handles, progress>>
        \/ job' = Rollback(w) /\ UNCHANGED <<handles, progress>>
        \/ job' = NoJob /\ handles' = handles \cup {w} /\ progress' = [progress EXCEPT ![w] = "open"]
    BY <1>1, SetupShape, Zenon
  <2>2. (\E stage : job' = Setup(w, stage)) => job'.kind = "setup" /\ job'.w = w
    BY SetupJob
  <2>3. job' = Rollback(w) => job'.kind = "teardown" /\ job'.w = w
    BY PassJob DEF Rollback
  <2>4. job' = NoJob => job'.kind = "idle"
    BY IdleJob
  <2> QED BY <2>1, <2>2, <2>3, <2>4, Zenon
<1>4. Tracked(w)' /\ (Tracked(v) => Tracked(v)') /\ (InJob(v)' => v = w) /\ (InJob(v) <=> v = w)
  BY <1>1, <1>2, <1>3, Zenon DEF Tracked, InJob
<1>5. /\ progress \in [Ws -> {"new", "starting", "open", "closed", "gone", "failed", "lost", "dead"}]
      /\ progress[w] = "starting" /\ done[w] = {} /\ FileOf(v)
  BY <1>1, <1>2, Zenon DEF RawTypeOK, PerWs, Control, Starts, Files
<1>6. crashes' = crashes
  <2>1. ~Crash /\ ~Boot
    BY <1>2, <1>3 DEF Crash, Boot
  <2> QED BY <2>1, RunningStep, Zenon
<1>7. CASE v = w
  <2>1. progress'[v] = "open" => recorded'[v].kept
    <3> SUFFICES ASSUME progress'[v] = "open" PROVE recorded'[v].kept
      BY Zenon
    <3>1. SetupPublish /\ progress' # progress
      BY <1>5, <1>7, Zenon DEF SetupStep, SetupDirs, SetupHolder, SetupFds, SetupVeth, SetupMount, SetupNet, SetupPublish
    <3>2. PersistOk(Records(handles \cup {w}, teardowns))
      BY <1>1, <3>1, Zenon DEF SetupPublish
    <3> QED BY <1>7, <3>2, KeptRecords DEF Kept
  <2>2. progress'[v] # "dead" /\ "Persistence" \notin done'[v]
    BY <1>2, <1>3, <1>5, <1>7, Zenon
  <2> QED BY <1>4, <1>7, <2>1, <2>2, Zenon DEF FileOf
<1>8. CASE v # w
  <2>1. /\ progress'[v] = progress[v] /\ scratch'[v] = scratch[v] /\ ~InJob(v) /\ ~InJob(v)'
    BY <1>2, <1>3, <1>4, <1>5, <1>8, Zenon
  <2>2. Late(v)' = Late(v)
    BY <1>6, <2>1, Zenon DEF Late
  <2>3. CASE recorded' = recorded
    BY <1>2, <1>4, <1>5, <2>1, <2>2, <2>3, FileKept, SMTT(20)
  <2>4. CASE SetupPublish
    <3>1. \/ PersistOk(Records(handles \cup {w}, teardowns))
          \/ PersistErr(Records(handles \cup {w}, teardowns))
      BY <1>1, <2>4, Zenon DEF SetupPublish
    <3>2. v \in (handles \cup {w}) \cup teardowns => Tracked(v)'
      BY <1>4, <1>8, Zenon DEF Tracked
    <3> QED BY <1>2, <1>4, <1>5, <2>1, <2>2, <3>1, <3>2, FileWritten
  <2> QED BY <2>3, <2>4, Zenon DEF SetupStep, SetupDirs, SetupHolder, SetupFds, SetupVeth, SetupMount, SetupNet
<1> QED BY <1>7, <1>8, Zenon

\* The calls do not write the file.
LEMMA FilesCalls ==
  ASSUME RawTypeOK, Control, Starts, Ledger, Files, Outcomes, RawNext, NEW w \in Ws,
         Create(w) \/ OpenRaw(w) \/ DestroyRaw(w) \/ Forget(w) \/ HolderDies(w) \/ RemountStep(w)
  PROVE  Files'
<1> SUFFICES ASSUME NEW v \in Ws PROVE FileOf(v)'
  BY Zenon DEF Files
<1>1. /\ up /\ up' = up /\ UNCHANGED <<handles, teardowns, done, scratch, recorded>>
      /\ \A u \in Ws \ {w} : progress'[u] = progress[u]
      /\ progress'[w] \in {"open", "dead"} => progress'[w] = progress[w]
      /\ \/ job' = job
         \/ job.kind = "idle" /\ job'.kind \in {"idle", "queue"}
         \/ job.kind = "idle" /\ job'.kind = "setup" /\ progress[w] = "starting" /\ job'.w = w
  <2>1. CASE RemountStep(w)
    BY <2>1, RemountShape, Zenon DEF remountFrame
  <2>2. CASE ~RemountStep(w)
    <3>1. progress \in [Ws -> {"new", "starting", "open", "closed", "gone", "failed", "lost", "dead"}]
      BY Zenon DEF RawTypeOK, PerWs
    <3>2. CASE Create(w)
      BY <3>1, <3>2, QueueKind, Zenon DEF Create, Free, memory, machine
    <3>3. CASE OpenRaw(w)
      <4>1. job' = Setup(w, "dirs") => job'.kind = "setup" /\ job'.w = w
        BY SetupJob
      <4> QED BY <3>1, <3>3, <4>1, Zenon DEF OpenRaw, Free, memory, machine
    <3>4. CASE DestroyRaw(w)
      BY <3>1, <3>4, QueueKind, Zenon DEF DestroyRaw, Free, memory, machine
    <3>5. CASE Forget(w)
      BY <3>1, <3>5, Zenon DEF Forget, Free, memory, machine
    <3>6. CASE HolderDies(w)
      BY <3>1, <3>6, Zenon DEF HolderDies, Free, memory, machine
    <3> QED BY <2>2, <3>2, <3>3, <3>4, <3>5, <3>6, Zenon
  <2> QED BY <2>1, <2>2, Zenon
<1>2. crashes' = crashes
  <2>1. ~Crash /\ ~Boot
    BY <1>1, Zenon DEF Crash, Boot
  <2> QED BY <2>1, RunningStep, Zenon
<1>3. FileOf(v) /\ (Tracked(v) => Tracked(v)')
  BY <1>1, Zenon DEF Files, Tracked
<1>4. InJob(v)' => InJob(v) \/ (v = w /\ ~InJob(v) /\ progress[w] = "starting")
  BY <1>1, Zenon DEF InJob
<1>5. InJob(v)' /\ "Persistence" \in done'[v] => InJob(v) /\ "Persistence" \in done[v]
  <2>1. progress[w] = "starting" /\ ~InJob(w) => done[w] = {}
    BY Zenon DEF Starts, Clean
  <2> QED BY <1>1, <1>4, <2>1, Zenon
<1>6. CASE progress'[v] = progress[v]
  <2>1. Late(v)' = Late(v)
    BY <1>2, <1>6, Zenon DEF Late
  <2> QED BY <1>1, <1>3, <1>5, <1>6, <2>1, FileKept, Zenon
<1>7. CASE progress'[v] # progress[v]
  <2>1. v = w /\ progress'[v] \notin {"open", "dead"}
    BY <1>1, <1>7, Zenon
  <2>2. progress[w] \in {"new", "starting"} \/ Over(w)
    <3>1. CASE RemountStep(w)
      BY <1>7, <2>1, <3>1, RemountShape, Zenon DEF remountFrame
    <3>2. CASE ~RemountStep(w)
      BY <1>7, <2>1, <3>2, Zenon DEF Create, OpenRaw, DestroyRaw, Forget, HolderDies, Over, Tracked, Free
    <3> QED BY <3>1, <3>2, Zenon
  <2>3. ~recorded[v].kept
    <3>1. CASE Over(w)
      BY <2>1, <3>1, Zenon DEF Outcomes, Gone
    <3>2. CASE progress[w] \in {"new", "starting"}
      <4>1. ~InJob(w)
        <5>1. CASE RemountStep(w)
          BY <1>7, <2>1, <5>1, RemountShape, Zenon DEF remountFrame
        <5>2. CASE ~RemountStep(w)
          BY <1>7, <2>1, <3>2, <5>2, Zenon DEF InJob, Create, OpenRaw, DestroyRaw, Forget, HolderDies, Free
        <5> QED BY <5>1, <5>2, Zenon
      <4> QED BY <2>1, <3>2, <4>1, Zenon DEF Starts
    <3> QED BY <2>2, <3>1, <3>2, Zenon
  <2> QED BY <1>1, <2>1, <2>3, Zenon DEF FileOf
<1> QED BY <1>6, <1>7, Zenon

\* The sweep writes what is owned, and the boot resets the file when it has
\* reaped everything.
LEMMA FilesWorld ==
  ASSUME RawTypeOK, Control, Starts, Ledger, Files, Outcomes, RawNext,
         Close \/ ReconcileRaw \/ ShutdownRaw \/ PersistSweep \/ Crash \/ Boot
  PROVE  Files'
<1> SUFFICES ASSUME NEW v \in Ws PROVE FileOf(v)'
  BY Zenon DEF Files
<1> USE DEF Free, memory, machine
<1>0. FileOf(v) /\ crashes \in Nat /\ scratch[v] \in BOOLEAN /\ recorded[v].kept \in BOOLEAN
  BY Bounds DEF Files, RawTypeOK, PerWs
<1>1. CASE Close
  <2>1. PICK w \in job.queue : /\ job' = Pass(w, job.why, job.queue \ {w})
                              /\ handles' = handles \ {w} /\ teardowns' = teardowns \ {w}
    BY <1>1, Zenon DEF Close
  <2>2. /\ up /\ up' = up /\ job'.kind = "teardown" /\ job'.w = w /\ job.kind = "queue"
        /\ UNCHANGED <<scratch, progress, crashes, done, recorded>>
    <3>0. PICK why, Q : job' = Pass(w, why, Q)
      BY <2>1, Zenon
    <3>1. job'.kind = "teardown" /\ job'.w = w
      BY <3>0, PassJob
    <3> QED BY <1>1, <3>1, Zenon DEF Close, budget
  <2>3. Tracked(v) => Tracked(v)'
    BY <2>1, <2>2, Zenon DEF Tracked
  <2>4. w \in handles \cup teardowns /\ w \in Ws
    BY <2>1, Zenon DEF Control, RawTypeOK
  <2>5. "Persistence" \notin done[w]
    BY <2>4, Zenon DEF Starts, Ledger
  <2>6. InJob(v)' => v = w
    BY <2>2, Zenon DEF InJob
  <2> QED BY <1>0, <2>2, <2>3, <2>5, <2>6, FileKept, Zenon DEF Late
<1>2. CASE ReconcileRaw \/ ShutdownRaw
  <2>1. /\ up /\ up' = up /\ job'.kind \in {"idle", "queue"} /\ job.kind = "idle"
        /\ UNCHANGED <<scratch, progress, crashes, handles, teardowns, recorded>>
    BY <1>2, QueueKind, Zenon DEF ReconcileRaw, ShutdownRaw, budget
  <2>2. Tracked(v)' = Tracked(v) /\ ~InJob(v)'
    BY <2>1, Zenon DEF Tracked, InJob
  <2> QED BY <1>0, <2>1, <2>2, FileKept, Zenon DEF Late
<1>3. CASE PersistSweep
  <2>1. /\ up /\ up' = up /\ job' = job /\ job.kind = "idle"
        /\ UNCHANGED <<scratch, progress, handles, teardowns>>
        /\ PersistOk(Records(handles, teardowns)) \/ PersistErr(Records(handles, teardowns))
    BY <1>3, Zenon DEF PersistSweep
  <2>2. Tracked(v)' = Tracked(v) /\ ~InJob(v)' /\ ~InJob(v)
    BY <2>1, Zenon DEF Tracked, InJob
  <2>3. crashes' = crashes
    BY <2>1, Zenon DEF PersistOk, PersistErr, Fault, NoFault, budget
  <2>4. Late(v)' = Late(v) /\ (v \in handles \cup teardowns => Tracked(v)')
    BY <2>1, <2>3, Zenon DEF Late, Tracked
  <2> QED BY <1>0, <2>1, <2>2, <2>4, FileWritten, Zenon
<1>4. CASE Crash
  <2>1. /\ up /\ ~up' /\ recorded'[v] = recorded[v] /\ scratch'[v] = scratch[v] /\ crashes' > 0 /\ job' = NoJob
        /\ progress'[v] = CASE progress[v] = "new" -> "new"
                            [] progress[v] \in {"open", "closed", "gone", "dead"} -> "dead"
                            [] OTHER -> "failed"
    BY <1>0, <1>4 DEF Crash
  <2>2. progress[v] = "new" => ~recorded[v].kept
    <3>1. InJob(v) => progress[v] # "new"
      BY Zenon DEF InJob, Control
    <3> QED BY <3>1, Zenon DEF Starts
  <2>3. progress[v] \in {"closed", "gone"} => ~scratch[v]
    BY Zenon DEF Outcomes, Over, Gone
  <2>4. ~InJob(v)' /\ progress'[v] # "open" /\ (progress[v] # "new" => Late(v)')
    BY <2>1, Zenon DEF InJob, NoJob, Late
  <2>5. progress'[v] = "dead" => progress[v] \in {"open", "closed", "gone", "dead"}
    BY <2>1, Zenon
  <2> QED BY <1>0, <2>1, <2>2, <2>3, <2>4, <2>5, Zenon DEF FileOf
<1>5. CASE Boot
  <2>1. /\ ~up /\ UNCHANGED <<progress, job, handles, teardowns>> /\ (scratch'[v] => scratch[v])
        /\ ~ReapFaults => scratch'[v] = (scratch[v] /\ ~recorded[v].kept)
        /\ \/ recorded' = recorded
           \/ PersistOk(Records({}, {})) \/ PersistErr(Records({}, {}))
    BY <1>5, Zenon DEF Boot
  <2>2. crashes' = crashes
    BY <1>5, Zenon DEF Boot, PersistOk, PersistErr, Fault, NoFault, budget
  <2>3. ~Tracked(v) /\ ~InJob(v)'
    BY <2>1, IdleJob, PassJob, SetupJob, Zenon DEF Tracked, Control, InJob
  <2>4. recorded'[v].kept => recorded[v].kept
    BY <2>1, KeptRecords DEF Kept
  <2>5. ~(progress[v] = "open" /\ scratch[v])
    BY <2>3, OpenTracked, Zenon
  <2> QED BY <1>0, <2>1, <2>2, <2>3, <2>4, <2>5, Zenon DEF FileOf, Late
<1> QED BY <1>1, <1>2, <1>3, <1>4, <1>5

\* Every step keeps manager.json right.
LEMMA FilesStep ==
  ASSUME RawTypeOK, Control, Starts, Ledger, Files, Outcomes, RawNext
  PROVE  Files'
BY FilesPass, FilesEnds, FilesSetup, FilesCalls, FilesWorld, Zenon DEF RawNext, PassStep, SetupStep, RemountStep

-----------------------------------------------------------------------------
(* Every lease of the registry has an owner. *)

\* A step that takes no lease.
LEMMA LeasedKept ==
  ASSUME Leased, leases' \subseteq leases, UNCHANGED <<lease, parked, rem, remounts>>
  PROVE  Leased'
BY Zenon DEF Leased, Owner, OneRemount

\* A creation owns the lease it takes.
LEMMA LeasedOpens ==
  ASSUME RawTypeOK, Control, Starts, Mounts, Leased, NEW w \in Ws, OpenRaw(w)
  PROVE  Leased'
<1>1. CASE UNCHANGED <<lease, leases>>
  BY <1>1, LeasedKept, Zenon DEF OpenRaw, remountVars
<1>2. CASE leases' = leases \cup {nextLease} /\ lease' = [lease EXCEPT ![w] = nextLease]
  <2>1. /\ UNCHANGED <<parked, rem, remounts>> /\ progress[w] = "starting" /\ job.kind = "idle"
    BY <1>2, Zenon DEF OpenRaw, remountVars, Free
  <2>2. lease[w] = 0 /\ rem[w] = NoRemount
    BY <2>1, Zenon DEF Starts, Clean, InJob, Control
  <2>3. lease \in [Ws -> 0 .. MaxLease] /\ 0 \notin leases
    BY Bounds DEF RawTypeOK, PerWs, Leases
  <2> SUFFICES ASSUME ~LeakyRelease /\ MaxRemounts <= 1
               PROVE  (\A l \in leases' : \E v \in Ws : Owner(l, v)') /\ (\A v \in Ws : OneRemount(v)')
    BY Zenon DEF Leased
  <2>4. ASSUME NEW l \in leases' PROVE \E v \in Ws : Owner(l, v)'
    <3>1. CASE l = nextLease
      BY <1>2, <2>3, <3>1, Zenon DEF Owner
    <3>2. CASE l # nextLease
      <4>1. PICK v \in Ws : Owner(l, v)
        BY <1>2, <3>2, Zenon DEF Leased
      <4>2. l # 0
        BY <1>2, <2>3, <3>2, Zenon
      <4> QED BY <1>2, <2>1, <2>2, <2>3, <4>1, <4>2, Zenon DEF Owner
    <3> QED BY <3>1, <3>2, Zenon
  <2>5. ASSUME NEW v \in Ws PROVE OneRemount(v)'
    <3>1. OneRemount(v) /\ lease[v] # nextLease
      BY NextUnheld, Zenon DEF Leased
    <3> QED BY <1>2, <2>1, <2>2, <2>3, <3>1 DEF OneRemount, NoRemount
  <2> QED BY <2>4, <2>5, Zenon
<1> QED BY <1>1, <1>2, Zenon DEF OpenRaw, leaseVars

\* A remount owns its replacement, and hands it over or releases it.
LEMMA LeasedRemount ==
  ASSUME RawTypeOK, Control, Starts, Mounts, Leased, NEW w \in Ws, RemountStep(w)
  PROVE  Leased'
<1> SUFFICES ASSUME ~LeakyRelease /\ MaxRemounts <= 1
             PROVE  (\A l \in leases' : \E v \in Ws : Owner(l, v)') /\ (\A v \in Ws : OneRemount(v)')
  BY Zenon DEF Leased
<1>1. /\ \A l \in leases : \E v \in Ws : Owner(l, v)
      /\ \A v \in Ws : OneRemount(v)
  BY Zenon DEF Leased
<1>2. \A v \in Ws \ {w} : lease'[v] = lease[v] /\ parked'[v] = parked[v] /\ rem'[v] = rem[v] /\ remounts'[v] = remounts[v]
  BY RemountShape, Zenon
<1>3. /\ lease \in [Ws -> 0 .. MaxLease] /\ parked \in [Ws -> 0 .. MaxLease] /\ rem \in [Ws -> Rems]
      /\ remounts \in [Ws -> 0 .. MaxRemounts] /\ 0 \notin leases /\ nextLease \in Nat \ {0}
      /\ MaxRemounts \in Nat
  <2>1. leases \subseteq 1 .. MaxLease /\ nextLease \in 1 .. MaxLease + 1 /\ MaxLease \in Nat /\ MaxRemounts \in Nat
    BY Bounds, Zenon DEF RawTypeOK, Leases
  <2>2. 0 \notin leases /\ nextLease \in Nat \ {0}
    BY <2>1
  <2> QED BY <2>1, <2>2, Zenon DEF RawTypeOK, PerWs, Rems
<1>4. rem[w] \in Rems /\ rem[w].repl \in 0 .. MaxLease
  BY <1>3, Zenon DEF Rems
<1>5. \A v \in Ws : lease[v] # nextLease
  BY NextUnheld, Zenon
<1>6. leases' \subseteq leases \cup {nextLease}
  BY ReleaseType, Zenon DEF RemountStep, RemountLease, RemountSkip, RemountSwitch, RemountReleaseOld, RemountApply, leaseVars
(* The other workspaces keep what they have. *)
<1>7. \A v \in Ws \ {w} : OneRemount(v)'
  BY <1>1, <1>2, <1>5, <1>6 DEF OneRemount
<1>8. ASSUME \A l \in leases' \ leases : Owner(l, w)',
             \A l \in leases \cap leases' : Owner(l, w) => Owner(l, w)'
      PROVE  \A l \in leases' : \E v \in Ws : Owner(l, v)'
  <2> SUFFICES ASSUME NEW l \in leases' PROVE \E v \in Ws : Owner(l, v)'
    BY Zenon
  <2>1. CASE l \notin leases
    BY <1>8, <2>1, Zenon
  <2>2. CASE l \in leases
    <3>1. PICK v \in Ws : Owner(l, v)
      BY <1>1, <2>2, Zenon
    <3>2. v # w => Owner(l, v)'
      BY <1>2, <3>1, Zenon DEF Owner
    <3> QED BY <1>8, <2>2, <3>1, <3>2, Zenon
  <2> QED BY <2>1, <2>2, Zenon
<1>9. SUFFICES /\ \A l \in leases' \ leases : Owner(l, w)'
               /\ \A l \in leases \cap leases' : Owner(l, w) => Owner(l, w)'
               /\ OneRemount(w)'
  BY <1>7, <1>8, Zenon
<1>10. CASE RemountLease(w)
  <2>1. /\ leases' = leases \cup {nextLease} /\ UNCHANGED <<lease, parked>> /\ rem[w] = NoRemount
        /\ remounts[w] < MaxRemounts /\ remounts' = [remounts EXCEPT ![w] = @ + 1]
        /\ rem' = [rem EXCEPT ![w] = [stage |-> "switch", repl |-> nextLease, effect |-> "none"]]
    BY <1>10, Zenon DEF RemountLease
  <2>2. rem[w].repl = 0 /\ rem'[w].repl = nextLease /\ rem'[w].stage = "switch"
    BY <1>3, <2>1 DEF NoRemount
  <2>3. remounts[w] = 0 /\ remounts'[w] = 1
    BY <1>3, <2>1
  <2>4. parked[w] = 0
    BY <1>1, <2>3, SMTT(20) DEF OneRemount
  <2> QED BY <1>3, <2>1, <2>2, <2>3, <2>4 DEF Owner, OneRemount
<1>11. CASE RemountSkip(w)
  <2>1. /\ leases' = leases \ {rem[w].repl} /\ UNCHANGED <<lease, parked, remounts>> /\ rem'[w] = NoRemount
    BY <1>3, <1>11, Zenon DEF RemountSkip, RemountRelease, Released
  <2> QED BY <1>1, <2>1 DEF Owner, OneRemount, NoRemount
<1>12. CASE RemountSwitch(w)
  <2>1. /\ UNCHANGED <<leases, lease, parked, remounts>> /\ rem[w].stage = "switch"
        /\ \E e \in {"switched", "pinned", "faulty"} :
             rem' = [rem EXCEPT ![w].stage = IF e = "switched" THEN "release" ELSE "apply", ![w].effect = e]
    BY <1>12, Zenon DEF RemountSwitch, leaseVars
  <2>2. /\ rem'[w].repl = rem[w].repl
        /\ rem'[w].stage # "apply" \/ rem'[w].effect # "switched"
    BY <1>3, <1>4, <2>1 DEF Rems
  <2>3. rem[w] # NoRemount
    BY <2>1 DEF NoRemount
  <2> QED BY <1>1, <2>1, <2>2, <2>3, Zenon DEF Owner, OneRemount
<1>13. CASE RemountReleaseOld(w)
  <2>1. /\ leases' = leases \ {lease[w]} /\ UNCHANGED <<lease, parked, remounts>> /\ rem[w].stage = "release"
        /\ rem'[w].repl = rem[w].repl
    BY <1>3, <1>4, <1>13, Zenon DEF RemountReleaseOld, RemountRelease, Released, Rems
  <2>2. rem[w] # NoRemount
    BY <2>1 DEF NoRemount
  <2> QED BY <1>1, <2>1, <2>2, Zenon DEF Owner, OneRemount
<1>14. CASE RemountApply(w)
  <2>1. /\ UNCHANGED <<leases, remounts>> /\ rem[w].stage = "apply" /\ rem'[w] = NoRemount
        /\ lease'[w] = IF rem[w].effect = "faulty" THEN lease[w] ELSE rem[w].repl
        /\ parked'[w] = Parks(w)
    BY <1>3, <1>14, Zenon DEF RemountApply, leaseVars
  <2>2. rem[w] # NoRemount /\ parked[w] = 0 /\ remounts[w] >= 1
    <3>1. rem[w] # NoRemount
      BY <2>1 DEF NoRemount
    <3> QED BY <1>1, <3>1, Zenon DEF OneRemount
  <2>3. rem[w].effect \in {"switched", "pinned", "faulty"}
    BY <1>4, <2>1, Zenon DEF Mounts, Switching, Rems
  <2>4. rem[w].effect = "switched" => lease[w] \notin leases
    BY <1>1, <2>1, Zenon DEF OneRemount
  <2>5. OneRemount(w)'
    BY <2>1, <2>2 DEF OneRemount, NoRemount
  <2>6. ASSUME NEW l \in leases, Owner(l, w) PROVE Owner(l, w)'
    BY <1>3, <2>1, <2>2, <2>3, <2>4, <2>6, SMTT(20) DEF Owner, Parks
  <2> QED BY <2>1, <2>5, <2>6, Zenon
<1> QED BY <1>10, <1>11, <1>12, <1>13, <1>14, Zenon DEF RemountStep

\* Every step keeps the leases owned.
LEMMA LeasedStep ==
  ASSUME RawTypeOK, Control, Starts, Mounts, Leased, RawNext
  PROVE  Leased'
<1> USE DEF memory, remountVars, leaseVars, machine
<1>1. CASE PassStep
  BY <1>1, PassShape, PassFrame, LeasedKept, Zenon DEF outside
<1>2. CASE SetupStep
  BY <1>2, SetupShape, LeasedKept, Zenon DEF setupFrame
<1>3. CASE TeardownEnds \/ Close \/ ReconcileRaw \/ ShutdownRaw \/ PersistSweep \/ Boot
  <2>1. UNCHANGED <<lease, parked, rem, remounts, leases>>
    BY <1>3, Zenon DEF TeardownEnds, Close, ReconcileRaw, ShutdownRaw, PersistSweep, Boot
  <2> QED BY <2>1, LeasedKept, Zenon
<1>4. CASE Crash
  <2>1. leases' = {} /\ \A v \in Ws : parked'[v] = 0 /\ rem'[v] = NoRemount
    BY <1>4, Zenon DEF Crash
  <2> QED BY <2>1, Zenon DEF Leased, OneRemount, NoRemount
<1>5. ASSUME NEW w \in Ws, Create(w) \/ DestroyRaw(w) \/ Forget(w) \/ HolderDies(w) PROVE Leased'
  <2>1. UNCHANGED <<lease, parked, rem, remounts, leases>>
    BY <1>5, Zenon DEF Create, DestroyRaw, Forget, HolderDies
  <2> QED BY <2>1, LeasedKept, Zenon
<1> QED BY <1>1, <1>2, <1>3, <1>4, <1>5, LeasedOpens, LeasedRemount, SMTT(30) DEF RawNext, PassStep, SetupStep, RemountStep

-----------------------------------------------------------------------------
(* After the shutdown nothing starts. *)

\* Nothing starts after the shutdown.
LEMMA StoppedStep ==
  ASSUME RawTypeOK, Control, Stopped, RawNext
  PROVE  Stopped'
<1> USE DEF memory, remountVars, leaseVars, machine
<1>T. holder \in [Ws -> BOOLEAN]
  BY Zenon DEF RawTypeOK, PerWs
<1>1. CASE PassStep
  BY <1>1, PassShape, PassFrame, Zenon DEF outside, Stopped
<1>2. CASE SetupStep
  <2>1. job.kind = "setup" /\ svc' = svc
    BY <1>2, SetupShape, Zenon DEF setupFrame
  <2> QED BY <2>1, EmptyQueue, QueueJob, PassJob, IdleJob, Zenon DEF Control, Stopped
<1>3. CASE TeardownEnds \/ ShutdownRaw
  <2>1. Stop \/ svc' = "closing" \/ UNCHANGED <<svc, holder>>
    BY <1>3, Zenon DEF TeardownEnds, ShutdownRaw
  <2> QED BY <2>1, Zenon DEF Stop, Stopped
<1>4. CASE Close \/ ReconcileRaw \/ PersistSweep \/ Boot
  <2>1. UNCHANGED <<svc, holder>>
    BY <1>4, Zenon DEF Close, ReconcileRaw, PersistSweep, Boot
  <2> QED BY <2>1, Zenon DEF Stopped
<1>5. CASE Crash
  BY <1>5, Zenon DEF Crash, Stopped
<1>6. ASSUME NEW w \in Ws, Create(w) \/ OpenRaw(w) \/ DestroyRaw(w) \/ Forget(w) \/ HolderDies(w) PROVE Stopped'
  <2>1. svc' = svc /\ \A v \in Ws : holder'[v] => holder[v]
    BY <1>T, <1>6, Zenon DEF Create, OpenRaw, DestroyRaw, Forget, HolderDies
  <2> QED BY <2>1, Zenon DEF Stopped
<1>7. ASSUME NEW w \in Ws, RemountStep(w) PROVE Stopped'
  BY <1>7, RemountShape, Zenon DEF remountFrame, Stopped
<1> QED BY <1>1, <1>2, <1>3, <1>4, <1>5, <1>6, <1>7, SMTT(30) DEF RawNext, PassStep, SetupStep, RemountStep

-----------------------------------------------------------------------------
(* The theorems *)

\* The invariant holds at first.
LEMMA IInvInit == RawInit => IInv
<1> SUFFICES ASSUME RawInit PROVE IInv
  BY Zenon
<1>1. MInv
  BY MInvInit, Zenon
<1> USE DEF RawInit
<1>2. Pool
  BY Zenon DEF Pool, DistinctAddresses
<1>3. ResourcesTracked
  BY Zenon DEF ResourcesTracked
<1>4. Files
  BY Zenon DEF Files, FileOf, NoRecord, InJob, NoJob
<1>5. ScratchFound
  BY Zenon DEF ScratchFound, ScratchTracked
<1>6. Outcomes
  BY DEF Outcomes, Over, Untold, Once
<1>7. Leased
  BY Zenon DEF Leased, OneRemount, NoRemount
<1>8. Stopped
  BY Zenon DEF Stopped
<1> QED BY <1>1, <1>2, <1>3, <1>4, <1>5, <1>6, <1>7, <1>8, SMTT(30) DEF IInv, MInv

\* Every step keeps it.
LEMMA IInvStep == IInv /\ [RawNext]_rawVars => IInv'
<1> SUFFICES ASSUME IInv, [RawNext]_rawVars PROVE IInv'
  BY Zenon
<1>0. MInv /\ MInv'
  BY MInvStep, Zenon DEF IInv, MInv
<1>1. CASE RawNext
  <2> USE <1>0, <1>1 DEF MInv, IInv
  <2>1. Pool' /\ ResourcesTracked'
    BY PoolStep, ResourcesStep, Zenon
  <2>2. Files' /\ ScratchFound' /\ Outcomes'
    BY FilesStep, ScratchStep, OutcomesStep, Zenon
  <2>3. Leased' /\ Stopped'
    BY LeasedStep, StoppedStep, Zenon
  <2> QED BY <2>1, <2>2, <2>3, Zenon
<1>2. CASE UNCHANGED rawVars
  <2> USE <1>2 DEF rawVars, memory, remountVars, leaseVars, machine, budget, Tracked
  <2>0. /\ Pool /\ ResourcesTracked /\ Files /\ ScratchFound /\ Outcomes /\ Leased /\ Stopped
    BY Zenon DEF IInv
  <2>1. Pool' /\ ResourcesTracked'
    BY <2>0, Zenon DEF Pool, DistinctAddresses, ResourcesTracked
  <2>2. Files' /\ ScratchFound'
    BY <2>0, ZenonT(30) DEF Files, FileOf, InJob, Late, ScratchFound, ScratchTracked
  <2>3. Outcomes'
    BY <2>0 DEF Outcomes, Over, Untold, Once, Has, Gone
  <2>4. Leased' /\ Stopped'
    BY <2>0, Zenon DEF Leased, Owner, OneRemount, Stopped
  <2> QED BY <1>0, <2>1, <2>2, <2>3, <2>4, SMTT(30) DEF IInv, MInv
<1> QED BY <1>1, <1>2, Zenon

\* The inductive invariant holds throughout.
THEOREM OutcomesInvariant == RawSpec => []IInv
BY IInvInit, IInvStep, PTL DEF RawSpec

\* Whatever fails and wherever the daemon dies, the holder, fds, address and
\* leases of a workspace have an owner that will release them, no address is
\* given out twice, and a destroy that reported success has released
\* everything (run_teardown_transaction, fail_after_partial_create,
\* destroy_workspace).
THEOREM NothingWithoutOwner == RawSpec => [](ResourcesTracked /\ DistinctAddresses /\ ClosedMeansGone)
<1>1. IInv => ResourcesTracked /\ DistinctAddresses
  BY Zenon DEF IInv, Pool
<1>2. IInv => ClosedMeansGone
  BY Zenon DEF IInv, Outcomes, Over, Gone, ClosedMeansGone
<1> QED BY <1>1, <1>2, OutcomesInvariant, PTL

\* With the invariant a completed shutdown leaves nothing behind.
LEMMA ShutdownIsClean ==
  ASSUME ~LeakyRelease, MaxRemounts <= 1, ~ReapFaults, IInv
  PROVE  ShutdownLeavesNothing
<1> SUFFICES ASSUME svc = "done"
             PROVE  /\ leases = {} /\ pool = {}
                    /\ \A w \in Ws : ~holder[w] /\ ~fds[w]
                    /\ \A w \in Ws : recorded[w].kept => progress[w] \in {"dead", "failed"} /\ crashes > 0
                    /\ \A w \in Ws : scratch[w] => progress[w] = "failed" /\ crashes > 0
  BY Zenon DEF ShutdownLeavesNothing
<1> USE DEF IInv
<1>1. up /\ job = NoJob /\ handles = {} /\ teardowns = {}
  BY Zenon DEF Control, RawTypeOK
<1>2. \A w \in Ws : ~Tracked(w) /\ rem[w] = NoRemount
  BY <1>1, IdleJob, Zenon DEF Tracked, Control
<1>3. leases = {}
  <2> SUFFICES ASSUME NEW l \in leases PROVE FALSE
    BY Zenon
  <2>1. PICK w \in Ws : Owner(l, w)
    BY Zenon DEF Leased
  <2>2. l # 0
    BY Bounds DEF RawTypeOK, Leases
  <2>3. lease[w] \notin leases /\ parked[w] \notin leases
    BY <1>2, Zenon DEF ResourcesTracked
  <2> QED BY <1>2, <2>1, <2>2, <2>3 DEF Owner, NoRemount
<1>4. pool = {}
  <2> SUFFICES ASSUME NEW a \in pool PROVE FALSE
    BY Zenon
  <2>1. PICK w \in Ws : ip[w] = a
    BY Zenon DEF Pool
  <2>2. a # 0
    BY Bounds DEF RawTypeOK
  <2> QED BY <1>2, <2>1, <2>2, Zenon DEF ResourcesTracked
<1>5. \A w \in Ws : ~holder[w] /\ ~fds[w]
  BY <1>2, Zenon DEF Stopped, ResourcesTracked
<1>6. \A w \in Ws : recorded[w].kept => progress[w] \in {"dead", "failed"} /\ crashes > 0
  BY <1>2, Zenon DEF Files, FileOf, Late
<1>7. \A w \in Ws : scratch[w] => progress[w] = "failed" /\ crashes > 0
  BY <1>1, <1>2, ScratchUp, Zenon
<1> QED BY <1>3, <1>4, <1>5, <1>6, <1>7, Zenon

\* Everything a workspace holds has one owner, run directories and leases
\* included, for any number of workspaces, where the storage releases a lease
\* or reports that it has not, a workspace is remounted once, and the boot
\* can remove what it finds (persist_handles, apply_switch,
\* BridgeAddressPool).
THEOREM WorkspacesAreOwned ==
  ASSUME ~LeakyRelease, MaxRemounts <= 1, ~ReapFaults
  PROVE  RawSpec => []Owned
<1>1. IInv => Owned
  <2> SUFFICES ASSUME IInv PROVE Owned
    BY Zenon
  <2>1. LeasesOwned
    BY Zenon DEF IInv, Leased, Owner, LeasesOwned
  <2> QED BY <2>1, Zenon DEF IInv, Owned, Pool, ScratchFound
<1> QED BY <1>1, OutcomesInvariant, PTL
=============================================================================
