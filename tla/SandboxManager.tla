--------------------------- MODULE SandboxManager ---------------------------
(***************************************************************************)
(* The host side of a sandbox's life: the manager's registry with its      *)
(* snapshot file, the create, destroy and forward operations that request  *)
(* threads run against it, the Docker objects they make and remove, the    *)
(* resource sampler, and the restart of the gateway, which loads the       *)
(* snapshot and reconciles it with the containers Docker still lists.      *)
(*                                                                         *)
(* A sandbox is known by the id minted for it (a fresh uuid: an id is used *)
(* once).  Every Docker call and every snapshot write may fail; a Docker   *)
(* call may also take effect and still be reported as failed.              *)
(***************************************************************************)
EXTENDS Naturals, Sequences, FiniteSets
LOCAL INSTANCE Functions

CONSTANTS Sandboxes,          \* ids the runtime may mint
          Requests,           \* request threads of the gateway
          NoSandbox, NoRequest,
          MaxBatch,           \* largest count of one create_sandbox
          MaxFaults,          \* bound: failed runtime calls, failed snapshot
                              \* writes and deaths of the gateway together
          MaxRevision         \* bound: mutations forwarded to one sandbox

ASSUME ManagerAssumption ==
    /\ NoSandbox \notin Sandboxes /\ NoRequest \notin Requests
    /\ MaxBatch \in Nat \ {0}
    /\ MaxFaults \in Nat /\ MaxRevision \in Nat

VARIABLES
    registry,       \* SandboxStore.records
    snapshot,       \* the records of the registry file
    minted,         \* ids a container name was generated for
    container,      \* Docker: the container of each id
    volumes,        \* Docker: the per-sandbox volumes of each id
    base,           \* Docker: the shared base volume
    baseCached,     \* SEEDED_SHARED_BASE_VOLUMES contains it
    baseLock,       \* holder of that set's mutex
    rings,          \* ids with a resource ring file
    strayRings,     \* ids whose ring file could not be removed
    sampler,        \* ids the sampler has read metrics for and not appended
    gateway,        \* the gateway process is up
    reconciled,     \* its registry has been reconciled with Docker
    doing,          \* request -> where it is in its operation
    target,         \* request -> the sandbox it works on
    left,           \* request -> sandboxes its batch has still to create
    batch,          \* request -> sandboxes its batch has created
    undo,           \* request -> sandboxes it has still to roll back
    read,           \* request -> the state destroy_sandbox inspected
    answered,       \* ids whose destroy_sandbox returned Ok
    acknowledged,   \* id -> mutations its daemon answered as done
    suspect,        \* ids one of whose runtime calls failed or was cut off
    faults

storeVars == <<registry, snapshot>>
dockerVars == <<minted, container, volumes, suspect>>
baseVars == <<base, baseCached, baseLock>>
sampleVars == <<rings, strayRings, sampler>>
taskVars == <<doing, target, left, batch, undo, read>>
ghostVars == <<answered, acknowledged, reconciled>>
managerVars == <<storeVars, dockerVars, baseVars, sampleVars, gateway,
                 taskVars, ghostVars, faults>>

Volumes == {"layers", "scratch"}
States == {"creating", "ready", "stopping", "stopped", "failed"}
Absent == [state |-> "absent", endpoint |-> FALSE, revision |-> 0]
Records == [state : States, endpoint : BOOLEAN, revision : 0..MaxRevision]
Steps == {"idle", "base", "fill", "container", "seed", "record", "install",
          "start", "check", "endpoints", "ready",
          "undo_stop", "undo_remove", "undo_forget",
          "claim", "stop", "remove", "stopped", "forget", "unring",
          "invoke", "count"}

ManagerTypeOK ==
    /\ registry \in [Sandboxes -> Records \cup {Absent}]
    /\ snapshot \in [Sandboxes -> Records \cup {Absent}]
    /\ minted \subseteq Sandboxes
    /\ container \in [Sandboxes -> {"absent", "created", "running", "exited"}]
    /\ volumes \in [Sandboxes -> SUBSET Volumes]
    /\ base \in {"absent", "empty", "seeded"}
    /\ baseCached \in BOOLEAN
    /\ baseLock \in Requests \cup {NoRequest}
    /\ rings \subseteq Sandboxes /\ strayRings \subseteq Sandboxes /\ sampler \subseteq Sandboxes
    /\ gateway \in BOOLEAN /\ reconciled \in BOOLEAN
    /\ doing \in [Requests -> Steps]
    /\ target \in [Requests -> Sandboxes \cup {NoSandbox}]
    /\ left \in [Requests -> 0..MaxBatch]
    /\ batch \in [Requests -> Seq(Sandboxes)]
    /\ undo \in [Requests -> Seq(Sandboxes)]
    /\ read \in [Requests -> States \cup {"absent"}]
    /\ answered \subseteq Sandboxes /\ suspect \subseteq Sandboxes
    /\ acknowledged \in [Sandboxes -> 0..MaxRevision]
    /\ faults \in 0..MaxFaults

ManagerInit ==
    /\ registry = [s \in Sandboxes |-> Absent]
    /\ snapshot = registry
    /\ minted = {}
    /\ container = [s \in Sandboxes |-> "absent"]
    /\ volumes = [s \in Sandboxes |-> {}]
    /\ base = "absent" /\ baseCached = FALSE /\ baseLock = NoRequest
    /\ rings = {} /\ strayRings = {} /\ sampler = {}
    /\ gateway = TRUE /\ reconciled = TRUE
    /\ doing = [r \in Requests |-> "idle"]
    /\ target = [r \in Requests |-> NoSandbox]
    /\ left = [r \in Requests |-> 0]
    /\ batch = [r \in Requests |-> <<>>]
    /\ undo = [r \in Requests |-> <<>>]
    /\ read = [r \in Requests |-> "absent"]
    /\ answered = {} /\ suspect = {}
    /\ acknowledged = [s \in Sandboxes |-> 0]
    /\ faults = 0

-----------------------------------------------------------------------------
(* The store.  Every mutation changes the map under its mutex and then      *)
(* rewrites the snapshot: an error of the write is returned to the caller   *)
(* with the map already changed.                                            *)

Known(s) == registry[s] # Absent

Persist(new, ok) ==
    /\ registry' = new
    /\ snapshot' = IF ok THEN new ELSE snapshot

SetState(s, state, ok) ==
    Persist([registry EXCEPT ![s].state = state], ok)

Forget(s, ok) == Persist([registry EXCEPT ![s] = Absent], ok)

(* Runtime calls.  A failed call leaves the sandbox's Docker objects in one *)
(* of the states the calls it is made of can leave behind.                  *)

Called(s, ok) == suspect' = IF ok THEN suspect ELSE suspect \cup {s}

Objects(s, c, v) ==
    /\ container' = [container EXCEPT ![s] = c]
    /\ volumes' = [volumes EXCEPT ![s] = v]
    /\ UNCHANGED minted

\* destroy_sandbox of the Docker runtime: the container, then each volume.
\* A missing object is no error; the first error ends the call.
Destroyed(s, ok) ==
    /\ Called(s, ok)
    /\ \/ ok /\ Objects(s, "absent", {})
       \/ ~ok /\ \E c \in {container[s], "absent"} : Objects(s, c, volumes[s])
       \/ ~ok /\ \E v \in {volumes[s] \ {"layers"}, {}} : Objects(s, "absent", v)

Stopped(s, ok) ==
    /\ \E c \in {container[s]}
                \cup (IF container[s] = "running" THEN {"exited"} ELSE {}) :
          /\ ok => c # "running"
          /\ Objects(s, c, volumes[s])
    /\ Called(s, ok)

\* The faults of one step, by the outcomes of its calls.
Faults(outcomes) ==
    LET n == Cardinality({i \in DOMAIN outcomes : ~outcomes[i]})
    IN  faults + n <= MaxFaults /\ faults' = faults + n

-----------------------------------------------------------------------------
(* Where a request stands. *)

Goto(r, step) == doing' = [doing EXCEPT ![r] = step]

Answer(r) ==
    /\ Goto(r, "idle")
    /\ target' = [target EXCEPT ![r] = NoSandbox]
    /\ left' = [left EXCEPT ![r] = 0]
    /\ batch' = [batch EXCEPT ![r] = <<>>]
    /\ undo' = [undo EXCEPT ![r] = <<>>]
    /\ read' = [read EXCEPT ![r] = "absent"]

Continue(r, step) ==
    Goto(r, step) /\ UNCHANGED <<target, left, batch, undo, read>>

Reversed(seq) == [i \in 1..Len(seq) |-> seq[Len(seq) + 1 - i]]

\* create_one failed: the sandboxes `own` of the failing creation, then the
\* batch in reverse order, are rolled back.
Unwind(r, own) ==
    LET ids == own \o Reversed(batch[r])
    IN  IF ids = <<>>
        THEN Answer(r)
        ELSE /\ Goto(r, "undo_stop")
             /\ undo' = [undo EXCEPT ![r] = ids]
             /\ batch' = [batch EXCEPT ![r] = <<>>]
             /\ UNCHANGED <<target, left, read>>

-----------------------------------------------------------------------------
(* create_sandbox *)

\* Bound: a batch starts only while there are ids left for all of it.
Outstanding == SumFunction(left)

CreateSandbox(r) ==
    /\ gateway /\ doing[r] = "idle"
    /\ \E count \in 1..MaxBatch :
          /\ count + Outstanding <= Cardinality(Sandboxes \ minted)
          /\ left' = [left EXCEPT ![r] = count]
    /\ Goto(r, "base")
    /\ UNCHANGED <<storeVars, dockerVars, baseVars, sampleVars, gateway,
                   target, batch, undo, read, ghostVars, faults>>

\* ensure_shared_base_volume: the cache answers first, then Docker; a volume
\* Docker knows of is taken to be seeded.  A missing one is created and
\* filled with the mutex held.
EnsureBase(r) ==
    /\ doing[r] = "base" /\ baseLock = NoRequest
    /\ \/ /\ baseCached \/ base # "absent"
          /\ baseCached' = TRUE
          /\ Continue(r, "container")
          /\ UNCHANGED <<base, baseLock, faults>>
       \/ /\ ~baseCached /\ base = "absent"
          /\ base' = "empty" /\ baseLock' = r
          /\ Continue(r, "fill")
          /\ UNCHANGED <<baseCached, faults>>
       \/ /\ ~baseCached
          /\ Unwind(r, <<>>)
          /\ Faults(<<FALSE>>) /\ UNCHANGED baseVars
    /\ UNCHANGED <<storeVars, dockerVars, sampleVars, gateway, ghostVars>>

\* seed_volume_from_archive past the volume's creation: on failure the volume
\* is removed, best effort.
FillBase(r) ==
    /\ doing[r] = "fill"
    /\ baseLock' = NoRequest
    /\ \/ /\ base' = "seeded" /\ baseCached' = TRUE
          /\ Continue(r, "container") /\ UNCHANGED faults
       \/ /\ base' \in {"absent", "empty"}
          /\ Unwind(r, <<>>)
          /\ Faults(<<FALSE>>) /\ UNCHANGED baseCached
    /\ UNCHANGED <<storeVars, dockerVars, sampleVars, gateway, ghostVars>>

\* The runtime mints an id, then creates the two volumes and the container.
\* A failure leaves the volumes that were made and not removed again.
CreateContainer(r) ==
    /\ doing[r] = "container"
    /\ \E s \in Sandboxes \ minted, ok \in BOOLEAN :
          /\ minted' = minted \cup {s}
          /\ container' = [container EXCEPT ![s] = IF ok THEN "created" ELSE @]
          /\ \E v \in IF ok THEN {Volumes} ELSE SUBSET Volumes :
                volumes' = [volumes EXCEPT ![s] = v]
          /\ IF ok THEN /\ Goto(r, "seed")
                        /\ target' = [target EXCEPT ![r] = s]
                        /\ UNCHANGED <<left, batch, undo, read>>
                   ELSE Unwind(r, <<>>)
          /\ Called(s, ok) /\ Faults(<<ok>>)
    /\ UNCHANGED <<storeVars, baseVars, sampleVars, gateway, ghostVars>>

\* The seed archive is uploaded; on failure container and volumes are removed,
\* each best effort, and nothing is recorded.
SeedLayerStack(r) ==
    /\ doing[r] = "seed"
    /\ \/ /\ Continue(r, "record") /\ UNCHANGED <<dockerVars, faults>>
       \/ /\ \E c \in {"created", "absent"}, v \in SUBSET Volumes :
                Objects(target[r], c, v)
          /\ Unwind(r, <<>>)
          /\ Called(target[r], FALSE) /\ Faults(<<FALSE>>)
    /\ UNCHANGED <<storeVars, baseVars, sampleVars, gateway, ghostVars>>

\* create_with_shared_base_and_profile.  When the snapshot write fails the
\* runtime objects are destroyed, best effort, and the record stays in the map.
RecordSandbox(r) ==
    LET s == target[r]
        new == [registry EXCEPT ![s] = [Absent EXCEPT !.state = "creating"]]
    IN  /\ doing[r] = "record"
        /\ \/ /\ Persist(new, TRUE)
              /\ Continue(r, "install")
              /\ UNCHANGED <<dockerVars, faults>>
           \/ /\ Persist(new, FALSE)
              /\ \E ok \in BOOLEAN : Destroyed(s, ok) /\ Faults(<<FALSE, ok>>)
              /\ Unwind(r, <<>>)
        /\ UNCHANGED <<baseVars, sampleVars, gateway, ghostVars>>

\* provision_daemon: the steps against Docker and the new daemon.
Provision(r, step, next, after) ==
    LET s == target[r]
    IN  /\ doing[r] = step
        /\ \E ok \in BOOLEAN :
              /\ \E c \in {after} \cup (IF ok THEN {} ELSE {container[s]}) :
                    Objects(s, c, volumes[s])
              /\ IF ok THEN Continue(r, next) ELSE Unwind(r, <<s>>)
              /\ Called(s, ok) /\ Faults(<<ok>>)
        /\ UNCHANGED <<storeVars, baseVars, sampleVars, gateway, ghostVars>>

InstallDaemon(r) == Provision(r, "install", "start", container[target[r]])

StartDaemon(r) == Provision(r, "start", "check", "running")

\* The readiness poll: an authenticated exchange with a live daemon; or an
\* exited container, a fatal log line or the deadline.
CheckDaemon(r) ==
    LET s == target[r]
    IN  /\ doing[r] = "check"
        /\ IF container[s] = "running"
           THEN \E ok \in BOOLEAN :
                   /\ IF ok THEN Continue(r, "endpoints") ELSE Unwind(r, <<s>>)
                   /\ Called(s, ok) /\ Faults(<<ok>>)
           ELSE Unwind(r, <<s>>) /\ UNCHANGED <<suspect, faults>>
        /\ UNCHANGED <<storeVars, minted, container, volumes, baseVars,
                       sampleVars, gateway, ghostVars>>

UpdateEndpoints(r) ==
    LET s == target[r]
    IN  /\ doing[r] = "endpoints"
        /\ \E ok \in BOOLEAN :
              /\ Persist([registry EXCEPT ![s].endpoint = TRUE], ok)
              /\ IF ok THEN Continue(r, "ready") ELSE Unwind(r, <<s>>)
              /\ Faults(<<ok>>)
        /\ UNCHANGED <<dockerVars, baseVars, sampleVars, gateway, ghostVars>>

\* The batch goes on with its next sandbox, or is complete.
NextOfBatch(r) ==
    IF left[r] = 1
    THEN Answer(r)
    ELSE /\ left' = [left EXCEPT ![r] = @ - 1]
         /\ batch' = [batch EXCEPT ![r] = Append(@, target[r])]
         /\ target' = [target EXCEPT ![r] = NoSandbox]
         /\ Goto(r, "base")
         /\ UNCHANGED <<undo, read>>

\* transition_state(Creating, Ready)
MarkReady(r) ==
    LET s == target[r]
    IN  /\ doing[r] = "ready"
        /\ \E ok \in BOOLEAN :
              /\ SetState(s, "ready", ok)
              /\ IF ok THEN NextOfBatch(r) ELSE Unwind(r, <<s>>)
              /\ Faults(<<ok>>)
        /\ UNCHANGED <<dockerVars, baseVars, sampleVars, gateway, ghostVars>>

-----------------------------------------------------------------------------
(* rollback: every step is best effort, and the record goes in any case. *)

RollbackStop(r) ==
    /\ doing[r] = "undo_stop"
    /\ \E ok \in BOOLEAN : Stopped(Head(undo[r]), ok) /\ Faults(<<ok>>)
    /\ Continue(r, "undo_remove")
    /\ UNCHANGED <<storeVars, baseVars, sampleVars, gateway, ghostVars>>

RollbackRemove(r) ==
    /\ doing[r] = "undo_remove"
    /\ \E ok \in BOOLEAN : Destroyed(Head(undo[r]), ok) /\ Faults(<<ok>>)
    /\ Continue(r, "undo_forget")
    /\ UNCHANGED <<storeVars, baseVars, sampleVars, gateway, ghostVars>>

RollbackForget(r) ==
    LET s == Head(undo[r])
    IN  /\ doing[r] = "undo_forget"
        /\ IF Known(s)
           THEN \E ok \in BOOLEAN : Forget(s, ok) /\ Faults(<<ok>>)
           ELSE UNCHANGED <<storeVars, faults>>
        /\ IF Len(undo[r]) = 1
           THEN Answer(r)
           ELSE /\ Goto(r, "undo_stop")
                /\ undo' = [undo EXCEPT ![r] = Tail(@)]
                /\ UNCHANGED <<target, left, batch, read>>
        /\ UNCHANGED <<dockerVars, baseVars, sampleVars, gateway, ghostVars>>

-----------------------------------------------------------------------------
(* destroy_sandbox: inspect, then compare-and-set the state inspected. *)

DestroySandbox(r) ==
    /\ gateway /\ doing[r] = "idle"
    /\ \E s \in Sandboxes :
          /\ registry[s].state \in {"ready", "stopped", "failed"}
          /\ target' = [target EXCEPT ![r] = s]
          /\ read' = [read EXCEPT ![r] = registry[s].state]
    /\ Goto(r, "claim")
    /\ UNCHANGED <<storeVars, dockerVars, baseVars, sampleVars, gateway,
                   left, batch, undo, ghostVars, faults>>

ClaimStopping(r) ==
    LET s == target[r]
        claimed == IF registry[s].endpoint THEN "stop" ELSE "remove"
    IN  /\ doing[r] = "claim"
        /\ IF registry[s].state = read[r]
           THEN \E ok \in BOOLEAN :
                   /\ SetState(s, "stopping", ok)
                   /\ IF ok THEN Continue(r, claimed) ELSE Answer(r)
                   /\ Faults(<<ok>>)
           ELSE Answer(r) /\ UNCHANGED <<storeVars, faults>>
        /\ UNCHANGED <<dockerVars, baseVars, sampleVars, gateway, ghostVars>>

\* An error of stop_daemon is returned at once: the record stays `stopping`.
StopDaemon(r) ==
    /\ doing[r] = "stop"
    /\ \E ok \in BOOLEAN :
          /\ Stopped(target[r], ok) /\ Faults(<<ok>>)
          /\ IF ok THEN Continue(r, "remove") ELSE Answer(r)
    /\ UNCHANGED <<storeVars, baseVars, sampleVars, gateway, ghostVars>>

\* On failure the state is set to `failed`, the outcome of that ignored.
RemoveRuntime(r) ==
    LET s == target[r]
    IN  /\ doing[r] = "remove"
        /\ \/ /\ Destroyed(s, TRUE)
              /\ Continue(r, "stopped") /\ UNCHANGED <<storeVars, faults>>
           \/ /\ Destroyed(s, FALSE)
              /\ IF Known(s)
                 THEN \E ok \in BOOLEAN :
                         SetState(s, "failed", ok) /\ Faults(<<FALSE, ok>>)
                 ELSE UNCHANGED storeVars /\ Faults(<<FALSE>>)
              /\ Answer(r)
        /\ UNCHANGED <<baseVars, sampleVars, gateway, ghostVars>>

\* set_state(Stopped), then remove: each answers with an error when the record
\* is gone or the snapshot cannot be written.
MarkStopped(r) ==
    /\ doing[r] = "stopped"
    /\ IF Known(target[r])
       THEN \E ok \in BOOLEAN :
               /\ SetState(target[r], "stopped", ok) /\ Faults(<<ok>>)
               /\ IF ok THEN Continue(r, "forget") ELSE Answer(r)
       ELSE Answer(r) /\ UNCHANGED <<storeVars, faults>>
    /\ UNCHANGED <<dockerVars, baseVars, sampleVars, gateway, ghostVars>>

ForgetSandbox(r) ==
    /\ doing[r] = "forget"
    /\ IF Known(target[r])
       THEN \E ok \in BOOLEAN :
               /\ Forget(target[r], ok) /\ Faults(<<ok>>)
               /\ IF ok THEN Continue(r, "unring") ELSE Answer(r)
       ELSE Answer(r) /\ UNCHANGED <<storeVars, faults>>
    /\ UNCHANGED <<dockerVars, baseVars, sampleVars, gateway, ghostVars>>

\* The outcome of removing the ring file is ignored.
RemoveRing(r) ==
    /\ doing[r] = "unring"
    /\ \/ rings' = rings \ {target[r]} /\ UNCHANGED <<strayRings, faults>>
       \/ /\ target[r] \in rings /\ strayRings' = strayRings \cup {target[r]}
          /\ Faults(<<FALSE>>) /\ UNCHANGED rings
    /\ answered' = answered \cup {target[r]}
    /\ Answer(r)
    /\ UNCHANGED <<storeVars, dockerVars, baseVars, sampler, gateway,
                   acknowledged, reconciled>>

-----------------------------------------------------------------------------
(* forward_sandbox_request: the endpoint is read, the daemon invoked, and a  *)
(* successful mutation counted, each on its own.                             *)

ForwardRequest(r) ==
    /\ gateway /\ doing[r] = "idle"
    /\ \E s \in Sandboxes :
          /\ registry[s].state = "ready" /\ registry[s].endpoint
          /\ target' = [target EXCEPT ![r] = s]
    /\ Goto(r, "invoke")
    /\ UNCHANGED <<storeVars, dockerVars, baseVars, sampleVars, gateway,
                   left, batch, undo, read, ghostVars, faults>>

\* A refused mutation is counted like a successful one.
InvokeDaemon_CountsRefused(r) ==
    LET s == target[r]
    IN  /\ doing[r] = "invoke" /\ acknowledged[s] < MaxRevision
        /\ container[s] = "running"
        /\ \E n \in {0, 1} : acknowledged' = [acknowledged EXCEPT ![s] = @ + n]
        /\ Continue(r, "count")
        /\ UNCHANGED <<storeVars, dockerVars, baseVars, sampleVars, gateway,
                       answered, reconciled, faults>>

\* The daemon answers that the mutation is done; or it refuses it, cannot be
\* reached, or does not answer in time.
InvokeDaemon(r) ==
    LET s == target[r]
    IN  /\ doing[r] = "invoke"
        /\ \/ /\ container[s] = "running" /\ acknowledged[s] < MaxRevision
              /\ acknowledged' = [acknowledged EXCEPT ![s] = @ + 1]
              /\ Continue(r, "count")
           \/ Answer(r) /\ UNCHANGED acknowledged
        /\ UNCHANGED <<storeVars, dockerVars, baseVars, sampleVars, gateway,
                       answered, reconciled, faults>>

CountMutation(r) ==
    LET s == target[r]
    IN  /\ doing[r] = "count"
        /\ IF Known(s)
           THEN \E ok \in BOOLEAN :
                   /\ Persist([registry EXCEPT ![s].revision = @ + 1], ok)
                   /\ Faults(<<ok>>)
           ELSE UNCHANGED <<storeVars, faults>>
        /\ Answer(r)
        /\ UNCHANGED <<dockerVars, baseVars, sampleVars, gateway, ghostVars>>

-----------------------------------------------------------------------------
(* The resource sampler reads the metrics of the ready sandboxes, then       *)
(* appends each sample under the ring lock if the sandbox is still ready.    *)

SampleReady ==
    /\ gateway /\ sampler = {}
    /\ sampler' = {s \in Sandboxes : registry[s].state = "ready"
                                     /\ container[s] = "running"}
    /\ UNCHANGED <<storeVars, dockerVars, baseVars, rings, strayRings, gateway, taskVars,
                   ghostVars, faults>>

\* append in the place of append_if(is_ready).
AppendSample_Unchecked ==
    /\ \E s \in sampler :
          sampler' = sampler \ {s} /\ rings' = rings \cup {s}
    /\ UNCHANGED <<storeVars, dockerVars, baseVars, strayRings, gateway, taskVars,
                   ghostVars, faults>>

AppendSample ==
    /\ \E s \in sampler :
          /\ sampler' = sampler \ {s}
          /\ rings' = IF registry[s].state = "ready" THEN rings \cup {s} ELSE rings
    /\ UNCHANGED <<storeVars, dockerVars, baseVars, strayRings, gateway, taskVars,
                   ghostVars, faults>>

-----------------------------------------------------------------------------
(* The daemon's container ends; the gateway dies and starts again. *)

ContainerExits ==
    /\ \E s \in Sandboxes :
          container[s] = "running" /\ Objects(s, "exited", volumes[s])
    /\ UNCHANGED <<storeVars, suspect, baseVars, sampleVars, gateway, taskVars,
                   ghostVars, faults>>

GatewayDies ==
    /\ gateway /\ gateway' = FALSE
    /\ Faults(<<FALSE>>)
    /\ registry' = [s \in Sandboxes |-> Absent]
    /\ doing' = [r \in Requests |-> "idle"]
    /\ target' = [r \in Requests |-> NoSandbox]
    /\ left' = [r \in Requests |-> 0]
    /\ batch' = [r \in Requests |-> <<>>]
    /\ undo' = [r \in Requests |-> <<>>]
    /\ read' = [r \in Requests |-> "absent"]
    /\ baseCached' = FALSE /\ baseLock' = NoRequest
    /\ sampler' = {}
    /\ suspect' = suspect \cup ({target[r] : r \in Requests} \ {NoSandbox})
    /\ UNCHANGED <<snapshot, minted, container, volumes, base, rings, strayRings, ghostVars>>

\* recover_sandboxes lists the containers with published ports, the running
\* ones, as ready records with revision 0.
Recovered == {s \in Sandboxes : container[s] = "running"}
RecoveredRecord == [state |-> "ready", endpoint |-> TRUE, revision |-> 0]

\* reconcile: recovered records win, loaded ones without a container fail.
Reconciled ==
    [s \in Sandboxes |->
        IF s \in Recovered THEN RecoveredRecord
        ELSE IF snapshot[s] = Absent THEN Absent
        ELSE [snapshot[s] EXCEPT !.state = "failed"]]

\* A gateway that cannot list the containers keeps the registry it loaded; one
\* that cannot write the reconciled snapshot goes on with the map.
GatewayStarts ==
    /\ ~gateway /\ gateway' = TRUE
    /\ \/ /\ \E ok \in BOOLEAN : Persist(Reconciled, ok) /\ Faults(<<ok>>)
          /\ reconciled' = TRUE
       \/ /\ registry' = snapshot /\ UNCHANGED snapshot
          /\ Faults(<<FALSE>>)
          /\ reconciled' = FALSE
    /\ acknowledged' = [s \in Sandboxes |-> registry'[s].revision]
    /\ UNCHANGED <<dockerVars, baseVars, sampleVars, taskVars, answered>>

-----------------------------------------------------------------------------
Serve(r) ==
    \/ CreateSandbox(r) \/ EnsureBase(r) \/ FillBase(r) \/ CreateContainer(r)
    \/ SeedLayerStack(r) \/ RecordSandbox(r) \/ InstallDaemon(r)
    \/ StartDaemon(r) \/ CheckDaemon(r) \/ UpdateEndpoints(r) \/ MarkReady(r)
    \/ RollbackStop(r) \/ RollbackRemove(r) \/ RollbackForget(r)
    \/ DestroySandbox(r) \/ ClaimStopping(r) \/ StopDaemon(r)
    \/ RemoveRuntime(r) \/ MarkStopped(r) \/ ForgetSandbox(r) \/ RemoveRing(r)
    \/ ForwardRequest(r) \/ InvokeDaemon(r) \/ CountMutation(r)

ManagerNext ==
    \/ \E r \in Requests : Serve(r)
    \/ SampleReady \/ AppendSample
    \/ ContainerExits \/ GatewayDies \/ GatewayStarts

ManagerSpec == ManagerInit /\ [][ManagerNext]_managerVars

-----------------------------------------------------------------------------
(* What the host side guarantees. *)

AtRest == gateway /\ \A r \in Requests : doing[r] = "idle"
Undoing(s) == \E r \in Requests : \E i \in DOMAIN undo[r] : undo[r][i] = s
Creating(s) == \E r \in Requests :
    target[r] = s /\ doing[r] \in {"seed", "record", "install", "start", "check",
                                   "endpoints", "ready"}
Destroying(s) == {r \in Requests :
    target[r] = s /\ doing[r] \in {"stop", "remove", "stopped"}}

\* The runtime objects of a sandbox are taken down by one destroy_sandbox at a
\* time, and never while the sandbox is being created: the compare-and-set of
\* transition_state admits one caller, and a `creating` record none.
OneTeardown ==
    \A s \in Sandboxes :
        /\ Cardinality(Destroying(s)) <= 1
        /\ Destroying(s) # {} => ~Creating(s)

\* A ready record has an endpoint and a container that was started, unless a
\* failed batch is just rolling it back.  (A gateway that could not reach
\* Docker when it started keeps the loaded registry as it is.)
ReadyIsServed ==
    reconciled => \A s \in Sandboxes :
        registry[s].state = "ready" =>
            /\ registry[s].endpoint
            /\ container[s] \in {"running", "exited"} \/ Undoing(s)

\* The lifecycle is sound: records, requests and runtime objects have their
\* types, one teardown works on a sandbox at a time and not on one that is
\* being created, and what the registry calls ready is served.
LifecycleSafe == ManagerTypeOK /\ OneTeardown /\ ReadyIsServed

\* After destroy_sandbox has answered Ok nothing of the sandbox is left, in
\* Docker, in the registry or in its snapshot, and no ring file but one that
\* could not be removed (destroy_sandbox.rs:32 answers Ok all the same); and
\* nothing brings any of it back: not a sampler that read its metrics before, not a
\* batch that rolls it back late, not a restart of the gateway.
DestroyedStaysGone ==
    \A s \in answered :
        /\ container[s] = "absent" /\ volumes[s] = {}
        /\ registry[s] = Absent /\ snapshot[s] = Absent
        /\ s \in rings => s \in strayRings

\* When no request is at work, every container and every volume belongs to a
\* sandbox of the registry, except what a failed runtime call or the death of
\* the gateway left behind.
NothingLeaks ==
    AtRest => \A s \in Sandboxes \ suspect :
        container[s] # "absent" \/ volumes[s] # {} => Known(s)

\* The revision of a record counts the mutations its daemon acknowledged since
\* the record was made or recovered: none is lost to a concurrent update of
\* the same record, and none is counted that was refused.
RevisionExact ==
    \A s \in Sandboxes :
        Known(s) => registry[s].revision
                      + Cardinality({r \in Requests : target[r] = s
                                                      /\ doing[r] = "count"})
                    = acknowledged[s]

\* The registry is right: its records are sound, what it calls ready is served,
\* and its revisions are exact (transition_state, record_mutation).
RegistryTrue == LifecycleSafe /\ RevisionExact

\* What is destroyed stays gone and what is not known is not there (destroy,
\* rollback_batch, reconcile).
NothingRemains == DestroyedStaysGone /\ NothingLeaks
=============================================================================
