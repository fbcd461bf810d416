-------------------------- MODULE RuntimeServices --------------------------
(***************************************************************************)
(* The services of one runtime that work behind its requests: the          *)
(* autosquash queue, whose worker thread is started by the first           *)
(* notification and leaves again when it has been idle, the squash it      *)
(* shares a gate with a manual squash for, and the shutdown of the runtime,*)
(* which any number of callers ask for and one performs, phase by phase,   *)
(* for a report they all return.  A runtime may also be dropped without    *)
(* one: its services first, its engine, with the queue, after them.        *)
(*                                                                         *)
(* A committer is a thread that has just committed a layer and notifies    *)
(* the queue; joining a predecessor it holds the queue's state lock.       *)
(***************************************************************************)
EXTENDS Integers, FiniteSets

CONSTANTS Committers,     \* threads that commit layers
          Callers,        \* threads that ask for the shutdown
          SessionIds,     \* sessions of the registry
          Threshold,      \* autosquash_squash_at_n_layers
          MaxLayers,      \* bound on the number of layers
          MaxSpawns,      \* bound on the number of worker threads started
          MaxServiceFaults \* bound on failed calls and panics

ASSUME ServiceAssumption ==
    /\ Threshold \in Nat /\ MaxLayers \in Nat /\ MaxServiceFaults \in Nat
    /\ MaxSpawns \in Nat \ {0}

VARIABLES
  layerCount,   \* layers of the active manifest
  unevaluated,  \* a layer was committed that no evaluation has looked at
  committer,    \* what each committer is at: idle, committed, joining
  queue,        \* the queue's state: pending, shutdown, worker_running
  handle,       \* the worker's join handle, 0 when taken
  worker,       \* where each worker thread stands
  squashGate,   \* the squash gate: free, or who holds it
  coordinator,  \* the shutdown coordinator: open, running, complete; dropped with the services
  caller,       \* where each shutdown caller stands
  joining,      \* the worker thread the performing caller joins
  todo,         \* the session ids of the converge pass under way
  failures,     \* what the report builder has recorded as failed
  answers,      \* the reports returned to callers
  registered,   \* sessions of the registry
  up,           \* services that still run: dispatcher, commands, workspaces
  served        \* faults that have happened

squashVars == <<layerCount, unevaluated, committer, queue, handle, worker, squashGate>>
shutdownVars == <<coordinator, caller, joining, todo, failures, answers, registered, up>>
serviceVars == <<squashVars, shutdownVars, served>>

Threads == 1 .. MaxSpawns
Over == {"done", "panicked"}
CallerStates == {"out", "waiting", "flag", "take", "join", "drain", "dispatcher",
                 "converge", "command", "reconverge", "raw", "returned"}
Services == {"dispatcher", "command", "raw"}

ServiceTypeOK ==
    /\ layerCount \in 1 .. MaxLayers /\ unevaluated \in BOOLEAN
    /\ committer \in [Committers -> {"idle", "committed", "joining"}]
    /\ queue \in [pending : BOOLEAN, shutdown : BOOLEAN, running : BOOLEAN]
    /\ handle \in 0 .. MaxSpawns
    /\ worker \in [Threads -> {"unborn", "receive", "services", "count", "gate",
                               "squash", "leaving"} \cup Over]
    /\ squashGate \in {"free", "manual", "worker"}
    /\ coordinator \in {"open", "running", "complete", "dropped"}
    /\ caller \in [Callers -> CallerStates]
    /\ joining \in 0 .. MaxSpawns
    /\ todo \subseteq SessionIds /\ registered \subseteq SessionIds
    /\ failures \subseteq (Services \cup SessionIds \cup {"registry"})
    /\ answers \subseteq SUBSET (Services \cup SessionIds \cup {"registry"})
    /\ up \subseteq Services /\ served \in 0 .. MaxServiceFaults

ServicesUp ==
    /\ layerCount = 1
    /\ queue = [pending |-> FALSE, shutdown |-> FALSE, running |-> FALSE]
    /\ handle = 0 /\ worker = [w \in Threads |-> "unborn"] /\ squashGate = "free"
    /\ coordinator = "open" /\ caller = [p \in Callers |-> "out"] /\ joining = 0
    /\ todo = {} /\ failures = {} /\ answers = {} /\ registered = {}
    /\ up = Services /\ served = 0

\* AutosquashEngine::start: the start-up notification is about to be sent.
ServiceInit ==
    /\ ServicesUp
    /\ unevaluated = TRUE
    /\ committer \in [Committers -> {"idle", "committed"}]
    /\ \E c \in Committers : committer[c] = "committed"

----------------------------------------------------------------------------
(* The queue *)

\* The state lock is kept over the join of a predecessor and over nothing else
\* that takes time.
StateLockFree == \A c \in Committers : committer[c] # "joining"

ServiceFault == served < MaxServiceFaults /\ served' = served + 1

CommitLayer(c) ==
    /\ committer[c] = "idle" /\ layerCount < MaxLayers /\ coordinator # "dropped"
    /\ layerCount' = layerCount + 1 /\ unevaluated' = TRUE
    /\ committer' = [committer EXCEPT ![c] = "committed"]
    /\ UNCHANGED <<queue, handle, worker, squashGate, shutdownVars, served>>

\* The thread is started, or it is not and the flag is put back.
SpawnWorker(c) ==
    /\ committer' = [committer EXCEPT ![c] = "idle"]
    /\ \/ \E w \in Threads :
             /\ worker[w] = "unborn" /\ \A v \in 1 .. w - 1 : worker[v] # "unborn"
             /\ worker' = [worker EXCEPT ![w] = "receive"] /\ handle' = w
             /\ queue' = [queue EXCEPT !.pending = TRUE, !.running = TRUE]
             /\ UNCHANGED served
       \/ /\ ServiceFault
          /\ handle' = 0
          /\ queue' = [queue EXCEPT !.pending = TRUE, !.running = FALSE]
          /\ UNCHANGED worker

\* MaxSpawns bounds how often an idle worker leaves.
SpawnsLeft == worker[MaxSpawns] = "unborn"

PredecessorOver == handle = 0 \/ worker[handle] \in Over

Notify(c) ==
    /\ committer[c] = "committed" /\ StateLockFree
    /\ CASE queue.shutdown ->
              /\ committer' = [committer EXCEPT ![c] = "idle"]
              /\ UNCHANGED <<queue, handle, worker, served>>
         [] ~queue.shutdown /\ queue.running ->
              /\ queue' = [queue EXCEPT !.pending = TRUE]
              /\ committer' = [committer EXCEPT ![c] = "idle"]
              /\ UNCHANGED <<handle, worker, served>>
         [] ~queue.shutdown /\ ~queue.running /\ PredecessorOver -> SpawnWorker(c)
         [] OTHER ->
              /\ queue' = [queue EXCEPT !.pending = TRUE]
              /\ committer' = [committer EXCEPT ![c] = "joining"]
              /\ UNCHANGED <<handle, worker, served>>
    /\ UNCHANGED <<layerCount, unevaluated, squashGate, shutdownVars>>

PredecessorJoined(c) ==
    /\ committer[c] = "joining" /\ PredecessorOver
    /\ SpawnWorker(c)
    /\ UNCHANGED <<layerCount, unevaluated, squashGate, shutdownVars>>

Receive(w) ==
    /\ worker[w] = "receive" /\ StateLockFree
    /\ \/ /\ queue.pending
          /\ queue' = [queue EXCEPT !.pending = FALSE]
          /\ worker' = [worker EXCEPT ![w] = "services"]
       \/ /\ ~queue.pending /\ queue.shutdown
          /\ queue' = [queue EXCEPT !.running = FALSE]
          /\ worker' = [worker EXCEPT ![w] = "leaving"]
    /\ UNCHANGED <<layerCount, unevaluated, committer, handle, squashGate, shutdownVars, served>>

\* Mutant: the timeout is not checked against what arrived as it ran out.
IdleTimeout_Blind(w) ==
    /\ worker[w] = "receive" /\ StateLockFree /\ SpawnsLeft /\ ~queue.shutdown
    /\ queue' = [queue EXCEPT !.running = FALSE]
    /\ worker' = [worker EXCEPT ![w] = "leaving"]
    /\ UNCHANGED <<layerCount, unevaluated, committer, handle, squashGate, shutdownVars, served>>

IdleTimeout(w) ==
    /\ worker[w] = "receive" /\ StateLockFree /\ SpawnsLeft
    /\ ~queue.pending /\ ~queue.shutdown
    /\ queue' = [queue EXCEPT !.running = FALSE]
    /\ worker' = [worker EXCEPT ![w] = "leaving"]
    /\ UNCHANGED <<layerCount, unevaluated, committer, handle, squashGate, shutdownVars, served>>

\* Mutant: the thread takes the state lock once more on its way out.
WorkerLeaves_Locked(w) ==
    /\ worker[w] = "leaving" /\ StateLockFree
    /\ worker' = [worker EXCEPT ![w] = "done"]
    /\ UNCHANGED <<layerCount, unevaluated, committer, queue, handle, squashGate, shutdownVars, served>>

WorkerLeaves(w) ==
    /\ worker[w] = "leaving"
    /\ worker' = [worker EXCEPT ![w] = "done"]
    /\ UNCHANGED <<layerCount, unevaluated, committer, queue, handle, squashGate, shutdownVars, served>>

\* The worker holds the services only while it evaluates. When they are gone it
\* stops, with stop_without_services, and forgets the notification.
UpgradeServices(w) ==
    /\ worker[w] = "services" /\ StateLockFree
    /\ IF coordinator = "dropped"
       THEN /\ worker' = [worker EXCEPT ![w] = "leaving"]
            /\ queue' = [queue EXCEPT !.running = FALSE]
       ELSE worker' = [worker EXCEPT ![w] = "count"] /\ UNCHANGED queue
    /\ UNCHANGED <<layerCount, unevaluated, committer, handle, squashGate, shutdownVars, served>>

----------------------------------------------------------------------------
(* The evaluation, and the squash *)

ToReceive(w) == worker' = [worker EXCEPT ![w] = "receive"]

CountLayers(w) ==
    /\ worker[w] = "count"
    /\ unevaluated' = FALSE
    /\ \/ /\ layerCount >= Threshold
          /\ worker' = [worker EXCEPT ![w] = "gate"] /\ UNCHANGED served
       \/ layerCount < Threshold /\ ToReceive(w) /\ UNCHANGED served
       \/ ServiceFault /\ ToReceive(w)
    /\ UNCHANGED <<layerCount, committer, queue, handle, squashGate, shutdownVars>>

\* With the gate held the layers are counted again.
TakeGate(w) ==
    /\ worker[w] = "gate" /\ squashGate = "free"
    /\ IF layerCount >= Threshold
       THEN worker' = [worker EXCEPT ![w] = "squash"] /\ squashGate' = "worker"
       ELSE ToReceive(w) /\ UNCHANGED squashGate
    /\ UNCHANGED <<layerCount, unevaluated, committer, queue, handle, shutdownVars, served>>

\* execute: the squash commits a shorter manifest, or finds no block to squash, or
\* fails; the sweep, the persisted handles and the faulty sessions follow under
\* the gate. A panic lets go of the gate, whose poison nobody minds.
SquashTo(n) == layerCount' = n

FinishSquash(w) ==
    /\ worker[w] = "squash"
    /\ squashGate' = "free"
    /\ \/ \E n \in {1, layerCount} : SquashTo(n) /\ ToReceive(w) /\ UNCHANGED served
       \/ ServiceFault /\ worker' = [worker EXCEPT ![w] = "panicked"] /\ UNCHANGED layerCount
    /\ UNCHANGED <<unevaluated, committer, queue, handle, shutdownVars>>

ManualSquash ==
    /\ squashGate = "free" /\ coordinator = "open"
    /\ squashGate' = "manual"
    /\ UNCHANGED <<layerCount, unevaluated, committer, queue, handle, worker, shutdownVars, served>>

ManualSquashEnds ==
    /\ squashGate = "manual"
    /\ squashGate' = "free"
    /\ \E n \in {1, layerCount} : SquashTo(n)
    /\ UNCHANGED <<unevaluated, committer, queue, handle, worker, shutdownVars, served>>

----------------------------------------------------------------------------
(* The sessions, as the shutdown sees them *)

\* Requests are drained before the daemon shuts the runtime down.
SessionStarts(s) ==
    /\ coordinator = "open" /\ s \notin registered
    /\ registered' = registered \cup {s}
    /\ UNCHANGED <<squashVars, coordinator, caller, joining, todo, failures, answers, up, served>>

\* A command that ends finalizes its session behind the shutdown's back.
SessionEnds(s) ==
    /\ s \in registered /\ "command" \in up /\ coordinator # "dropped"
    /\ registered' = registered \ {s}
    /\ UNCHANGED <<squashVars, coordinator, caller, joining, todo, failures, answers, up, served>>

----------------------------------------------------------------------------
(* Shutdown *)

Goto(p, state) == caller' = [caller EXCEPT ![p] = state]

BeginShutdown(p) ==
    /\ caller[p] \in {"out", "waiting"} /\ coordinator # "dropped"
    /\ CASE coordinator = "open" -> Goto(p, "flag") /\ coordinator' = "running" /\ UNCHANGED answers
         [] coordinator = "running" -> /\ caller[p] = "out"
                                       /\ Goto(p, "waiting") /\ UNCHANGED <<coordinator, answers>>
         [] OTHER -> /\ Goto(p, "returned") /\ answers' = answers \cup {failures}
                     /\ UNCHANGED coordinator
    /\ UNCHANGED <<squashVars, joining, todo, failures, registered, up, served>>

\* The last owner of a runtime that was not shut down lets go of it: the fields are
\* dropped in order, the services before the engine, whose Drop ends the worker.
DropRuntime(p) ==
    /\ coordinator = "open" /\ \A q \in Callers : caller[q] = "out"
    /\ \A c \in Committers : committer[c] = "idle"
    /\ squashGate # "manual"
    /\ coordinator' = "dropped" /\ Goto(p, "flag")
    /\ UNCHANGED <<squashVars, joining, todo, failures, answers, registered, up, served>>

AfterWorker == IF coordinator = "dropped" THEN "returned" ELSE "dispatcher"

RaiseFlag(p) ==
    /\ caller[p] = "flag" /\ StateLockFree
    /\ queue' = [queue EXCEPT !.shutdown = TRUE, !.pending = FALSE]
    /\ Goto(p, "take")
    /\ UNCHANGED <<layerCount, unevaluated, committer, handle, worker, squashGate,
                   coordinator, joining, todo, failures, answers, registered, up, served>>

TakeHandle(p) ==
    /\ caller[p] = "take"
    /\ joining' = handle /\ handle' = 0
    /\ Goto(p, IF handle = 0 THEN "drain" ELSE "join")
    /\ UNCHANGED <<layerCount, unevaluated, committer, queue, worker, squashGate,
                   coordinator, todo, failures, answers, registered, up, served>>

\* A worker that panicked left worker_running behind.
JoinWorker(p) ==
    /\ caller[p] = "join" /\ worker[joining] \in Over
    /\ worker[joining] = "panicked" => StateLockFree
    /\ queue' = [queue EXCEPT !.running = @ /\ worker[joining] # "panicked"]
    /\ joining' = 0 /\ Goto(p, AfterWorker)
    /\ UNCHANGED <<layerCount, unevaluated, committer, handle, worker, squashGate,
                   coordinator, todo, failures, answers, registered, up, served>>

AwaitWorker(p) ==
    /\ caller[p] = "drain" /\ StateLockFree /\ ~queue.running
    /\ Goto(p, AfterWorker)
    /\ UNCHANGED <<squashVars, coordinator, joining, todo, failures, answers, registered, up, served>>

NextPhase == [dispatcher |-> "converge", command |-> "reconverge"]

\* A phase stops its service, or fails or panics and is recorded.
StopService(p) ==
    /\ caller[p] \in {"dispatcher", "command"}
    /\ Goto(p, NextPhase[caller[p]])
    /\ todo' = registered
    /\ \/ up' = up \ {caller[p]} /\ UNCHANGED <<failures, served>>
       \/ ServiceFault /\ failures' = failures \cup {caller[p]} /\ UNCHANGED up
    /\ UNCHANGED <<squashVars, coordinator, joining, answers, registered>>

\* record_sessions, for one session of the pass: one that is already gone has
\* converged.
RecordConverged(s) == failures' = failures \ {s, "registry"}
RecordStuck(s) == failures' = (failures \ {"registry"}) \cup {s}

ConvergeSession(p) ==
    /\ caller[p] \in {"converge", "reconverge"}
    /\ \E s \in todo :
         /\ todo' = todo \ {s}
         /\ \/ registered' = registered \ {s} /\ RecordConverged(s) /\ UNCHANGED served
            \/ ServiceFault /\ RecordStuck(s) /\ UNCHANGED registered
    /\ UNCHANGED <<squashVars, coordinator, caller, joining, answers, up>>

AfterPass == [converge |-> "command", reconverge |-> "raw"]

\* The pass ends; without a look at the registry it is the pass that failed.
EndPass(p) ==
    /\ caller[p] \in {"converge", "reconverge"}
    /\ Goto(p, AfterPass[caller[p]])
    /\ \/ todo = {} /\ failures' = failures \ {"registry"} /\ UNCHANGED <<todo, served>>
       \/ /\ todo = registered /\ ServiceFault
          /\ failures' = failures \cup {"registry"} /\ todo' = {}
    /\ UNCHANGED <<squashVars, coordinator, joining, answers, registered, up>>

\* The workspaces are shut down, once more when incomplete, and the report is
\* published.
ShutdownWorkspaces(p) ==
    /\ caller[p] = "raw"
    /\ \/ up' = up \ {"raw"} /\ UNCHANGED <<failures, served>>
       \/ ServiceFault /\ failures' = failures \cup {"raw"} /\ UNCHANGED up
    /\ coordinator' = "complete"
    /\ Goto(p, "returned") /\ answers' = answers \cup {failures'}
    /\ UNCHANGED <<squashVars, joining, todo, registered>>

----------------------------------------------------------------------------
WorkerStep(w) ==
    \/ Receive(w) \/ IdleTimeout(w) \/ WorkerLeaves(w) \/ UpgradeServices(w)
    \/ CountLayers(w) \/ TakeGate(w) \/ FinishSquash(w)

CommitterStep(c) == Notify(c) \/ PredecessorJoined(c)

CallerStep(p) ==
    \/ RaiseFlag(p) \/ TakeHandle(p) \/ JoinWorker(p) \/ AwaitWorker(p)
    \/ StopService(p) \/ ConvergeSession(p) \/ EndPass(p) \/ ShutdownWorkspaces(p)

ServiceNext ==
    \/ \E c \in Committers : CommitLayer(c) \/ CommitterStep(c)
    \/ \E w \in Threads : WorkerStep(w)
    \/ ManualSquash \/ ManualSquashEnds
    \/ \E s \in SessionIds : SessionStarts(s) \/ SessionEnds(s)
    \/ \E p \in Callers : BeginShutdown(p) \/ DropRuntime(p) \/ CallerStep(p)

\* Threads are scheduled, and squashes, session teardowns and joins end. The worker
\* that waits for the gate is woken whenever it is let go, and manual squashes,
\* which only try it, do not get there first for ever.
ServiceFairness ==
    /\ \A c \in Committers : WF_serviceVars(CommitterStep(c))
    /\ \A w \in Threads : WF_serviceVars(WorkerStep(w))
    /\ \A w \in Threads : SF_serviceVars(TakeGate(w))
    /\ WF_serviceVars(ManualSquashEnds)
    /\ \A p \in Callers : WF_serviceVars(BeginShutdown(p) /\ caller[p] = "waiting")
                          /\ WF_serviceVars(CallerStep(p))

ServiceSpec == ServiceInit /\ [][ServiceNext]_serviceVars /\ ServiceFairness

----------------------------------------------------------------------------
(* Properties *)

Alive(w) == worker[w] \notin {"unborn"} \cup Over

\* A worker that panicked is the one that never clears worker_running.
Crippled == \E w \in Threads : worker[w] = "panicked"

\* At most one worker is at work, whatever notifications and time-outs race, and
\* a squash is one at a time: the gate's owner is the one thread inside execute.
OneWorker ==
    /\ Cardinality({w \in Threads : Alive(w) /\ worker[w] # "leaving"}) <= 1
    /\ \A w \in Threads : worker[w] = "squash" => squashGate = "worker"

\* A notification that was accepted is never stranded (worker.rs: the idle worker
\* looks at `pending` once more under the lock that clears worker_running): a
\* pending notification has a worker that has yet to look at the queue, unless no
\* thread could be started, the worker died, or there is no runtime any more.
NotificationHeard ==
    (queue.pending /\ StateLockFree /\ ~Crippled /\ served = 0 /\ coordinator # "dropped") =>
        \E w \in Threads : Alive(w) /\ worker[w] # "leaving"

\* A shutdown that reports no failure has really stopped everything: no session is
\* registered, no worker thread is alive, no squash of it is running, and the
\* dispatcher, the commands and the workspaces are down. Neither does a runtime
\* that was dropped instead outlive its worker.
CompleteMeansStopped ==
    /\ (coordinator = "complete" /\ failures = {}) =>
         registered = {} /\ up = {} /\ \A w \in Threads : ~Alive(w)
    /\ (coordinator = "dropped" /\ \E p \in Callers : caller[p] = "returned") =>
         \A w \in Threads : ~Alive(w)

\* "Concurrent and repeated callers receive the same report."
OneReport == Cardinality(answers) <= 1

ServicesStop == ServiceTypeOK /\ OneWorker /\ NotificationHeard /\ CompleteMeansStopped /\ OneReport

\* Every layer that is committed is looked at by a later evaluation, and every
\* caller of the shutdown gets its report: nothing waits for a thread that waits
\* for it, the notifier that joins a worker under the state lock included.
ServicesProgress ==
    /\ unevaluated ~> (~unevaluated \/ queue.shutdown \/ served > 0)
    /\ (\E p \in Callers : caller[p] \notin {"out", "returned"})
           ~> (\A p \in Callers : caller[p] \in {"out", "returned"})

============================================================================
