---------------------------- MODULE DaemonServer ----------------------------
(***************************************************************************)
(* The sandbox daemon as a server: its listeners, the two admission        *)
(* semaphores (connections, and requests that occupy a blocking thread),   *)
(* the life of one connection of each kind, and the shutdown, which closes *)
(* the admissions, cancels, stops the listeners, drains the connections,   *)
(* tears the runtime down and removes the pid file and the socket.         *)
(*                                                                         *)
(* A connection is named by the one request it carries. `rpc` is a request *)
(* of the JSON-line protocol, `files` a POST to /files/list, `tunnel` an   *)
(* upgraded /forward connection.                                           *)
(***************************************************************************)
EXTENDS Integers, FiniteSets

CONSTANTS Requests,        \* the requests that arrive
          KindOf,          \* [Requests -> {"rpc", "files", "tunnel"}]
          MaxConnections,  \* max_concurrent_connections
          MaxBlocking,     \* max_blocking_requests
          MaxServerFaults  \* bound on failed system calls

ASSUME ServerAssumption ==
    /\ KindOf \in [Requests -> {"rpc", "files", "tunnel"}]
    /\ MaxConnections \in Nat \ {0} /\ MaxBlocking \in Nat \ {0} /\ MaxServerFaults \in Nat

VARIABLES
  server,      \* the phase serve() is in
  listening,   \* the listeners whose tasks accept: rpc (two tasks), http
  admits,      \* the admissions that are open
  cancelled,   \* the shutdown token
  artifacts,   \* the run files on disk: socket, pid
  bound,       \* the listeners that are bound
  conn,        \* where each connection stands
  permits,     \* the requests that hold a blocking permit
  blocking,    \* the requests whose blocking task runs
  answer,      \* what each client is told
  stalled,     \* the requests that wait for their client, or their work, without a deadline
  complaints,  \* what serve() will report
  slips        \* system calls that have failed

daemonVars == <<server, listening, admits, cancelled, artifacts, bound, conn, permits,
                blocking, answer, stalled, complaints, slips>>

Waiting == {"reading", "routed", "dialled", "working", "writing", "tunnelling"}

DaemonTypeOK ==
    /\ server \in {"spawn", "assumed", "bindSocket", "bindPorts", "publish", "serving", "closing", "cancel",
                   "stop", "join", "drain", "teardown", "artifacts", "ended"}
    /\ listening \subseteq {"rpc", "http"} /\ cancelled \in BOOLEAN
    /\ admits \subseteq {"connection", "blocking"}
    /\ artifacts \subseteq {"socket", "pid"} /\ bound \subseteq {"socket", "ports"}
    /\ conn \in [Requests -> {"none", "rejecting", "closed"} \cup Waiting]
    /\ permits \subseteq Requests /\ blocking \subseteq Requests /\ stalled \subseteq Requests
    /\ answer \in [Requests -> {"none", "busy", "closing", "reply", "dropped", "cut"}]
    /\ complaints \subseteq {"listener", "runtime", "artifacts"}
    /\ slips \in 0 .. MaxServerFaults

DaemonInit ==
    /\ server = "spawn" /\ listening = {} /\ cancelled = FALSE
    /\ admits = {"connection", "blocking"}
    \* a daemon that died left its files behind
    /\ artifacts \in {{}, {"socket", "pid"}}
    /\ bound = {} /\ conn = [r \in Requests |-> "none"]
    /\ permits = {} /\ blocking = {} /\ answer = [r \in Requests |-> "none"]
    /\ stalled = {} /\ complaints = {} /\ slips = 0

----------------------------------------------------------------------------
(* Start-up *)

connVars == <<conn, permits, blocking, answer, stalled>>
Slip == slips < MaxServerFaults /\ slips' = slips + 1

\* serve --spawn: a socket, and a pid file that names a live process, are taken for
\* a daemon that runs, although the pid may be another process's by now. Otherwise
\* both files are removed and the daemon is started.
SpawnDaemon ==
    /\ server = "spawn"
    /\ \/ artifacts = {"socket", "pid"} /\ server' = "assumed" /\ UNCHANGED artifacts
       \/ server' = "bindSocket" /\ artifacts' = {}
    /\ UNCHANGED <<listening, admits, cancelled, bound, connVars, complaints, slips>>

\* A failure before the listeners run takes the same way out as a shutdown.
StartupFails(at) ==
    /\ server = at /\ Slip
    /\ server' = "closing" /\ complaints' = complaints \cup {"listener"}
    /\ UNCHANGED <<listening, admits, cancelled, artifacts, bound, connVars>>

\* The stale socket is removed, the new one bound.
BindSocket ==
    /\ server = "bindSocket"
    /\ server' = "bindPorts" /\ bound' = {"socket"}
    /\ artifacts' = artifacts \cup {"socket"}
    /\ UNCHANGED <<listening, admits, cancelled, connVars, complaints, slips>>

BindPorts ==
    /\ server = "bindPorts"
    /\ server' = "publish" /\ bound' = bound \cup {"ports"}
    /\ UNCHANGED <<listening, admits, cancelled, artifacts, connVars, complaints, slips>>

PublishPid ==
    /\ server = "publish"
    /\ server' = "serving" /\ listening' = {"rpc", "http"}
    /\ artifacts' = artifacts \cup {"pid"}
    /\ UNCHANGED <<admits, cancelled, bound, connVars, complaints, slips>>

----------------------------------------------------------------------------
(* Connections *)

serverVars == <<server, listening, admits, cancelled, artifacts, bound, complaints, slips>>

InUse == {r \in Requests : conn[r] \in Waiting}

Rpc(r) == KindOf[r] = "rpc"
ListenerOf(r) == IF Rpc(r) THEN "rpc" ELSE "http"

Rejecting(l) == {r \in Requests : conn[r] = "rejecting" /\ ListenerOf(r) = l}

\* A refused connection gets no task and no permit: the listener's own task writes
\* the refusal.
Refuse(r, why) ==
    /\ conn' = [conn EXCEPT ![r] = "rejecting"]
    /\ answer' = [answer EXCEPT ![r] = why]

AdmitConnection(r) ==
    CASE "connection" \notin admits -> Refuse(r, "closing")
      [] "connection" \in admits /\ Cardinality(InUse) >= MaxConnections -> Refuse(r, "busy")
      [] OTHER -> conn' = [conn EXCEPT ![r] = "reading"] /\ UNCHANGED answer

\* A task that writes a refusal does not accept meanwhile: there is one for HTTP,
\* and for RPC one for the socket and one for the port.
Accept(r) ==
    /\ ListenerOf(r) \in listening /\ conn[r] = "none"
    /\ Cardinality(Rejecting(ListenerOf(r))) < (IF Rpc(r) THEN 2 ELSE 1)
    /\ AdmitConnection(r)
    /\ UNCHANGED <<serverVars, permits, blocking, stalled>>

\* The refusal is written, with no deadline, or the write fails; over HTTP the
\* request is then read and thrown away for at most 100 ms.
WriteRejection(r) ==
    /\ conn[r] = "rejecting"
    /\ conn' = [conn EXCEPT ![r] = "closed"]
    /\ stalled' = stalled \ {r}
    /\ UNCHANGED <<serverVars, permits, blocking, answer>>

Answer(r, what) ==
    /\ conn' = [conn EXCEPT ![r] = "writing"]
    /\ answer' = [answer EXCEPT ![r] = what]
    /\ UNCHANGED <<permits, blocking, stalled>>

\* try_acquire: a closed semaphore says so before it says that it is empty.
Occupy(r) ==
    CASE "blocking" \notin admits -> Answer(r, "closing")
      [] "blocking" \in admits /\ Cardinality(permits) >= MaxBlocking -> Answer(r, "busy")
      [] OTHER -> /\ conn' = [conn EXCEPT ![r] = "working"]
                  /\ permits' = permits \cup {r} /\ blocking' = blocking \cup {r}
                  /\ UNCHANGED <<answer, stalled>>

ShuttingDown == cancelled \/ "blocking" \notin admits

\* One request line is read, timed and capped, and dispatched: with no await
\* between the look at the token and the permit. An unreadable, unauthorised or
\* unscoped request, and the readiness probe, are answered without a permit.
DispatchRpc(r) ==
    /\ KindOf[r] = "rpc" /\ conn[r] = "reading"
    /\ \/ Answer(r, "reply")
       \/ ShuttingDown /\ Answer(r, "closing")
       \/ ~ShuttingDown /\ Occupy(r)
    /\ UNCHANGED serverVars

\* An HTTP request is routed first, and its body read, before it asks for a permit.
RouteHttp(r) ==
    /\ KindOf[r] \in {"files", "tunnel"} /\ conn[r] = "reading"
    /\ \/ ShuttingDown /\ Answer(r, "closing")
       \/ /\ ~ShuttingDown
          /\ conn' = [conn EXCEPT ![r] = "routed"]
          /\ UNCHANGED <<permits, blocking, answer, stalled>>
    /\ UNCHANGED serverVars

ListFiles(r) ==
    /\ KindOf[r] = "files" /\ conn[r] = "routed"
    /\ Occupy(r) \/ Answer(r, "reply")
    /\ UNCHANGED serverVars

\* forward: a bad route, an unknown workspace and one without an address are
\* refused; the target is dialled within a deadline.
Forward(r) ==
    /\ KindOf[r] = "tunnel" /\ conn[r] = "routed"
    /\ \/ Answer(r, "reply")
       \/ conn' = [conn EXCEPT ![r] = "dialled"] /\ UNCHANGED <<permits, blocking, answer, stalled>>
    /\ UNCHANGED serverVars

\* Within its deadline the target answers, or it switches protocols: then the
\* connection, and its permit, live as long as the tunnel.
Exchange(r) ==
    /\ conn[r] = "dialled"
    /\ \/ Answer(r, "reply")
       \/ /\ conn' = [conn EXCEPT ![r] = "tunnelling"]
          /\ answer' = [answer EXCEPT ![r] = "reply"]
          /\ UNCHANGED <<permits, blocking, stalled>>
    /\ UNCHANGED serverVars

\* An operation has no deadline, and neither has a write: a client that neither
\* reads nor goes away holds it up. Either may go on after all.
Stall(r) ==
    /\ r \notin stalled /\ (r \in blocking \/ conn[r] \in {"rejecting", "writing"})
    /\ stalled' = stalled \cup {r}
    /\ UNCHANGED <<serverVars, conn, permits, blocking, answer>>

\* The task of the blocking pool ends; whoever still awaits it writes the answer
\* and has let go of the permit.
WorkEnds(r) ==
    /\ r \in blocking
    /\ blocking' = blocking \ {r} /\ stalled' = stalled \ {r}
    /\ IF conn[r] = "working"
       THEN /\ conn' = [conn EXCEPT ![r] = "writing"]
            /\ answer' = [answer EXCEPT ![r] = "reply"]
            /\ permits' = permits \ {r}
       ELSE UNCHANGED <<conn, answer, permits>>
    /\ UNCHANGED serverVars

WriteAnswer(r) ==
    /\ conn[r] = "writing"
    /\ conn' = [conn EXCEPT ![r] = "closed"] /\ stalled' = stalled \ {r}
    /\ UNCHANGED <<serverVars, permits, blocking, answer>>

\* Either side of a tunnel ends it, or the token does.
TunnelEnds(r) ==
    /\ conn[r] = "tunnelling"
    /\ conn' = [conn EXCEPT ![r] = "closed"]
    /\ UNCHANGED <<serverVars, permits, blocking, answer, stalled>>

\* Mutant: an answer that is being written is finished first.
DropHttp_Finishes(r) ==
    /\ KindOf[r] \in {"files", "tunnel"} /\ conn[r] \in Waiting \ {"writing"}
    /\ conn' = [conn EXCEPT ![r] = "closed"]
    /\ permits' = permits \ {r}
    /\ answer' = [answer EXCEPT ![r] = IF @ = "none" THEN "dropped" ELSE @]
    /\ stalled' = stalled \ ({r} \ blocking)
    /\ UNCHANGED <<serverVars, blocking>>

\* An HTTP connection is dropped, with the future that serves it and the permit
\* that future holds, when the token fires and when its client goes away. A
\* blocking task is not a future: it runs on.
DropHttp(r) ==
    /\ KindOf[r] \in {"files", "tunnel"} /\ conn[r] \in Waiting
    /\ conn' = [conn EXCEPT ![r] = "closed"]
    /\ permits' = permits \ {r}
    /\ answer' = [answer EXCEPT ![r] = IF @ = "none" THEN "dropped" ELSE @]
    /\ stalled' = stalled \ ({r} \ blocking)
    /\ UNCHANGED <<serverVars, blocking>>

----------------------------------------------------------------------------
(* Shutdown *)

\* A signal, the token, or a listener whose accept failed.
StopServing ==
    /\ server = "serving"
    /\ server' = "closing"
    /\ \/ UNCHANGED <<complaints, slips>>
       \/ Slip /\ complaints' = complaints \cup {"listener"}
    /\ UNCHANGED <<listening, admits, cancelled, artifacts, bound, connVars>>

\* Mutant: the token fires before the admissions are closed.
CloseAdmissions_CancelFirst ==
    /\ server = "closing"
    /\ server' = "cancel" /\ cancelled' = TRUE
    /\ UNCHANGED <<listening, admits, artifacts, bound, connVars, complaints, slips>>

CloseAdmissions ==
    /\ server = "closing"
    /\ \/ admits' = admits \ {"connection"} /\ "connection" \in admits /\ UNCHANGED server
       \/ "connection" \notin admits /\ admits' = {} /\ server' = "cancel"
    /\ UNCHANGED <<listening, cancelled, artifacts, bound, connVars, complaints, slips>>

Cancel ==
    /\ server = "cancel"
    /\ server' = "stop" /\ cancelled' = TRUE
    /\ UNCHANGED <<listening, admits, artifacts, bound, connVars, complaints, slips>>

\* The tasks of the RPC listeners are aborted, wherever they wait: a refusal that
\* one of them is writing is cut short with its connection.
AbortListeners ==
    /\ server = "stop"
    /\ server' = "join" /\ listening' = listening \ {"rpc"} /\ bound' = bound \ {"socket"}
    /\ conn' = [r \in Requests |-> IF r \in Rejecting("rpc") THEN "closed" ELSE conn[r]]
    /\ answer' = [r \in Requests |-> IF r \in Rejecting("rpc") THEN "cut" ELSE answer[r]]
    /\ stalled' = stalled \ Rejecting("rpc")
    /\ UNCHANGED <<admits, cancelled, artifacts, permits, blocking, complaints, slips>>

\* The HTTP listener is not aborted but joined: it sees the token between two
\* connections.
JoinListener ==
    /\ server = "join" /\ Rejecting("http") = {}
    /\ server' = "drain" /\ listening' = {} /\ bound' = {}
    /\ UNCHANGED <<admits, cancelled, artifacts, connVars, complaints, slips>>

\* Mutant: the tracked tasks are not waited for.
DrainConnections_NoWait ==
    /\ server = "drain"
    /\ server' = "teardown"
    /\ UNCHANGED <<listening, admits, cancelled, artifacts, bound, connVars, complaints, slips>>

DrainConnections ==
    /\ server = "drain" /\ InUse = {}
    /\ server' = "teardown"
    /\ UNCHANGED <<listening, admits, cancelled, artifacts, bound, connVars, complaints, slips>>

\* The teardown runs on a thread of the blocking pool, and needs one.
TearDown ==
    /\ server = "teardown" /\ Cardinality(blocking) < MaxBlocking
    /\ server' = "artifacts"
    /\ \/ UNCHANGED <<complaints, slips>>
       \/ Slip /\ complaints' = complaints \cup {"runtime"}
    /\ UNCHANGED <<listening, admits, cancelled, artifacts, bound, connVars>>

\* Both files are tried, whatever became of the other and of the teardown.
RemoveArtifacts ==
    /\ server = "artifacts"
    /\ server' = "ended"
    /\ \/ artifacts' = {} /\ UNCHANGED <<complaints, slips>>
       \/ /\ Slip /\ complaints' = complaints \cup {"artifacts"}
          /\ \E left \in artifacts : artifacts' = {left}
    /\ UNCHANGED <<listening, admits, cancelled, bound, connVars>>

----------------------------------------------------------------------------
ConnectionStep(r) ==
    \/ DispatchRpc(r) \/ RouteHttp(r) \/ ListFiles(r) \/ Forward(r) \/ Exchange(r)
    \/ WriteAnswer(r) \/ WriteRejection(r) \/ TunnelEnds(r)

ShutdownStep ==
    \/ CloseAdmissions \/ Cancel \/ AbortListeners \/ JoinListener \/ DrainConnections
    \/ TearDown \/ RemoveArtifacts

DaemonNext ==
    \/ SpawnDaemon \/ BindSocket \/ BindPorts \/ PublishPid
    \/ \E at \in {"bindSocket", "bindPorts", "publish"} : StartupFails(at)
    \/ \E r \in Requests : Accept(r) \/ ConnectionStep(r) \/ WorkEnds(r) \/ DropHttp(r)
                                  \/ Stall(r)
    \/ StopServing \/ ShutdownStep

\* What the daemon does about a request by itself: it polls its tasks, times out a
\* request line that is never finished, finishes its work and writes what the client
\* takes, unless that stalls, and drops an HTTP connection once the token has fired.
Attend(r) ==
    \/ DispatchRpc(r) \/ RouteHttp(r) \/ ListFiles(r) \/ Forward(r) \/ Exchange(r)
    \/ r \notin stalled /\ (WorkEnds(r) \/ WriteAnswer(r) \/ WriteRejection(r))
    \/ cancelled /\ DropHttp(r)

\* Requests need not arrive, nor tunnels end, by themselves.
DaemonFairness ==
    /\ \A r \in Requests : WF_daemonVars(Attend(r))
    /\ WF_daemonVars(ShutdownStep)

DaemonSpec == DaemonInit /\ [][DaemonNext]_daemonVars /\ DaemonFairness

----------------------------------------------------------------------------
(* Properties *)

\* An RPC request that is worked on holds a permit, so that there are never more of
\* them than max_blocking_requests, and nothing but work holds one: a permit that
\* was lost would never be given back.
PermitsExact ==
    /\ \A r \in Requests : r \in permits <=> conn[r] = "working"
    /\ \A r \in Requests : (r \in blocking /\ Rpc(r)) => r \in permits
    /\ Cardinality(permits) <= MaxBlocking /\ Cardinality(InUse) <= MaxConnections

\* "drains accepted connections, joins the synchronous runtime teardown": once the
\* runtime is torn down no connection is open and no RPC request is still at work.
TeardownAlone ==
    server \in {"teardown", "artifacts", "ended"} =>
        /\ InUse = {} /\ \A r \in blocking : ~Rpc(r)
        /\ listening = {} /\ bound = {}
        /\ \A r \in Requests : conn[r] # "rejecting"

\* An RPC connection that was admitted was answered before it was closed, through
\* the whole shutdown. One that was refused was told so, except by an abort of the
\* listener that was writing the refusal.
AcceptedAnswered ==
    \A r \in Requests : (Rpc(r) /\ conn[r] = "closed") =>
        \/ answer[r] \in {"busy", "closing", "reply"}
        \/ answer[r] = "cut" /\ cancelled /\ "rpc" \notin listening

\* Once the daemon has published its pid every listener is bound, until it stops
\* them, and a daemon that ends without complaint leaves neither file.
ArtifactsTrue ==
    /\ server = "serving" => bound = {"socket", "ports"} /\ artifacts = {"socket", "pid"}
    /\ (server = "ended" /\ complaints = {}) => artifacts = {}

DaemonDrains == DaemonTypeOK /\ PermitsExact /\ TeardownAlone /\ AcceptedAnswered /\ ArtifactsTrue

\* "A request racing shutdown is therefore rejected as shutdown, never misreported as
\* ordinary capacity pressure": nobody is told that the daemon is busy once the
\* token has fired.
BusyMeansBusy ==
    [][\A r \in Requests : (answer[r] = "none" /\ answer'[r] = "busy") => ~cancelled]_daemonVars

\* What may hold up a shutdown: an RPC answer or an HTTP refusal its client does
\* not take, and an operation that does not end. An HTTP answer may not, nor a
\* tunnel, nor the refusal of an RPC connection.
HeldUp ==
    \E r \in stalled :
        \/ r \in blocking
        \/ conn[r] = "writing" /\ Rpc(r)
        \/ conn[r] = "rejecting" /\ ~Rpc(r)

\* A daemon that is told to stop refuses what comes late as a shutdown, and ends,
\* unless from some point on something always holds it up.
DaemonStops == BusyMeansBusy /\ (([]<>~HeldUp) => (server = "closing" ~> server = "ended"))
============================================================================
