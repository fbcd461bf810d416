------------------------------ MODULE Gateway ------------------------------
(***************************************************************************)
(* The host gateway (crates/sandbox-gateway): processes that serve one     *)
(* Unix socket and one pid file (gateway/lifecycle.rs, listener.rs), and   *)
(* the connections they handle (connection.rs).  A connection takes one    *)
(* permit, reads one request line, dispatches it to the manager and writes *)
(* one answer, after the log lines of the operation when the request asks  *)
(* for them.  The operation runs on a blocking thread (router/dispatch.rs) *)
(* and outlives its connection.                                            *)
(*                                                                         *)
(* Faults: a process killed at any step, a pid file or a mode that cannot  *)
(* be written, an accept that fails, a client that says nothing, leaves or *)
(* stops reading, and an operator who unlinks the socket path.             *)
(***************************************************************************)
EXTENDS Integers, FiniteSets, Sequences

CONSTANTS
    MaxStarts,          \* bound: processes started
    Conns,
    RequestLines,       \* the request lines a client may send, by connection
    MaxPermits,         \* max_concurrent_connections
    MaxRequestBytes,    \* ProtocolLimits::DEFAULT_MAX_REQUEST_BYTES
    MaxLogs,            \* bound: log lines of one operation
    MaxGatewayFaults    \* bound: faults of a behaviour

ASSUME GatewayAssumption ==
    /\ MaxPermits \in Nat \ {0}
    /\ {MaxRequestBytes, MaxLogs, MaxStarts, MaxGatewayFaults} \subseteq Nat
    /\ \A c \in Conns : RequestLines[c] \subseteq
                          [sent : BOOLEAN, len : Nat, newline : BOOLEAN, json : BOOLEAN,
                           object : BOOLEAN, token : BOOLEAN, stream : BOOLEAN,
                           valid : BOOLEAN]

\* Processes, numbered in the order they start; the number stands for the
\* device and inode of the socket the process binds too.
Gateways == 1..MaxStarts

VARIABLES
    gw,         \* the stage of serve() a process is in
    signalled,  \* the processes whose shutdown token is cancelled
    freePermits,\* the semaphore of a process
    socketFile, \* the process whose socket is at the path, 0 for none
    pidFile,    \* the process the pid file names, 0 for none
    robbed,     \* ghost: processes whose socket was unlinked by an operator, or
                \* by a process that checked the path before an operator did so
    raced,      \* ghost: such processes
    phase,      \* what a connection is doing
    at,         \* the process that owns the connection
    request,    \* its request line
    peer,       \* its client
    op,         \* the operation dispatched for it
    chan,       \* the log channel of a streaming request
    emitted,    \* ghost: log lines the operation wrote
    response,   \* the response it will write
    out,        \* what its client received
    gatewayFaults

procVars == <<gw, signalled, freePermits>>
pathVars == <<socketFile, pidFile, robbed, raced>>
clientVars == <<phase, at, request, peer, op, chan, emitted, response, out>>
gatewayVars == <<procVars, pathVars, clientVars, gatewayFaults>>

None == "none"
Handling == {"reading", "working", "streaming", "answering"}
Handled(g) == {c \in Conns : at[c] = g /\ phase[c] \in Handling}
OpenConns(g) == {c \in Conns : at[c] = g /\ phase[c] # "over"}

GatewayInit ==
    /\ gw = [g \in Gateways |-> "new"]
    /\ signalled = {}
    /\ freePermits = [g \in Gateways |-> 0]
    /\ socketFile = 0 /\ pidFile = 0 /\ robbed = {} /\ raced = {}
    /\ phase = [c \in Conns |-> "idle"]
    /\ at = [c \in Conns |-> 0]
    /\ request = [c \in Conns |-> CHOOSE r \in RequestLines[c] : TRUE]
    /\ peer = [c \in Conns |-> "open"]
    /\ op = [c \in Conns |-> None]
    /\ chan = [c \in Conns |-> <<>>]
    /\ emitted = [c \in Conns |-> 0]
    /\ response = [c \in Conns |-> None]
    /\ out = [c \in Conns |-> <<>>]
    /\ gatewayFaults = 0

GatewayFault == gatewayFaults < MaxGatewayFaults /\ gatewayFaults' = gatewayFaults + 1
NoFault == UNCHANGED gatewayFaults

-----------------------------------------------------------------------------
(* Binding, serving and leaving: lifecycle.rs and listener.rs              *)

\* UnixSocketListener::bind: a path that exists is never replaced; a socket
\* whose mode cannot be set is removed again, one whose identity cannot be
\* read stays.
Bind(g) ==
    /\ gw[g] = "new" /\ \A h \in 1..(g - 1) : gw[h] # "new"
    /\ socketFile = 0
    /\ \/ /\ socketFile' = g
          /\ gw' = [gw EXCEPT ![g] = "bound"]
          /\ NoFault
       \/ /\ GatewayFault
          /\ gw' = [gw EXCEPT ![g] = "gone"]
          /\ socketFile' \in {0, g}
    /\ UNCHANGED <<signalled, freePermits, pidFile, robbed, raced, clientVars>>

\* serve: the pid file is written after the bind; without it the listener
\* is dropped at once.
WritePidFile(g) ==
    /\ gw[g] = "bound"
    /\ \/ /\ pidFile' = g
          /\ freePermits' = [freePermits EXCEPT ![g] = MaxPermits]
          /\ gw' = [gw EXCEPT ![g] = "serving"]
          /\ NoFault
       \/ /\ GatewayFault
          /\ gw' = [gw EXCEPT ![g] = "cleaned"]
          /\ UNCHANGED <<pidFile, freePermits>>
    /\ UNCHANGED <<signalled, socketFile, robbed, raced, clientVars>>

\* install_ctrl_c_shutdown; once the loop has returned the token is not read.
Interrupt(g) ==
    /\ gw[g] \in {"bound", "serving"} /\ g \notin signalled
    /\ signalled' = signalled \cup {g}
    /\ UNCHANGED <<gw, freePermits, pathVars, clientVars, gatewayFaults>>

\* accept_until_shutdown returns: the token fired, or accept failed.
StopAccepting(g) ==
    /\ gw[g] = "serving"
    /\ (g \in signalled /\ NoFault) \/ GatewayFault
    /\ gw' = [gw EXCEPT ![g] = "stopping"]
    /\ UNCHANGED <<signalled, freePermits, pathVars, clientVars>>

CleanupPaths(g) ==
    /\ gw[g] = "stopping"
    /\ pidFile' = 0
    /\ gw' = [gw EXCEPT ![g] = "cleaned"]
    /\ UNCHANGED <<signalled, freePermits, socketFile, robbed, raced, clientVars,
                   gatewayFaults>>

OwnSocket_Any(g) == socketFile # 0
OwnSocket(g) == socketFile = g

\* Drop for UnixSocketListener: the path is looked at, and its removal is next
\* if it is this listener's socket.
CheckSocket(g) ==
    /\ gw[g] = "cleaned"
    /\ \/ gw' = [gw EXCEPT ![g] = IF OwnSocket(g) THEN "removing" ELSE "closing"] /\ NoFault
       \/ gw' = [gw EXCEPT ![g] = "closing"] /\ GatewayFault
    /\ UNCHANGED <<signalled, freePermits, pathVars, clientVars>>

\* The socket at the path is taken from a process that has not left.
Rob ==
    /\ robbed' = robbed \cup {g \in Gateways : gw[g] # "gone" /\ g = socketFile}
    /\ raced' = raced \cup {g \in Gateways : gw[g] = "removing" /\ g = socketFile}

\* Whatever is at the path by then is removed; an error is ignored.
RemoveSocket(g) ==
    /\ gw[g] = "removing"
    /\ gw' = [gw EXCEPT ![g] = "closing"]
    /\ \/ /\ socketFile' = 0 /\ NoFault
          /\ (g \in raced /\ Rob) \/ (g \notin raced /\ UNCHANGED <<robbed, raced>>)
       \/ UNCHANGED <<socketFile, robbed, raced>> /\ GatewayFault
    /\ UNCHANGED <<signalled, freePermits, pidFile, clientVars>>

Closed(set) == [c \in Conns |-> IF c \in set THEN "over" ELSE phase[c]]

\* The listening socket is closed: connections still in the backlog are reset.
DropListener(g) ==
    /\ gw[g] = "closing"
    /\ gw' = [gw EXCEPT ![g] = "draining"]
    /\ phase' = Closed({c \in Conns : at[c] = g /\ phase[c] = "backlog"})
    /\ UNCHANGED <<signalled, freePermits, pathVars, at, request, peer,
                   op, chan, emitted, response, out, gatewayFaults>>

\* main returns and drops the runtime: its tasks go, whatever they were at.
DropTasks(g) ==
    /\ gw[g] = "draining"
    /\ gw' = [gw EXCEPT ![g] = "exiting"]
    /\ phase' = Closed(OpenConns(g))
    /\ chan' = [c \in Conns |-> IF at[c] = g THEN <<>> ELSE chan[c]]
    /\ freePermits' = [freePermits EXCEPT ![g] = 0]
    /\ peer' = [c \in Conns |-> IF at[c] = g THEN "open" ELSE peer[c]]
    /\ UNCHANGED <<signalled, pathVars, at, request, op, emitted, response, out,
                   gatewayFaults>>

\* ... but waits for its blocking threads.
Exit(g) ==
    /\ gw[g] = "exiting"
    /\ \A c \in Conns : at[c] = g => op[c] # "running"
    /\ gw' = [gw EXCEPT ![g] = "gone"]
    /\ signalled' = signalled \ {g}
    /\ UNCHANGED <<freePermits, pathVars, clientVars, gatewayFaults>>

\* The process is killed: the files it made stay.
Crash(g) ==
    /\ gw[g] \notin {"new", "gone"} /\ GatewayFault
    /\ freePermits' = [freePermits EXCEPT ![g] = 0]
    /\ gw' = [gw EXCEPT ![g] = "gone"]
    /\ signalled' = signalled \ {g}
    /\ phase' = Closed(OpenConns(g))
    /\ peer' = [c \in Conns |-> IF at[c] = g THEN "open" ELSE peer[c]]
    /\ op' = [c \in Conns |-> IF at[c] = g /\ op[c] = "running" THEN "lost" ELSE op[c]]
    /\ chan' = [c \in Conns |-> IF at[c] = g THEN <<>> ELSE chan[c]]
    /\ UNCHANGED <<pathVars, at, request, emitted, response, out>>

\* An operator removes the socket path, left behind or not.
UnlinkSocket ==
    /\ socketFile # 0 /\ GatewayFault
    /\ socketFile' = 0 /\ Rob
    /\ UNCHANGED <<procVars, pidFile, clientVars>>

-----------------------------------------------------------------------------
(* Connections: lifecycle.rs and connection.rs                             *)

Keeping == {"bound", "serving", "stopping", "cleaned", "removing"}
Listening == Keeping \cup {"closing"}
Reaches(g) == gw[g] \in Listening /\ socketFile = g

Connect(c, g, r) ==
    /\ phase[c] = "idle" /\ Reaches(g)
    /\ phase' = [phase EXCEPT ![c] = "backlog"]
    /\ at' = [at EXCEPT ![c] = g]
    /\ request' = [request EXCEPT ![c] = r]
    /\ UNCHANGED <<procVars, pathVars, peer, op, chan, emitted, response, out, gatewayFaults>>

\* The client closes its end, or stops reading: a write to it then fails, or
\* waits for ever (no write has a timeout).
PeerChanges(c) ==
    /\ phase[c] \in Handling \cup {"rejecting"}
    /\ peer[c] = "open"
    /\ \E p \in {"gone", "stalled"} : peer' = [peer EXCEPT ![c] = p]
    /\ UNCHANGED <<procVars, pathVars, phase, at, request, op, chan, emitted, response, out,
                   gatewayFaults>>

\* accept_until_shutdown: a permit, or a rejection from a task of its own.
AcceptConnection(c) ==
    LET g == at[c] IN
    /\ phase[c] = "backlog" /\ gw[g] = "serving"
    /\ IF freePermits[g] > 0
         THEN /\ freePermits' = [freePermits EXCEPT ![g] = @ - 1]
              /\ phase' = [phase EXCEPT ![c] = "reading"]
              /\ UNCHANGED response
         ELSE /\ phase' = [phase EXCEPT ![c] = "rejecting"]
              /\ response' = [response EXCEPT ![c] = "overload"]
              /\ UNCHANGED freePermits
    /\ UNCHANGED <<gw, signalled, pathVars, at, request, peer, op, chan, emitted, out,
                   gatewayFaults>>

\* The task of a connection ends and drops its permit.
EndConnection(c) ==
    /\ phase' = [phase EXCEPT ![c] = "over"]
    /\ freePermits' = [freePermits EXCEPT ![at[c]] = IF phase[c] \in Handling THEN @ + 1 ELSE @]
    /\ chan' = [chan EXCEPT ![c] = <<>>]
    /\ peer' = [peer EXCEPT ![c] = "open"]

\* read_request_line: at most one byte over the limit is read; a client that
\* leaves before its line is complete has sent an unterminated one.
Framed(c) ==
    LET r == request[c] IN
    r.sent /\ r.len <= MaxRequestBytes /\ r.newline

\* authorize_and_decode
Authorized(r) == r.json /\ r.object /\ r.token /\ r.valid

AnswerWith(c, r) ==
    /\ phase' = [phase EXCEPT ![c] = "answering"]
    /\ response' = [response EXCEPT ![c] = r]

HandleConnection(c) ==
    /\ phase[c] = "reading"
    /\ request[c].sent \/ peer[c] = "gone"
    /\ IF Framed(c) /\ Authorized(request[c])
         THEN /\ phase' = [phase EXCEPT ![c] = IF request[c].stream THEN "streaming" ELSE "working"]
              /\ op' = [op EXCEPT ![c] = "running"]
              /\ UNCHANGED response
         ELSE AnswerWith(c, "fault") /\ UNCHANGED op
    /\ UNCHANGED <<procVars, pathVars, at, request, peer, chan, emitted, out, gatewayFaults>>

ReadTimesOut_Never(c) == FALSE /\ UNCHANGED gatewayVars
ReadTimesOut(c) ==
    /\ phase[c] = "reading"
    /\ AnswerWith(c, "fault")
    /\ UNCHANGED <<procVars, pathVars, at, request, peer, op, chan, emitted, out, gatewayFaults>>

\* The manager's operation, on its blocking thread: log lines go to the
\* channel while its receiver lives; the sink is dropped with the operation.
EmitLog(c) ==
    /\ op[c] = "running" /\ request[c].stream /\ emitted[c] < MaxLogs
    /\ emitted' = [emitted EXCEPT ![c] = @ + 1]
    /\ chan' = [chan EXCEPT ![c] = IF phase[c] = "streaming" THEN Append(@, emitted[c] + 1) ELSE @]
    /\ UNCHANGED <<procVars, pathVars, phase, at, request, peer, op, response, out, gatewayFaults>>

FinishOperation(c) ==
    /\ op[c] = "running"
    /\ op' = [op EXCEPT ![c] = "finished"]
    /\ UNCHANGED <<procVars, pathVars, phase, at, request, peer, chan, emitted, response, out,
                   gatewayFaults>>

PlainResult(c) ==
    /\ phase[c] = "working" /\ op[c] = "finished"
    /\ AnswerWith(c, "result")
    /\ UNCHANGED <<procVars, pathVars, at, request, peer, op, chan, emitted, out, gatewayFaults>>

\* handle_streaming_request: each log line is written as it arrives; a write
\* that fails ends the connection and leaves the operation running.
WriteLog(c) ==
    /\ phase[c] = "streaming" /\ chan[c] # <<>>
    /\ \/ /\ peer[c] = "open"
          /\ out' = [out EXCEPT ![c] = Append(@, Head(chan[c]))]
          /\ chan' = [chan EXCEPT ![c] = Tail(@)]
          /\ UNCHANGED <<phase, freePermits, peer>>
       \/ peer[c] = "gone" /\ EndConnection(c) /\ UNCHANGED out
    /\ UNCHANGED <<gw, signalled, pathVars, at, request, op, emitted, response,
                   gatewayFaults>>

\* The channel is closed and empty: the response is next.
StreamEnds(c) ==
    /\ phase[c] = "streaming" /\ chan[c] = <<>> /\ op[c] = "finished"
    /\ AnswerWith(c, "result")
    /\ UNCHANGED <<procVars, pathVars, at, request, peer, op, chan, emitted, out, gatewayFaults>>

WriteResponse(c) ==
    /\ phase[c] \in {"answering", "rejecting"}
    /\ \/ peer[c] = "open" /\ out' = [out EXCEPT ![c] = Append(@, 0)]
       \/ peer[c] = "gone" /\ UNCHANGED out
    /\ EndConnection(c)
    /\ UNCHANGED <<gw, signalled, pathVars, at, request, op, emitted, response,
                   gatewayFaults>>

-----------------------------------------------------------------------------
ServeStep(g) ==
    \/ Bind(g) \/ WritePidFile(g) \/ Interrupt(g) \/ StopAccepting(g)
    \/ CleanupPaths(g) \/ CheckSocket(g) \/ RemoveSocket(g) \/ DropListener(g)
    \/ DropTasks(g) \/ Exit(g) \/ Crash(g)

HandlerStep(c) ==
    \/ AcceptConnection(c) \/ HandleConnection(c) \/ ReadTimesOut(c) \/ PlainResult(c)
    \/ WriteLog(c) \/ StreamEnds(c) \/ WriteResponse(c)

GatewayNext ==
    \/ \E g \in Gateways : ServeStep(g)
    \/ \E c \in Conns :
         \/ \E g \in Gateways, r \in RequestLines[c] : Connect(c, g, r)
         \/ PeerChanges(c) \/ HandlerStep(c) \/ EmitLog(c) \/ FinishOperation(c)
    \/ UnlinkSocket

\* Every task of a live process is scheduled, time passes, and an operation
\* of the manager returns.  No client and no operator is bound to act.
GatewayFairness ==
    /\ \A g \in Gateways :
         /\ WF_gatewayVars(WritePidFile(g))
         /\ WF_gatewayVars(g \in signalled /\ StopAccepting(g))
         /\ WF_gatewayVars(\/ CleanupPaths(g) \/ CheckSocket(g) \/ RemoveSocket(g)
                           \/ DropListener(g) \/ DropTasks(g) \/ Exit(g))
    /\ \A c \in Conns :
         WF_gatewayVars(HandlerStep(c)) /\ WF_gatewayVars(FinishOperation(c))

GatewaySpec == GatewayInit /\ [][GatewayNext]_gatewayVars /\ GatewayFairness

-----------------------------------------------------------------------------
(* Properties                                                              *)

\* The semaphore counts exactly the connections being handled, on every path
\* out of a handler, failed writes and dropped streams included.
GatewayPermitsExact ==
    \A g \in Gateways : gw[g] \in {"serving", "stopping"} =>
        freePermits[g] + Cardinality(Handled(g)) = MaxPermits

\* What a client received: log lines, and in the end one response, written 0.
Answered(c) == out[c] # <<>> /\ out[c][Len(out[c])] = 0
Lines(c) == IF Answered(c) THEN Len(out[c]) - 1 ELSE Len(out[c])

\* A client sees the operation's log lines in order and then one response,
\* which comes only after every line, and only from a finished operation
\* when it carries a result.
AnswersWhole ==
    \A c \in Conns :
        /\ \A i \in 1..Lines(c) : out[c][i] = i
        /\ Answered(c) /\ response[c] = "result" => op[c] = "finished" /\ Lines(c) = emitted[c]

\* Only a complete line within the limit that carries the token and decodes
\* ever starts an operation, and a rejected connection never does.
OnlyAdmittedRun ==
    \A c \in Conns : op[c] # None =>
        Framed(c) /\ Authorized(request[c]) /\ response[c] \in {None, "result"}

\* The socket at the path is that of the process serving it: neither a start
\* nor the end of another process takes it away, unless an operator unlinks
\* the path between that process's look at it and its removal
\* (listener.rs:211-218).
SocketKept ==
    \A g \in Gateways : gw[g] \in Keeping /\ g \notin robbed =>
        socketFile = g

\* While its socket is in place, a serving process is the one the pid file
\* names: the pid file of a process that leaves goes before its socket does.
PidFileTrue ==
    \A g \in Gateways : gw[g] = "serving" /\ robbed = {} => pidFile = g

\* Connections, permits, sockets and pid files of lifecycle.rs, listener.rs
\* and connection.rs, taken together.
GatewaySafe == GatewayPermitsExact /\ AnswersWhole /\ OnlyAdmittedRun /\ SocketKept /\ PidFileTrue

\* A connection gives its permit back unless its client stopped reading, and
\* a gateway told to stop leaves, whatever its clients do.
GatewayProgress ==
    /\ \A c \in Conns :
         phase[c] \in Handling ~> (phase[c] \notin Handling \/ peer[c] = "stalled")
    /\ \A g \in Gateways : (g \in signalled) ~> (gw[g] = "gone")
=============================================================================
